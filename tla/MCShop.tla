--------------------------------- MODULE MCShop ---------------------------------
(***************************************************************************)
(* The parts of the shop that share no table, beside the orders of         *)
(* MCOrderStock.  No step of one can enable, disable or change a step of   *)
(* another, so their product shows nothing that they do not show one at a  *)
(* time: part chooses one at the start and the others never move.          *)
(***************************************************************************)
EXTENDS StockLedger, Cart, Installation, Staff, ProductPage, Prices, Variants, Photos,
        Fulfilment, Compatibility, Homepage, Figures, SearchIndex, ResponseCache, TLC

VARIABLE part

Part == {"ledger", "cart", "installation", "staff", "product", "prices",
         "variants", "photos", "fulfilment", "compatibility", "homepage", "figures", "search", "cache"}

MCFile == {<<[sku |-> "v1", amount |-> 2, name |-> TRUE], [sku |-> "v2", amount |-> 1, name |-> FALSE],
             [sku |-> "v1", amount |-> 1, name |-> FALSE]>>}
MCBaskets == {<<l>> : l \in Line} \cup {<<l, l>> : l \in Line}
MCGrants == [super_admin |-> {"staff.roles", "staff.write", "other"}, manager |-> {"staff.roles", "staff.write"}]

\* The parts that stay where they are have one initial state each.
ShopInit ==
    /\ part \in Part
    /\ LedgerInit
    /\ CartInit /\ (part = "cart" \/ cart = "none")
    /\ InstallInit /\ (part = "installation" \/ address = [i \in Installer |-> CHOOSE m \in Mail : TRUE])
    /\ StaffInit
    /\ ProductInit /\ (part = "product" \/ product.status = "draft")
    /\ PricesInit
    /\ VariantsInit
    /\ PhotosInit
    /\ FulfilmentInit /\ (part = "fulfilment" \/ \A o \in SoldOrder : method[o] = "pickup")
    /\ CompatInit /\ (part = "compatibility" \/ ~Recorded)
    /\ HomeInit
    /\ IF part = "figures" THEN FiguresInit ELSE asked = [kind |-> "none"] /\ said = Null
    /\ CacheInit
    /\ SearchInit /\ (part = "search" \/ wording = Nothing)

ShopNext ==
    \/ /\ part = "ledger" /\ LedgerNext
       /\ UNCHANGED <<part, cartVars, installVars, staffVars, productVars, pricesVars, variantsVars,
                      photosVars, fulfilmentVars, compatVars, homeVars, figuresVars, searchVars, cacheVars>>
    \/ /\ part = "cart" /\ CartNext
       /\ UNCHANGED <<part, ledgerVars, installVars, staffVars, productVars, pricesVars, variantsVars,
                      photosVars, fulfilmentVars, compatVars, homeVars, figuresVars, searchVars, cacheVars>>
    \/ /\ part = "installation" /\ InstallNext
       /\ UNCHANGED <<part, ledgerVars, cartVars, staffVars, productVars, pricesVars, variantsVars,
                      photosVars, fulfilmentVars, compatVars, homeVars, figuresVars, searchVars, cacheVars>>
    \/ /\ part = "staff" /\ StaffNext
       /\ UNCHANGED <<part, ledgerVars, cartVars, installVars, productVars, pricesVars, variantsVars,
                      photosVars, fulfilmentVars, compatVars, homeVars, figuresVars, searchVars, cacheVars>>
    \/ /\ part = "product" /\ ProductNext
       /\ UNCHANGED <<part, ledgerVars, cartVars, installVars, staffVars, pricesVars, variantsVars,
                      photosVars, fulfilmentVars, compatVars, homeVars, figuresVars, searchVars, cacheVars>>
    \/ /\ part = "prices" /\ PricesNext
       /\ UNCHANGED <<part, ledgerVars, cartVars, installVars, staffVars, productVars, variantsVars,
                      photosVars, fulfilmentVars, compatVars, homeVars, figuresVars, searchVars, cacheVars>>
    \/ /\ part = "variants" /\ VariantsNext
       /\ UNCHANGED <<part, ledgerVars, cartVars, installVars, staffVars, productVars, pricesVars,
                      photosVars, fulfilmentVars, compatVars, homeVars, figuresVars, searchVars, cacheVars>>
    \/ /\ part = "photos" /\ PhotosNext
       /\ UNCHANGED <<part, ledgerVars, cartVars, installVars, staffVars, productVars, pricesVars,
                      variantsVars, fulfilmentVars, compatVars, homeVars, figuresVars, searchVars, cacheVars>>
    \/ /\ part = "fulfilment" /\ FulfilmentNext
       /\ UNCHANGED <<part, ledgerVars, cartVars, installVars, staffVars, productVars, pricesVars,
                      variantsVars, photosVars, compatVars, homeVars, figuresVars, searchVars, cacheVars>>
    \/ /\ part = "compatibility" /\ CompatNext
       /\ UNCHANGED <<part, ledgerVars, cartVars, installVars, staffVars, productVars, pricesVars,
                      variantsVars, photosVars, fulfilmentVars, homeVars, figuresVars, searchVars, cacheVars>>
    \/ /\ part = "homepage" /\ HomeNext
       /\ UNCHANGED <<part, ledgerVars, cartVars, installVars, staffVars, productVars, pricesVars,
                      variantsVars, photosVars, fulfilmentVars, compatVars, figuresVars, searchVars, cacheVars>>
    \/ /\ part = "figures" /\ FiguresNext
       /\ UNCHANGED <<part, ledgerVars, cartVars, installVars, staffVars, productVars, pricesVars,
                      variantsVars, photosVars, fulfilmentVars, compatVars, homeVars, searchVars, cacheVars>>
    \/ /\ part = "search" /\ SearchNext
       /\ UNCHANGED <<part, ledgerVars, cartVars, installVars, staffVars, productVars, pricesVars,
                      variantsVars, photosVars, fulfilmentVars, compatVars, homeVars, figuresVars, cacheVars>>
    \/ /\ part = "cache" /\ CacheNext
       /\ UNCHANGED <<part, ledgerVars, cartVars, installVars, staffVars, productVars, pricesVars, variantsVars,
                      photosVars, fulfilmentVars, compatVars, homeVars, figuresVars, searchVars>>

shopVars == <<part, ledgerVars, cartVars, installVars, staffVars, productVars, pricesVars, variantsVars,
              photosVars, fulfilmentVars, compatVars, homeVars, figuresVars, searchVars, cacheVars>>

ShopSpec == ShopInit /\ [][ShopNext]_shopVars

\* Every variable of every part has its type.
ShopTypeOK ==
    /\ part = "ledger" => LedgerTypeOK
    /\ part = "cart" => CartTypeOK
    /\ part = "installation" => InstallTypeOK
    /\ part = "staff" => StaffTypeOK
    /\ part = "product" => ProductTypeOK
    /\ part = "prices" => PricesTypeOK
    /\ part = "variants" => VariantsTypeOK
    /\ part = "photos" => PhotosTypeOK
    /\ part = "fulfilment" => FulfilmentTypeOK
    /\ part = "compatibility" => CompatTypeOK
    /\ part = "homepage" => HomeTypeOK
    /\ part = "figures" => FiguresTypeOK
    /\ part = "search" => SearchTypeOK
    /\ part = "cache" => CacheTypeOK
=================================================================================
