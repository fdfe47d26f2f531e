SPECIFICATION ShopSpec
CONSTANTS
  Location = {l1, l2}
  OldLocations = {l1}
  FirstLocation = l1
  Adjustment = {a1}
  Counted = {0, 2}
  Transfer = {t1}
  Sent = {1}
  Reception = {r1, r2}
  Hold = {h1}
  HoldQty = 1
  NoRow = NoRow
  Article = {v1}
  CartTab = {b1, b2, b3}
  Typed = {0, 1, 2}
  CartCap = 2
  MaxLevels = 2
  MaxExpiries = 1
  Installer = {i1, i2}
  Mail = {m1, m2}
  MaxFailures = 1
  MaxAttempts = 1
  Person = {anna, bruno}
  Founder = anna
  Role = {"super_admin", "manager"}
  Grants <- MCGrants
  RoleChoice = {{"super_admin"}, {"manager"}}
  StaffRequest = {q1, q2}
  Invitation = {inv1}
  Acceptance = {c1, c2}
  Author = {e1, e2}
  MaxStamp = 2
  Sku = {"v1", "v2"}
  Amount = {1, 2}
  Pricing = {p1, p2}
  File <- MCFile
  NoPrice = NoPrice
  Variant = {w1, w2, w3}
  FirstVariant = w1
  Archiving = {x1}
  Product = {d1, d2}
  Content = {k1, k2}
  PhotoRow = {1, 2}
  Uploading = {u1, u2}
  Deleting = {z1}
  Copying = {y1}
  SoldOrder = {o1, o2}
  Counter = {n1, n2}
  Collector = {rosa}
  Parcel = {g1}
  Return = {s1}
  Nobody = Nobody
  Phone = {f1}
  Colour = {red}
  Whole = Whole
  Checker = {carla}
  Asked = {"exact_fit", "compatible", "incompatible"}
  Form = {j1, j2}
  Section = {sa, sb, sc}
  Editing = {ed1, ed2}
  MaxPosition = 3
  Cents = {0, 1, 3, 10}
  Units = {0, 1, 2}
  Rates = {0, 2200}
  Baskets <- MCBaskets
  Instants = {0, 2, 4, 5}
  Window = 2
  Null = Null
  Items = 3
  Tongue = {it, en}
  BatchSize = 2
  Rebuild = {rb1}
  MaxWordings = 1
  CacheWorker = {k1, k2}
  Url = {home}
  Visit = {vis1}
  Mutation = {mut1, mut2}
  MaxEntries = 1
  MaxMs = 1
  MaxRestarts = 0
PROPERTIES
  EveryChangeMoves
CHECK_DEADLOCK FALSE
