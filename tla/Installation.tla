----------------------------- MODULE Installation -----------------------------
(***************************************************************************)
(* The first administrator: app/application/commands/bootstrap-admin.ts    *)
(*                                                                         *)
(* Several submissions of the setup form.  The only lock is the row        *)
(* 'singleton' of installation_state; it does not say whose it is, and a   *)
(* claim fifteen minutes old may be taken over.  Better Auth creates the   *)
(* account and refuses an address that has one.                            *)
(***************************************************************************)
EXTENDS Integers, FiniteSets

CONSTANTS
    Installer,      \* submissions that carry a token
    Mail,           \* the addresses they may name
    MaxFailures,    \* failed attempts an address is allowed (5 in the code)
    MaxAttempts     \* bound: recorded failures of the window

ASSUME InstallationAssumption ==
    /\ MaxFailures \in Nat
    /\ MaxAttempts \in Nat

VARIABLES
    lock,       \* the row: free, in_progress or completed
    stale,      \* its claim is older than fifteen minutes
    failures,   \* bootstrap_attempts that count, in the last fifteen minutes
    setup,      \* setup[i]: where submission i is
    address,    \* address[i]: the address it names
    account,    \* addresses that have an account
    admin,      \* submissions whose profile and role were inserted
    outlived    \* history: a claim went stale whose submission was still running

installVars == <<lock, stale, failures, setup, address, account, admin, outlived>>

\* A submission that has claimed and has not answered yet.
Holding(i) == setup[i] \in {"claimed", "account", "refused"}

InstallInit ==
    /\ lock = "free"
    /\ stale = FALSE
    /\ failures = 0
    /\ setup = [i \in Installer |-> "new"]
    /\ address \in [Installer -> Mail]
    /\ account = {}
    /\ admin = {}
    /\ outlived = FALSE

Goes(i, to) == setup' = [setup EXCEPT ![i] = to]
OneMore     == failures' = IF failures < MaxAttempts THEN failures + 1 ELSE failures

\* The attempts are counted first; a refusal is itself recorded and counts.
CountFailures(i) ==
    /\ setup[i] = "new"
    /\ \/ failures < MaxFailures /\ Goes(i, "counted") /\ UNCHANGED failures
       \/ failures >= MaxFailures /\ Goes(i, "over") /\ OneMore
    /\ UNCHANGED <<lock, stale, address, account, admin, outlived>>

WrongToken(i) ==
    /\ setup[i] = "counted"
    /\ Goes(i, "over")
    /\ OneMore
    /\ UNCHANGED <<lock, stale, address, account, admin, outlived>>

\* isInstalled: for a clear message, not the guard.
RightToken(i) ==
    /\ setup[i] = "counted"
    /\ Goes(i, IF lock = "completed" THEN "over" ELSE "checked")
    /\ UNCHANGED <<lock, stale, failures, address, account, admin, outlived>>

AttemptsAge ==
    /\ failures > 0
    /\ failures' = failures - 1
    /\ UNCHANGED <<lock, stale, setup, address, account, admin, outlived>>

\* Fifteen minutes.
ClaimAges ==
    /\ lock = "in_progress" /\ ~stale
    /\ stale' = TRUE
    /\ outlived' = (outlived \/ \E i \in Installer : Holding(i))
    /\ UNCHANGED <<lock, failures, setup, address, account, admin>>

\* The upsert and its condition.
Claimable_InProgress == lock \in {"free", "in_progress"}
Claimable == lock = "free" \/ (lock = "in_progress" /\ stale)

ClaimInstallation(i) ==
    /\ setup[i] = "checked"
    /\ IF Claimable
       THEN lock' = "in_progress" /\ stale' = FALSE /\ Goes(i, "claimed")
       ELSE Goes(i, "over") /\ UNCHANGED <<lock, stale>>
    /\ UNCHANGED <<failures, address, account, admin, outlived>>

CreateAccount(i) ==
    /\ setup[i] = "claimed"
    /\ address[i] \notin account
    /\ account' = account \cup {address[i]}
    /\ Goes(i, "account")
    /\ UNCHANGED <<lock, stale, failures, address, admin, outlived>>

\* The address has an account, or Better Auth fails otherwise.
AccountRefused(i) ==
    /\ setup[i] = "claimed"
    /\ Goes(i, "refused")
    /\ UNCHANGED <<lock, stale, failures, address, account, admin, outlived>>

\* DELETE ... WHERE id = 'singleton': whoever's claim that is by now.
ReleaseClaim(i) ==
    /\ setup[i] = "refused"
    /\ lock' = "free" /\ stale' = FALSE
    /\ Goes(i, "over")
    /\ UNCHANGED <<failures, address, account, admin, outlived>>

\* The batch inserts profile and role whether or not the last update matches.
Completed == IF lock = "in_progress" THEN "completed" ELSE lock

CompleteInstallation(i) ==
    /\ setup[i] = "account"
    /\ lock' = Completed
    /\ stale' = (stale /\ lock' = "in_progress")
    /\ admin' = admin \cup {i}
    /\ Goes(i, "over")
    /\ UNCHANGED <<failures, address, account, outlived>>

\* The batch fails, or the worker dies: the claim and the account stay.
AbandonInstallation(i) ==
    /\ Holding(i)
    /\ Goes(i, "over")
    /\ UNCHANGED <<lock, stale, failures, address, account, admin, outlived>>

InstallNext ==
    \/ AttemptsAge
    \/ ClaimAges
    \/ \E i \in Installer :
          \/ CountFailures(i) \/ WrongToken(i) \/ RightToken(i)
          \/ ClaimInstallation(i)
          \/ CreateAccount(i) \/ AccountRefused(i)
          \/ ReleaseClaim(i) \/ CompleteInstallation(i) \/ AbandonInstallation(i)

InstallSpec == InstallInit /\ [][InstallNext]_installVars

--------------------------------------------------------------------------------
(* Properties.                                                               *)

InstallTypeOK ==
    /\ lock \in {"free", "in_progress", "completed"}
    /\ stale \in BOOLEAN
    /\ failures \in Nat
    /\ setup \in [Installer -> {"new", "counted", "checked", "claimed", "account", "refused", "over"}]
    /\ address \in [Installer -> Mail]
    /\ account \subseteq Mail
    /\ admin \subseteq Installer
    /\ outlived \in BOOLEAN

\* The setup form makes one administrator and closes for good: there are never
\* two, and as soon as there is one the installation reads completed, whatever
\* attempts died on the way.  The claim protects that only while no submission
\* outlives its fifteen minutes.
OneAdministrator ==
    outlived \/ /\ \A i, j \in admin : i = j
                /\ admin # {} => lock = "completed"

\* The induction behind it: one submission at most holds the lock.
OneHolder ==
    outlived \/ /\ \A i, j \in Installer : Holding(i) /\ Holding(j) => i = j
                /\ \A i \in Installer : Holding(i) => lock = "in_progress" /\ ~stale
                /\ lock = "completed" <=> admin # {}
                /\ stale => lock = "in_progress"
================================================================================
