----------------------------- MODULE MCAccounts -----------------------------
(***************************************************************************)
(* Small instances of Accounts: administrators on an empty server, devices *)
(* with sockets, or two tabs of one browser with two accounts.             *)
(***************************************************************************)
EXTENDS Accounts, TLC

CONSTANTS MaxIssued, MaxVersion, MaxChanges

VARIABLE focus

mcvars == <<vars, focus>>

Changes == FoldFunction(LAMBDA row, n : row.version + n, 0, accounts')

Bounded ==
    /\ issued' <= MaxIssued
    /\ \A u \in DOMAIN accounts' : accounts'[u].version <= MaxVersion
    /\ Changes <= MaxChanges
    /\ Cardinality(resets') <= 1

TwoAccounts ==
    /\ accounts = [u \in User |-> NewAccount("admin")]
    /\ tokens = NoRows /\ issued = 0 /\ registration = FALSE
    /\ tickets = NoRows /\ sockets = NoRows /\ resets = {}

MCInit ==
    \/ focus = "administration" /\ Init
    \/ focus \in {"sockets", "browser"} /\ TwoAccounts /\ BrowserInit

\* An account is made, administered and signs in again.
AdministrationNext ==
    \/ AdminStep
    \/ ResetStep
    \/ AccountStep
    \/ StopAndStart

\* A login opens a socket and ends, in each of the ways there are.
SocketsNext ==
    \/ \E u \in User : Login(u)
    \/ LoginStep
    \/ TimeStep
    \/ SocketStep
    \/ \E a, u \in User, family \in 1..issued : Disable(a, family, u)

BrowserNext ==
    \/ BrowserStep
    \/ /\ \/ TimeStep
          \/ \E t \in DOMAIN tokens \ InBrowser : Rotate(t)
          \/ \E u \in User, family \in 1..issued : RevokeDevice(u, family)
       /\ UNCHANGED browserVars

MCNext ==
    /\ \/ focus = "administration" /\ AdministrationNext /\ UNCHANGED browserVars
       \/ focus = "sockets" /\ SocketsNext /\ UNCHANGED browserVars
       \/ focus = "browser" /\ BrowserNext
    /\ Bounded
    /\ UNCHANGED focus

MCSpec == MCInit /\ [][MCNext]_mcvars /\ Fairness
=============================================================================
