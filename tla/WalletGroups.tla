----------------------------- MODULE WalletGroups -----------------------------
(* Wallet groups: their import, derivation, selection and removal by the         *)
(* containing app (WalletGroupManager.swift, WalletViewModel.swift), and the     *)
(* adoption barrier that resumes removals and refuses inconsistent state in      *)
(* every process (WalletRegistryAdoption.swift).  The app runs one operation at  *)
(* a time and ends nearly each of them with an adoption; other processes only    *)
(* adopt.  Steps fail, and processes die, at most MaxFaults times.               *)
(*                                                                               *)
(* Abstracted: the registry is what AtomicRegistry promises (an update that      *)
(* throws may still have taken place); connections are the accounts with an      *)
(* active connection and the default (ConnectApproval has the rest, and the      *)
(* pending requests); labels and dates are left out.                             *)
EXTENDS Integers, FiniteSets

CONSTANTS
  App,          \* the containing app
  Extensions,   \* processes that only adopt
  NoProc,
  Seeds,        \* seed phrases the user has
  Keys,         \* addresses whose private keys the user has
  Watched,      \* addresses the user may watch
  Addresses,
  NoAddress,
  Derived,      \* the address of each index of each seed
  Limit,        \* the derivation-index limit, 2^31 in the code
  MaxGroups,    \* groups ever imported
  MaxFaults     \* failing steps and process deaths

ASSUME ProcAssumption == App \notin Extensions /\ NoProc \notin Extensions \cup {App}
ASSUME LimitAssumption ==
  Limit \in Nat \ {0} /\ MaxGroups \in Nat /\ MaxFaults \in Nat
ASSUME AddressAssumption ==
  /\ Keys \cup Watched \subseteq Addresses /\ NoAddress \notin Addresses
  /\ Seeds \cap Addresses = {}
  /\ Derived \in [Seeds -> [0 .. Limit - 1 -> Addresses]]
  /\ \A s, t \in Seeds, i, j \in 0 .. Limit - 1 :
       Derived[s][i] = Derived[t][j] => s = t /\ i = j

VARIABLES
  groups,       \* the registry: the group of each identifier, in creation order
  home,         \* the registry's selected address
  keys,         \* the addresses with a private key in the keychain
  seeds,        \* the groups with seed entropy in the keychain
  connected,    \* the accounts with an active connection
  default,      \* the account new connections are proposed for
  cached,       \* the accounts with a stored balance
  groupLock,    \* who holds the lifecycle claim of each group
  adoptLock,    \* who holds the adoption claim
  shown,        \* the groups the app shows
  hasWallet,    \* whether the app shows a selected address
  created,      \* how many group identifiers were used
  faults,       \* how many faults there were
  op,           \* what each process is doing
  unregistered  \* history: the groups whose import was answered with an error

registry == <<groups, home>>
secrets == <<keys, seeds>>
accountState == <<connected, default, cached>>
claims == <<groupLock, adoptLock>>
view == <<shown, hasWallet>>
counters == <<created, faults, unregistered>>
vars == <<registry, secrets, accountState, claims, view, counters, op>>

Procs == Extensions \cup {App}
Ids == 1 .. MaxGroups
Indexes == 0 .. Limit - 1

Wallet == [kind : {"seed"}, root : Seeds] \cup [kind : {"privateKey"}, root : Keys]
            \cup [kind : {"watchOnly"}, root : Watched]
NoWallet == [kind |-> "none", root |-> NoAddress]

\* A group keeps the lifecycle of each of its accounts; a private key and a watched address
\* are account 0, and next is the first index never used.
NoGroup == [wallet |-> NoWallet, lifecycle |-> "none", next |-> 0,
            accounts |-> [i \in Indexes |-> "none"]]
Group == [wallet : Wallet \cup {NoWallet}, lifecycle : {"none", "active", "deleting"},
          next : 0 .. Limit, accounts : [Indexes -> {"none", "active", "deleting"}]]

Address(g, x) ==
  LET w == g[x[1]].wallet IN IF w.kind = "seed" THEN Derived[w.root][x[2]] ELSE w.root
AddressesOf(g, S) == {Address(g, x) : x \in S}

\* The accounts of a registry, each as its group's identifier and its index.
Accounts(g) == {x \in Ids \X Indexes : g[x[1]].accounts[x[2]] # "none"}
AccountsIn(g, id) == {x \in Accounts(g) : x[1] = id}
Active(g) ==
  {x \in Accounts(g) : g[x[1]].lifecycle = "active" /\ g[x[1]].accounts[x[2]] = "active"}
Eligible(g) == {x \in Active(g) : g[x[1]].wallet.kind # "watchOnly"}

First(S) == CHOOSE x \in S : \A y \in S : x[1] < y[1] \/ (x[1] = y[1] /\ x[2] <= y[2])
FirstAddress(g, S) == IF S = {} THEN NoAddress ELSE Address(g, First(S))

\* Faulty: the identity of a seed whose first account was removed is free again.
ContainsAccount(g, a) == a \in AddressesOf(g, Accounts(g))

Contains(g, a) ==
  \/ a \in AddressesOf(g, Accounts(g))
  \/ \E id \in Ids : g[id].wallet.kind = "seed" /\ Derived[g[id].wallet.root][0] = a

-----------------------------------------------------------------------------
(* What the registry store accepts: validate and validateTransition.            *)

ValidGroup(w) ==
  LET present == {i \in Indexes : w.accounts[i] # "none"}
  IN  /\ w.wallet.kind # "seed" =>
           present = {0} /\ w.accounts[0] = "active" /\ w.next = 0
      /\ w.wallet.kind = "seed" =>
           /\ present # {} /\ \A i \in present : i < w.next
           /\ w.lifecycle = "active" => \E i \in present : w.accounts[i] = "active"

Valid(g, h) ==
  /\ \A id \in Ids : g[id] # NoGroup => ValidGroup(g[id])
  /\ \A x, y \in Accounts(g) : Address(g, x) = Address(g, y) => x = y
  /\ \A id \in Ids, x \in Accounts(g) :
       g[id].wallet.kind = "seed" /\ Address(g, x) = Derived[g[id].wallet.root][0] => x[1] = id
  /\ \A id, other \in Ids :
       g[id].wallet.kind = "seed" /\ g[other].wallet = g[id].wallet => id = other
  /\ h \in AddressesOf(g, Active(g)) \cup {NoAddress}

Deletions(w) == {i \in Indexes : w.accounts[i] = "deleting"}

\* Within one active seed group: nothing, the start or the end of one account's removal, or
\* accounts added at indexes never used.
ValidSeedChange(w, n) ==
  LET changed == {i \in Indexes : w.accounts[i] # n.accounts[i]}
  IN  \/ changed = {} /\ n.next = w.next
      \/ /\ n.next = w.next
         /\ \E i \in changed :
              /\ changed = {i}
              /\ \/ w.accounts[i] = "active" /\ n.accounts[i] = "deleting"
                 \/ Deletions(w) = {i} /\ n.accounts[i] = "none"
      \/ /\ \A i \in changed : i >= w.next /\ i < n.next /\ n.accounts[i] = "active"
         /\ n.next - 1 \in changed

ValidChange(w, n) ==
  \/ w = NoGroup /\ n = NoGroup
  \/ /\ w = NoGroup /\ n # NoGroup /\ n.lifecycle = "active"
     /\ n.wallet.kind = "seed" => n.next = 1
  \/ w # NoGroup /\ n = NoGroup /\ w.lifecycle = "deleting"
  \/ /\ w # NoGroup /\ n # NoGroup /\ n.wallet = w.wallet
     /\ w.lifecycle = "deleting" => n.lifecycle = "deleting"
     /\ IF n.lifecycle = "active" /\ w.wallet.kind = "seed"
          THEN ValidSeedChange(w, n)
          ELSE n.accounts = w.accounts /\ n.next = w.next

Accepted(g, h) == Valid(g, h) /\ \A id \in Ids : ValidChange(groups[id], g[id])

-----------------------------------------------------------------------------
(* Operations and their failures.                                               *)

Kinds == {"none", "import", "imported", "derive", "select", "remove", "adopt"}
Steps == {"idle", "save", "register", "select", "discover", "claim", "read", "derive",
          "begin", "terminalize", "secret", "connections", "balances", "finish",
          "enter", "groups", "accounts", "resume", "validate", "returned", "refused", "thrown"}

\* The group worked on, the accounts meant (none for the whole group), what is imported,
\* whether its secret is taken back on failure, the next index that was read, and the
\* removals an adoption has still to resume (index -1 for a group).
Operation ==
  [kind : Kinds, at : Steps, id : Ids \cup {0}, pick : SUBSET Indexes,
   wallet : Wallet \cup {NoWallet}, inserted : BOOLEAN, next : 0 .. Limit,
   todo : SUBSET (Ids \X (Indexes \cup {-1}))]
Idle == [kind |-> "none", at |-> "idle", id |-> 0, pick |-> {}, wallet |-> NoWallet,
         inserted |-> FALSE, next |-> 0, todo |-> {}]
Adopting == [Idle EXCEPT !.kind = "adopt", !.at = "enter"]

Init ==
  /\ groups = [id \in Ids |-> NoGroup] /\ home = NoAddress
  /\ keys = {} /\ seeds = {}
  /\ connected = {} /\ default = NoAddress /\ cached = {}
  /\ groupLock = [id \in Ids |-> NoProc] /\ adoptLock = NoProc
  /\ shown = {} /\ hasWallet = FALSE
  /\ created = 0 /\ faults = 0 /\ unregistered = {}
  /\ op = [p \in Procs |-> IF p = App THEN Adopting ELSE Idle]

At(p, step) == [op EXCEPT ![p].at = step]
Skip(p, step) ==
  /\ op' = At(p, step)
  /\ UNCHANGED <<registry, secrets, accountState, claims, view, counters>>

Fault == faults < MaxFaults /\ faults' = faults + 1

\* One registryStore.update: done, refused by its validation, or thrown with or without effect.
Update(p, g, h, continued) ==
  /\ \/ /\ UNCHANGED faults
        /\ IF Accepted(g, h)
             THEN groups' = g /\ home' = h /\ op' = continued
             ELSE op' = At(p, "refused") /\ UNCHANGED registry
     \/ Fault /\ op' = At(p, "thrown") /\ UNCHANGED registry
     \/ Accepted(g, h) /\ groups' = g /\ home' = h /\ Fault /\ op' = At(p, "thrown")
  /\ UNCHANGED <<secrets, accountState, claims, view, created, unregistered>>

\* Keychain, authentication, files and busy requests: a step throws without effect.
Fail(p) ==
  /\ op[p].at \in {"save", "read", "terminalize", "secret", "connections", "balances",
                   "groups", "accounts", "validate"}
  /\ Fault /\ op' = At(p, "thrown")
  /\ UNCHANGED <<registry, secrets, accountState, claims, view, created, unregistered>>

Release(p) ==
  /\ groupLock' = [id \in Ids |-> IF groupLock[id] = p THEN NoProc ELSE groupLock[id]]
  /\ adoptLock' = IF adoptLock = p THEN NoProc ELSE adoptLock

\* An adoption that failed shows nothing.
ShowNothing(p) == IF p = App THEN shown' = {} /\ hasWallet' = FALSE ELSE UNCHANGED view

\* The deferred clean-up of an import that was not registered; its own failure is ignored.
Discard(p) ==
  /\ op[p].at \in {"thrown", "refused"} /\ op[p].kind = "import" /\ op[p].inserted
  /\ \/ /\ UNCHANGED faults
        /\ IF op[p].wallet.kind = "seed"
             THEN seeds' = seeds \ {op[p].id} /\ UNCHANGED keys
             ELSE keys' = keys \ {op[p].wallet.root} /\ UNCHANGED seeds
     \/ Fault /\ UNCHANGED secrets
  /\ op' = [op EXCEPT ![p].inserted = FALSE]
  /\ unregistered' = unregistered \cup {op[p].id}
  /\ UNCHANGED <<registry, accountState, claims, view, created>>

\* The error leaves the operation.  The app then adopts, but not after a selection.
Catch(p) ==
  /\ op[p].at \in {"thrown", "refused"} /\ ~op[p].inserted
  /\ op' = [op EXCEPT ![p] = IF op[p].kind \in {"adopt", "select"} THEN Idle ELSE Adopting]
  /\ IF op[p].kind = "adopt" THEN ShowNothing(p) ELSE UNCHANGED view
  /\ unregistered' = IF op[p].kind = "import" THEN unregistered \cup {op[p].id} ELSE unregistered
  /\ Release(p)
  /\ UNCHANGED <<registry, secrets, accountState, created, faults>>

-----------------------------------------------------------------------------
(* Import and selection.                                                       *)

NewGroup(w) ==
  [wallet |-> w, lifecycle |-> "active", next |-> IF w.kind = "seed" THEN 1 ELSE 0,
   accounts |-> [i \in Indexes |-> IF i = 0 THEN "active" ELSE "none"]]
FirstOf(w) == IF w.kind = "seed" THEN Derived[w.root][0] ELSE w.root

StartImport(w) ==
  /\ op[App] = Idle /\ created < MaxGroups
  /\ IF Contains(groups, FirstOf(w))
       THEN op' = [op EXCEPT ![App] = Adopting] /\ UNCHANGED created
       ELSE /\ created' = created + 1
            /\ op' = [op EXCEPT ![App] =
                 [Idle EXCEPT !.kind = "import", !.id = created + 1, !.wallet = w,
                              !.at = IF w.kind = "watchOnly" THEN "register" ELSE "save"]]
  /\ UNCHANGED <<registry, secrets, accountState, claims, view, faults, unregistered>>

\* A private key already in the keychain is used as it is, and left there on failure.
SaveSecret(p) ==
  /\ op[p].at = "save"
  /\ IF op[p].wallet.kind = "seed"
       THEN seeds' = seeds \cup {op[p].id} /\ UNCHANGED keys
       ELSE keys' = keys \cup {op[p].wallet.root} /\ UNCHANGED seeds
  /\ op' = [op EXCEPT ![p].at = "register",
                      ![p].inserted = op[p].wallet.kind = "seed" \/ op[p].wallet.root \notin keys]
  /\ UNCHANGED <<registry, accountState, claims, view, counters>>

Imported(p) == IF op[p].wallet.kind = "seed" THEN "discover" ELSE "returned"

\* Verification of the stored secret may fail like the update; the app selects what it
\* imports when it shows no selected address.
Register(p) ==
  /\ op[p].at = "register"
  /\ IF Contains(groups, FirstOf(op[p].wallet))
       THEN Skip(p, "thrown")
       ELSE Update(p, [groups EXCEPT ![op[p].id] = NewGroup(op[p].wallet)], home,
                   [op EXCEPT ![p].inserted = FALSE, ![p].kind = "imported",
                              ![p].at = IF hasWallet THEN Imported(p) ELSE "select"])

HasSecret(g, id) ==
  CASE g[id].wallet.kind = "seed" -> id \in seeds
    [] g[id].wallet.kind = "privateKey" -> g[id].wallet.root \in keys
    [] OTHER -> TRUE

StartSelect(x) ==
  /\ op[App] = Idle /\ x[1] \in shown /\ x \in Accounts(groups)
  /\ op' = [op EXCEPT ![App] = [Idle EXCEPT !.kind = "select", !.at = "select",
                                            !.id = x[1], !.pick = {x[2]}]]
  /\ UNCHANGED <<registry, secrets, accountState, claims, view, counters>>

Select(p) ==
  /\ op[p].at = "select"
  /\ LET x == <<op[p].id, IF op[p].kind = "imported" THEN 0 ELSE CHOOSE i \in op[p].pick : TRUE>>
         next == IF op[p].kind = "imported" THEN Imported(p) ELSE "returned"
     IN  IF x \notin Active(groups) \/ ~HasSecret(groups, x[1])
           THEN Skip(p, "thrown")
           ELSE IF home = Address(groups, x)
                  THEN Skip(p, next)
                  ELSE Update(p, groups, Address(groups, x), At(p, next))

\* The new seed's accounts are offered before the next adoption, or the screen is left.
Leave(p) == op[p].at = "discover" /\ Skip(p, "returned")

-----------------------------------------------------------------------------
(* Derivation.                                                                 *)

StartDerive(id, pick) ==
  /\ \/ op[App] = Idle /\ id \in shown
     \/ op[App].at = "discover" /\ id = op[App].id
  /\ op' = [op EXCEPT ![App] = [Idle EXCEPT !.kind = "derive", !.at = "claim",
                                            !.id = id, !.pick = pick]]
  /\ UNCHANGED <<registry, secrets, accountState, claims, view, counters>>

\* NSFileCoordinator waits for the claim.
ClaimGroup(p) ==
  /\ op[p].at = "claim" /\ groupLock[op[p].id] = NoProc
  /\ groupLock' = [groupLock EXCEPT ![op[p].id] = p]
  /\ op' = At(p, IF op[p].kind = "derive" THEN "read" ELSE "begin")
  /\ UNCHANGED <<registry, secrets, accountState, adoptLock, view, counters>>

ReadSeed(p) ==
  /\ op[p].at = "read"
  /\ LET w == groups[op[p].id]
     IN  IF /\ w.lifecycle = "active" /\ w.wallet.kind = "seed" /\ op[p].id \in seeds
            /\ \A i \in op[p].pick : i >= w.next
           THEN /\ op' = [op EXCEPT ![p].at = "derive", ![p].next = w.next]
                /\ UNCHANGED <<registry, secrets, accountState, claims, view, counters>>
           ELSE Skip(p, "thrown")

AddAccounts(w, pick) ==
  [w EXCEPT !.accounts = [i \in Indexes |-> IF i \in pick THEN "active" ELSE w.accounts[i]],
            !.next = 1 + (CHOOSE i \in pick : \A j \in pick : j <= i)]

Derive(p) ==
  /\ op[p].at = "derive"
  /\ LET w == groups[op[p].id]
     IN  IF /\ w.lifecycle = "active" /\ w.next = op[p].next
            /\ \A i \in op[p].pick : ~Contains(groups, Derived[w.wallet.root][i])
           THEN Update(p, [groups EXCEPT ![op[p].id] = AddAccounts(w, op[p].pick)], home,
                       At(p, "returned"))
           ELSE Skip(p, "thrown")

-----------------------------------------------------------------------------
(* Removal.  An account of a group that is not a seed is its whole group.       *)

StartRemove(id, pick) ==
  /\ op[App] = Idle /\ id \in shown /\ {id} \X pick \subseteq Accounts(groups)
  /\ op' = [op EXCEPT ![App] = [Idle EXCEPT !.kind = "remove", !.at = "claim",
                                            !.id = id, !.pick = pick]]
  /\ UNCHANGED <<registry, secrets, accountState, claims, view, counters>>

Whole(p) == op[p].pick = {} \/ groups[op[p].id].wallet.kind # "seed"

Removed(p) ==
  IF Whole(p) THEN AccountsIn(groups, op[p].id)
  ELSE {x \in AccountsIn(groups, op[p].id) : x[2] \in op[p].pick}

Survivor(p) ==
  IF home \in AddressesOf(groups, Removed(p))
    THEN FirstAddress(groups, Active(groups) \ Removed(p))
    ELSE home

MarkDeleting(w, pick) ==
  IF pick = {} THEN [w EXCEPT !.lifecycle = "deleting"]
  ELSE [w EXCEPT !.accounts = [i \in Indexes |-> IF i \in pick THEN "deleting" ELSE w.accounts[i]]]

BeginGroupRemoval(p) ==
  /\ op[p].at = "begin" /\ Whole(p)
  /\ LET w == groups[op[p].id]
     IN  \/ w = NoGroup /\ Skip(p, IF op[p].pick = {} THEN "returned" ELSE "thrown")
         \/ /\ w.lifecycle = "active"
            /\ Update(p, [groups EXCEPT ![op[p].id] = MarkDeleting(w, {})], Survivor(p),
                      At(p, "terminalize"))
         \/ /\ w.lifecycle = "deleting"
            /\ Skip(p, IF op[p].pick = {} THEN "terminalize" ELSE "thrown")

\* The last active account of a seed can only go with its group.
BeginAccountRemoval(p) ==
  /\ op[p].at = "begin" /\ ~Whole(p)
  /\ LET w == groups[op[p].id]
         others == {i \in Indexes \ op[p].pick : w.accounts[i] = "active"}
     IN  IF w.lifecycle # "active" \/ Removed(p) = {}
           THEN Skip(p, "thrown")
           ELSE \/ Removed(p) \cap Active(groups) = {} /\ Skip(p, "terminalize")
                \/ Removed(p) \subseteq Active(groups) /\ others = {} /\ Skip(p, "thrown")
                \/ /\ Removed(p) \subseteq Active(groups) /\ others # {}
                   /\ Update(p, [groups EXCEPT ![op[p].id] = MarkDeleting(w, op[p].pick)],
                             Survivor(p), At(p, "terminalize"))

\* Faulty: the secret stays, or goes with a single account.
TerminalizeKeepingSecret(p) == op[p].at = "terminalize" /\ Skip(p, "connections")
TerminalizeWithSecret(p) == op[p].at = "terminalize" /\ Skip(p, "secret")

\* ConnectApproval has the pending requests; here the step may find one busy, and Fail.
Terminalize(p) ==
  op[p].at = "terminalize" /\ Skip(p, IF Whole(p) THEN "secret" ELSE "connections")

DeleteSecret(p) ==
  /\ op[p].at = "secret"
  /\ seeds' = seeds \ {op[p].id}
  /\ keys' = IF groups[op[p].id].wallet.kind = "privateKey"
               THEN keys \ {groups[op[p].id].wallet.root} ELSE keys
  /\ op' = At(p, "connections")
  /\ UNCHANGED <<registry, accountState, claims, view, counters>>

SurvivingDefault ==
  LET eligible == Eligible(groups)
  IN  IF home \in AddressesOf(groups, eligible) THEN home ELSE FirstAddress(groups, eligible)

\* The state that is left is validated against the registry, and every account in it must be
\* eligible: one of another unfinished removal makes this one throw.
RemoveConnections(p) ==
  /\ op[p].at = "connections"
  /\ LET gone == AddressesOf(groups, Removed(p))
         newDefault == IF default \in gone THEN SurvivingDefault ELSE default
     IN  IF (connected \ gone) \cup ({newDefault} \ {NoAddress})
              \subseteq AddressesOf(groups, Eligible(groups))
           THEN /\ connected' = connected \ gone /\ default' = newDefault
                /\ op' = At(p, "balances")
                /\ UNCHANGED <<registry, secrets, cached, claims, view, counters>>
           ELSE Skip(p, "thrown")

RemoveBalances(p) ==
  /\ op[p].at = "balances"
  /\ cached' = cached \ AddressesOf(groups, Removed(p))
  /\ op' = At(p, "finish")
  /\ UNCHANGED <<registry, secrets, connected, default, claims, view, counters>>

FinishRemoval(p) ==
  /\ op[p].at = "finish"
  /\ LET w == groups[op[p].id]
     IN  Update(p, [groups EXCEPT ![op[p].id] =
                      IF Whole(p) THEN NoGroup
                      ELSE [w EXCEPT !.accounts = [i \in Indexes |->
                              IF i \in op[p].pick THEN "none" ELSE w.accounts[i]]]],
                home, At(p, "returned"))

-----------------------------------------------------------------------------
(* Adoption: resume removals, then refuse what is inconsistent.                 *)

StartAdoption(p) ==
  /\ p # App /\ op[p] = Idle
  /\ op' = [op EXCEPT ![p] = Adopting]
  /\ UNCHANGED <<registry, secrets, accountState, claims, view, counters>>

ClaimAdoption(p) ==
  /\ op[p].at = "enter" /\ adoptLock = NoProc
  /\ adoptLock' = p
  /\ op' = At(p, "groups")
  /\ UNCHANGED <<registry, secrets, accountState, groupLock, view, counters>>

\* Faulty: only groups are resumed.
ListGroups(p) ==
  /\ op[p].at \in {"groups", "accounts"}
  /\ op' = [op EXCEPT ![p].at = "resume", ![p].next = IF op[p].at = "groups" THEN 0 ELSE 1,
       ![p].todo = IF op[p].at = "groups"
                     THEN {id \in Ids : groups[id].lifecycle = "deleting"} \X {-1} ELSE {}]
  /\ UNCHANGED <<registry, secrets, accountState, claims, view, counters>>

ListRemovals(p) ==
  /\ op[p].at \in {"groups", "accounts"}
  /\ op' = [op EXCEPT ![p].at = "resume", ![p].todo =
       IF op[p].at = "groups"
         THEN {id \in Ids : groups[id].lifecycle = "deleting"} \X {-1}
         ELSE {x \in Accounts(groups) \ Active(groups) : groups[x[1]].lifecycle = "active"},
       ![p].next = IF op[p].at = "groups" THEN 0 ELSE 1]
  /\ UNCHANGED <<registry, secrets, accountState, claims, view, counters>>

\* Groups come first; next tells the two passes apart.
ResumeRemoval(p) ==
  /\ op[p].at = "resume"
  /\ IF op[p].todo = {}
       THEN op' = At(p, IF op[p].next = 0 THEN "accounts" ELSE "validate")
       ELSE LET x == First(op[p].todo)
            IN  op' = [op EXCEPT ![p].at = "claim", ![p].id = x[1], ![p].todo = @ \ {x},
                                 ![p].pick = {x[2]} \ {-1}]
  /\ UNCHANGED <<registry, secrets, accountState, claims, view, counters>>

Ready ==
  /\ \A id \in Ids : groups[id].lifecycle = "active" => HasSecret(groups, id)
  /\ connected \cup ({default} \ {NoAddress}) \subseteq AddressesOf(groups, Eligible(groups))
  /\ cached \subseteq AddressesOf(groups, Accounts(groups))

Validate(p) ==
  /\ op[p].at = "validate"
  /\ IF Ready
       THEN /\ op' = [op EXCEPT ![p] = Idle]
            /\ IF p = App
                 THEN /\ shown' = {id \in Ids : groups[id].lifecycle = "active"}
                      /\ hasWallet' = (home # NoAddress)
                 ELSE UNCHANGED view
            /\ Release(p)
            /\ UNCHANGED <<registry, secrets, accountState, counters>>
       ELSE Skip(p, "thrown")

\* Faulty: the group stays claimed.
ReturnHolding(p) ==
  /\ op[p].at = "returned"
  /\ op' = IF op[p].kind = "adopt" THEN At(p, "resume") ELSE [op EXCEPT ![p] = Adopting]
  /\ UNCHANGED <<registry, secrets, accountState, claims, view, counters>>

\* An operation of the app ends in an adoption; a resumed removal goes back to its adoption.
Return(p) ==
  /\ op[p].at = "returned"
  /\ op' = IF op[p].kind = "adopt" THEN At(p, "resume") ELSE [op EXCEPT ![p] = Adopting]
  /\ groupLock' = [id \in Ids |-> IF groupLock[id] = p THEN NoProc ELSE groupLock[id]]
  /\ UNCHANGED <<registry, secrets, accountState, adoptLock, view, counters>>

-----------------------------------------------------------------------------
(* The rest of the system.                                                     *)

\* A connect approval, committed under the registry lock.
Connect(a) ==
  /\ a \in AddressesOf(groups, Eligible(groups))
  /\ connected' = connected \cup {a} /\ default' = a
  /\ UNCHANGED <<registry, secrets, cached, claims, view, counters, op>>

\* Faulty: a balance that arrives late is stored whatever became of its account.
StoreLateBalance(a) ==
  /\ a \in Addresses
  /\ cached' = cached \cup {a}
  /\ UNCHANGED <<registry, secrets, connected, default, claims, view, counters, op>>

\* A balance is stored while the registry is what it was when the refresh began.
StoreBalance(a) ==
  /\ a \in AddressesOf(groups, Active(groups))
  /\ cached' = cached \cup {a}
  /\ UNCHANGED <<registry, secrets, connected, default, claims, view, counters, op>>

\* A process dies; the app starts again with an adoption.
Restarted(p) ==
  /\ op' = [op EXCEPT ![p] = IF p = App THEN Adopting ELSE Idle]
  /\ Release(p) /\ ShowNothing(p)
  /\ UNCHANGED <<registry, secrets, accountState, created, unregistered>>
Crash(p) == op[p] # Idle /\ Fault /\ Restarted(p)
Relaunch == op[App] = Idle /\ Restarted(App) /\ UNCHANGED faults

Wait(p) == ClaimGroup(p) \/ ClaimAdoption(p)

Continue(p) ==
  \/ Discard(p) \/ Catch(p) \/ SaveSecret(p) \/ Register(p) \/ Select(p) \/ Leave(p)
  \/ ReadSeed(p) \/ Derive(p)
  \/ BeginGroupRemoval(p) \/ BeginAccountRemoval(p) \/ Terminalize(p) \/ DeleteSecret(p)
  \/ RemoveConnections(p) \/ RemoveBalances(p) \/ FinishRemoval(p)
  \/ ListRemovals(p) \/ ResumeRemoval(p) \/ Validate(p) \/ Return(p)

Start ==
  \/ \E w \in Wallet : StartImport(w)
  \/ \E x \in Ids \X Indexes : StartSelect(x)
  \/ \E id \in Ids : \/ \E pick \in (SUBSET Indexes) \ {{}} : StartDerive(id, pick)
                     \/ StartRemove(id, {}) \/ \E i \in Indexes : StartRemove(id, {i})
  \/ \E p \in Extensions : StartAdoption(p)

Next ==
  \/ Start
  \/ \E p \in Procs : Wait(p) \/ Continue(p) \/ Fail(p) \/ Crash(p)
  \/ \E a \in Addresses : Connect(a) \/ StoreBalance(a)
  \/ Relaunch

Spec == Init /\ [][Next]_vars

\* A running operation runs on, and a process that waits for a claim gets it in the end.
FairSpec == Spec /\ \A p \in Procs : WF_vars(Continue(p)) /\ SF_vars(Wait(p))

-----------------------------------------------------------------------------
TypeOK ==
  /\ groups \in [Ids -> Group] /\ home \in Addresses \cup {NoAddress}
  /\ keys \subseteq Keys /\ seeds \subseteq Ids
  /\ connected \subseteq Addresses /\ default \in Addresses \cup {NoAddress}
  /\ cached \subseteq Addresses
  /\ groupLock \in [Ids -> Procs \cup {NoProc}] /\ adoptLock \in Procs \cup {NoProc}
  /\ shown \subseteq Ids /\ hasWallet \in BOOLEAN
  /\ created \in 0 .. MaxGroups /\ faults \in 0 .. MaxFaults
  /\ op \in [Procs -> Operation] /\ unregistered \subseteq Ids

\* The manager never proposes a registry that the store's own rules refuse: an operation that
\* was would never get past that point, and a removal could not be finished by any adoption.
NeverRefused == \A p \in Procs : op[p].at # "refused"

RemovalsPending ==
  {x \in Accounts(groups) : groups[x[1]].accounts[x[2]] = "deleting"}
    \cup {id \in Ids : groups[id].lifecycle = "deleting"} \X {-1}

\* Whenever no removal is unfinished, adoption accepts what is stored: no operation,
\* interrupted or failed anywhere, leaves a state that every later entry refuses.  The one
\* exception is the group of an import that threw, see NoPartialGroup.
AdoptionAccepts ==
  RemovalsPending = {} =>
    /\ \A id \in Ids \ unregistered : groups[id].lifecycle = "active" => HasSecret(groups, id)
    /\ connected \cup ({default} \ {NoAddress}) \subseteq AddressesOf(groups, Eligible(groups))
    /\ cached \subseteq AddressesOf(groups, Accounts(groups))

\* A group or an account leaves the registry only when nothing of it is left elsewhere.
RemovalLeavesNothing ==
  [][\A x \in Accounts(groups) \ Accounts(groups)' :
       /\ Address(groups, x) \notin connected \cup {default} \cup cached
       /\ groups'[x[1]] = NoGroup /\ groups[x[1]].wallet.kind # "watchOnly" =>
            ~HasSecret(groups, x[1])]_vars

\* "Forgetting one wallet group cannot delete, disconnect, hide, or sign with another group":
\* what stays active keeps its secret and its connection, and while an account is left one of
\* them is selected.
RemovalIsLocal ==
  [][/\ \A id \in Ids \ unregistered' :
          groups'[id].lifecycle = "active" /\ groups[id].lifecycle = "active"
            /\ HasSecret(groups, id) => HasSecret(groups, id)'
     /\ (connected \ connected') \cap AddressesOf(groups, Active(groups)) = {}
     /\ home # NoAddress /\ home' = NoAddress => Active(groups)' = {}]_vars

\* "Create/import/derive rollback leaves no visible partial group" (the plan's Gate B): an
\* active group has its secret.
NoPartialGroup == \A id \in Ids : groups[id].lifecycle = "active" => HasSecret(groups, id)

\* Every removal that was begun is finished, as long as some process goes on adopting.
RemovalFinishes ==
  \A x \in Ids \X (Indexes \cup {-1}) :
    []<>(\E p \in Procs : op[p].at = "enter")
      => (x \in RemovalsPending ~> x \notin RemovalsPending)

\* Every operation of the app comes to its end.
OperationEnds == op[App] # Idle ~> op[App] = Idle

-----------------------------------------------------------------------------
(* What the life of a group is to the rest of the wallet.  What an import that was given up  *)
(* left in the keychain belongs to no group.                                                 *)

\* The group that an import is about to register.
IsImported(id) == op[App].at \in {"save", "register"} /\ op[App].id = id

Phase(id) ==
  IF groups[id] # NoGroup THEN groups[id].lifecycle
  ELSE IF id > created \/ IsImported(id) THEN "new" ELSE "gone"

GroupsWithSecret ==
  {id \in Ids : \/ id \in seeds /\ (groups[id] # NoGroup \/ IsImported(id))
                \/ groups[id].wallet.kind = "privateKey" /\ groups[id].wallet.root \in keys}

GroupsNamed ==
  {id \in Ids : \E i \in Indexes :
     /\ groups[id].accounts[i] # "none"
     /\ Address(groups, <<id, i>>) \in connected \cup {default} \cup cached}

Authority == INSTANCE GroupAuthority WITH
  Groups <- Ids, phase <- [id \in Ids |-> Phase(id)],
  secrets <- GroupsWithSecret, named <- GroupsNamed

\* However operations are interrupted and resumed by other processes, only an active group
\* is connected or gets a balance, a removal only takes away, and a group leaves for ever,
\* with nothing left of it.
Implements == Authority!Spec
=============================================================================
