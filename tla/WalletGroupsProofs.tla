-------------------------- MODULE WalletGroupsProofs --------------------------
(***************************************************************************)
(* The safety of wallet groups for any number of seeds, keys, groups,       *)
(* indexes, processes and faults.                                           *)
(*                                                                          *)
(* The argument has three layers, each one inductive with those before it:   *)
(*   Control  where each operation is, what it holds, and that the registry  *)
(*            is valid;                                                      *)
(*   Kept     what the registry holds of a group agrees with its secret, its *)
(*            connections and its balances, and how far a removal has come;  *)
(*   Orderly  a removal is resumed before the next one can begin.            *)
(* That nothing is ever refused then follows step by step: a lemma for each  *)
(* update says that the registry it proposes is valid and may follow.        *)
(* Two results rest on the same layers: every step is one of GroupAuthority  *)
(* or changes nothing it sees, and a process that waits for a claim waits    *)
(* for one that waits for nobody in turn.                                    *)
(***************************************************************************)
EXTENDS WalletGroups, WellFoundedInduction, TLAPS

-----------------------------------------------------------------------------
(* Control: where an operation is, what it holds and what it has begun.      *)

LateSteps == {"terminalize", "secret", "connections", "balances", "finish"}
RemovalSteps == {"claim", "begin"} \cup LateSteps
Failures == {"thrown", "refused"}

OnPath(kind, at) ==
  \/ kind = "none" /\ at = "idle"
  \/ kind # "none" /\ at \in Failures
  \/ kind = "import" /\ at \in {"save", "register"}
  \/ kind = "imported" /\ at \in {"select", "discover", "returned"}
  \/ kind = "select" /\ at \in {"select", "returned"}
  \/ kind = "derive" /\ at \in {"claim", "read", "derive", "returned"}
  \/ kind = "remove" /\ at \in {"returned"} \cup RemovalSteps
  \/ kind = "adopt" /\ at \in {"enter", "groups", "accounts", "resume", "validate", "returned"}
                                \cup RemovalSteps

\* Only the app imports, selects, derives and removes; an operation on a group names it.
InStep(p) ==
  /\ OnPath(op[p].kind, op[p].at)
  /\ p # App => op[p].kind \in {"none", "adopt"}
  /\ op[p].inserted => op[p].kind = "import" /\ op[p].at # "save"
  /\ op[p].kind \in {"import", "imported", "select", "derive", "remove"} => op[p].id \in Ids
  /\ op[p].at \in RemovalSteps => op[p].id \in Ids

\* A removal is of a whole group or of one account; a derivation of at least one.
Picks(p) ==
  /\ op[p].at \in RemovalSteps /\ op[p].kind # "derive" =>
       op[p].pick = {} \/ \E i \in Indexes : op[p].pick = {i}
  /\ op[p].kind = "derive" => op[p].pick # {}

\* From its claim on, a derivation or a removal holds its group.
HoldsGroup(p) ==
  op[p].at \in {"read", "derive", "begin"} \cup LateSteps => groupLock[op[p].id] = p

\* A removal that has begun finds its group or its account in deletion.
Begun(p) ==
  op[p].at \in LateSteps =>
    IF Whole(p) THEN groups[op[p].id].lifecycle = "deleting"
    ELSE /\ groups[op[p].id].lifecycle = "active"
         /\ \A i \in op[p].pick : groups[op[p].id].accounts[i] = "deleting"

\* A derivation that has read the seed proposes indexes never used.
Deriving(p) ==
  op[p].at = "derive" =>
    /\ groups[op[p].id].wallet.kind = "seed"
    /\ \A i \in op[p].pick : i >= op[p].next

Handler(p) == InStep(p) /\ Picks(p) /\ HoldsGroup(p) /\ Begun(p) /\ Deriving(p)

\* What is imported is new, until it is registered and after.
Importing ==
  op[App].kind = "import" =>
    /\ op[App].id <= created /\ op[App].wallet \in Wallet
    /\ op[App].at = "save" \/ op[App].inserted => op[App].wallet.kind # "watchOnly"
    /\ \A id \in Ids \ {op[App].id} : groups[id].wallet # op[App].wallet
    /\ op[App].at \in {"save", "register"} =>
         groups[op[App].id] = NoGroup /\ ~Contains(groups, FirstOf(op[App].wallet))

Formed(id) ==
  groups[id] = NoGroup \/ (groups[id].wallet \in Wallet /\ groups[id].lifecycle # "none")

Unused(id) == id > created => groups[id] = NoGroup /\ id \notin seeds

Control ==
  /\ TypeOK /\ Valid(groups, home) /\ Importing
  /\ \A id \in Ids : Formed(id) /\ Unused(id)
  /\ \A p \in Procs : Handler(p)

-----------------------------------------------------------------------------
(* What a removal leaves, and what the rest keeps.                           *)

\* The addresses of the accounts a removal removes.
Leaving(p) == AddressesOf(groups, Removed(p))

NoSecret(id) ==
  /\ id \notin seeds
  /\ groups[id].wallet.kind = "privateKey" => groups[id].wallet.root \notin keys

\* Each step of a removal leaves nothing of what it takes away, and nothing comes back.
Cleared(p) ==
  /\ op[p].at = "secret" => Whole(p)
  /\ op[p].at \in {"connections", "balances", "finish"} /\ Whole(p) => NoSecret(op[p].id)
  /\ op[p].at \in {"balances", "finish"} => Leaving(p) \cap (connected \cup {default}) = {}
  /\ op[p].at = "finish" => Leaving(p) \cap cached = {}

\* The secret of an import is stored before its group is registered.
Saved ==
  op[App].at = "register" =>
    CASE op[App].wallet.kind = "seed" -> op[App].id \in seeds
      [] op[App].wallet.kind = "privateKey" -> op[App].wallet.root \in keys
      [] OTHER -> TRUE

HasKeys == \A id \in Ids \ unregistered : groups[id].lifecycle = "active" => HasSecret(groups, id)

\* Connections and balances are of registered accounts, though some may be in deletion.
Owned ==
  /\ connected \cup ({default} \ {NoAddress}) \subseteq
       AddressesOf(groups, {x \in Accounts(groups) : groups[x[1]].wallet.kind # "watchOnly"})
  /\ cached \subseteq AddressesOf(groups, Accounts(groups))

Kept == Saved /\ HasKeys /\ Owned /\ \A p \in Procs : Cleared(p)

-----------------------------------------------------------------------------
(* Adoption: only the app begins a removal, and only when no other is left.   *)

\* A group or account that was in deletion once never becomes active again.
Spent(x) ==
  /\ x[1] <= created
  /\ ~(op[App].at \in {"save", "register"} /\ op[App].id = x[1])
  /\ IF x[2] = -1 THEN groups[x[1]].lifecycle # "active"
     ELSE \/ groups[x[1]] = NoGroup
          \/ /\ groups[x[1]].wallet.kind = "seed" /\ x[2] < groups[x[1]].next
             /\ groups[x[1]].accounts[x[2]] # "active"

\* What an adoption resumes was in deletion when it was listed, groups before accounts.
Resumes(p) ==
  op[p].kind = "adopt" =>
    /\ op[p].next \in {0, 1}
    /\ \A x \in op[p].todo : Spent(x) /\ (x[2] = -1 <=> op[p].next = 0)
    /\ op[p].at \in RemovalSteps =>
         /\ op[p].pick = {} <=> op[p].next = 0
         /\ op[p].pick = {} => Spent(<<op[p].id, -1>>)
         /\ \A i \in op[p].pick : Spent(<<op[p].id, i>>)

OneDeletion == \A id \in Ids : \A i, j \in Deletions(groups[id]) : i = j

\* What the app has still to resume: what it has listed, and what it is working on.
Awaited ==
  op[App].todo \cup
    IF op[App].at \in RemovalSteps
      THEN IF op[App].pick = {} THEN {<<op[App].id, -1>>} ELSE {op[App].id} \X op[App].pick
      ELSE {}

GroupsPending == {x \in RemovalsPending : x[2] = -1}

\* The app's adoption goes through every removal before it shows a wallet, and while it
\* shows one nothing else is left to resume.
Swept ==
  LET at == op[App].at IN
  /\ op[App].kind = "adopt" /\ at \in {"resume", "returned"} \cup RemovalSteps =>
       IF op[App].next = 0 THEN GroupsPending \subseteq Awaited
       ELSE RemovalsPending \subseteq Awaited
  /\ op[App].kind = "adopt" /\ at = "accounts" => GroupsPending = {}
  /\ op[App].kind = "adopt" /\ at = "validate" => RemovalsPending = {}
  /\ op[App].kind = "remove" /\ at \in {"claim", "begin"} => RemovalsPending = {}
  /\ op[App].kind \notin {"adopt", "remove"} /\ shown # {} => RemovalsPending = {}

Orderly == OneDeletion /\ Swept /\ \A p \in Procs : Resumes(p)

-----------------------------------------------------------------------------
(* The least and the greatest of a set of indexes.                           *)

LEMMA LeastNatural ==
  ASSUME NEW S, S \subseteq Nat, S # {}
  PROVE  \E n \in S : \A m \in S : n <= m
<1>1. PICK n \in S : \A m \in S : ~(<<m, n>> \in OpToRel(<, Nat))
  BY NatLessThanWellFounded, WFMin
<1>2. \A m \in S : <<m, n>> \in Nat \X Nat
  OBVIOUS
<1>3. ASSUME NEW m \in S PROVE ~(m < n)
  BY <1>1, <1>2 DEF OpToRel
<1>4. \A m \in S : n \in Nat /\ m \in Nat
  OBVIOUS
<1>5. \A m \in S : n <= m
  BY <1>3, <1>4
<1> QED
  BY <1>5

LEMMA GreatestIndex ==
  ASSUME NEW S, S \subseteq Indexes, S # {}
  PROVE  \E n \in S : \A m \in S : m <= n
<1> DEFINE T == {Limit - n : n \in S}
<1>1. Limit \in Nat /\ \A n \in S : n \in Nat /\ n < Limit
  BY LimitAssumption DEF Indexes
<1>2. T \subseteq Nat /\ T # {}
  BY <1>1
<1>3. PICK t \in T : \A u \in T : t <= u
  BY <1>2, LeastNatural
<1>4. PICK n \in S : t = Limit - n
  BY <1>3
<1>5. \A m \in S : t <= Limit - m
  BY <1>3
<1> QED
  BY <1>1, <1>4, <1>5

\* The first account or group of a list is one of the list.
LEMMA FirstIsListed ==
  ASSUME NEW S, S \subseteq Nat \X (Nat \cup {-1}), S # {}
  PROVE  First(S) \in S
<1> DEFINE N == {x[1] : x \in S}
<1>1. PICK n \in N : \A m \in N : n <= m
  <2>1. N \subseteq Nat /\ N # {}
    OBVIOUS
  <2> QED
    BY <2>1, LeastNatural
<1> DEFINE M == {x[2] + 1 : x \in {y \in S : y[1] = n}}
<1>2. M \subseteq Nat /\ M # {}
  BY <1>1
<1>3. PICK m \in M : \A k \in M : m <= k
  BY <1>2, LeastNatural
<1>4. PICK x \in S : x[1] = n /\ x[2] + 1 = m
  BY <1>3
<1>5. ASSUME NEW y \in S PROVE x[1] < y[1] \/ (x[1] = y[1] /\ x[2] <= y[2])
  <2>1. x[1] \in Nat /\ y[1] \in Nat /\ x[1] <= y[1]
    BY <1>1, <1>4
  <2>2. x[2] \in Int /\ y[2] \in Int
    OBVIOUS
  <2>3. y[1] = n => x[2] + 1 <= y[2] + 1
    BY <1>3, <1>4
  <2> QED
    BY <1>4, <2>1, <2>2, <2>3
<1> QED
  BY <1>4, <1>5 DEF First

-----------------------------------------------------------------------------
(* Wallets, groups and addresses.                                            *)

LEMMA IndexFacts ==
  /\ Indexes \subseteq Nat /\ 0 \in Indexes /\ Limit \in Nat /\ 0 \in 0 .. Limit
  /\ \A i \in Indexes : i + 1 \in 0 .. Limit /\ i \in 0 .. Limit
  /\ Ids \subseteq Nat /\ 0 \notin Ids
  BY LimitAssumption DEF Indexes, Ids

LEMMA WalletKinds ==
  ASSUME NEW w \in Wallet
  PROVE  /\ \/ w.kind = "seed" /\ w.root \in Seeds
            \/ w.kind = "privateKey" /\ w.root \in Keys
            \/ w.kind = "watchOnly" /\ w.root \in Watched
         /\ w # NoWallet
         /\ FirstOf(w) \in Addresses
         /\ w.kind # "seed" => w.root \in Addresses
  BY AddressAssumption, IndexFacts DEF Wallet, NoWallet, FirstOf, Indexes

LEMMA SameWallet ==
  ASSUME NEW w \in Wallet, NEW v \in Wallet, w.kind = v.kind, w.root = v.root
  PROVE  w = v
  BY DEF Wallet

LEMMA NoGroupTyped == NoGroup \in Group /\ NoGroup.wallet = NoWallet /\ NoGroup.lifecycle = "none"
  BY IndexFacts DEF NoGroup, Group

LEMMA NewGroupIs ==
  ASSUME NEW w \in Wallet
  PROVE  /\ NewGroup(w) \in Group /\ NewGroup(w) # NoGroup
         /\ NewGroup(w).wallet = w /\ NewGroup(w).lifecycle = "active"
         /\ NewGroup(w).next = IF w.kind = "seed" THEN 1 ELSE 0
         /\ \A i \in Indexes : NewGroup(w).accounts[i] = IF i = 0 THEN "active" ELSE "none"
<1>1. 1 \in 0 .. Limit /\ 0 \in 0 .. Limit
  BY LimitAssumption
<1>2. NewGroup(w).wallet # NoGroup.wallet
  BY NoGroupTyped, WalletKinds DEF NewGroup
<1> QED
  BY <1>1, <1>2 DEF NewGroup, Group

LEMMA AddAccountsIs ==
  ASSUME NEW w \in Group, NEW pick \in SUBSET Indexes, pick # {}
  PROVE  /\ AddAccounts(w, pick) \in Group
         /\ AddAccounts(w, pick).wallet = w.wallet
         /\ AddAccounts(w, pick).lifecycle = w.lifecycle
         /\ AddAccounts(w, pick).next - 1 \in pick
         /\ \A i \in pick : i < AddAccounts(w, pick).next
         /\ \A i \in Indexes :
              AddAccounts(w, pick).accounts[i] = IF i \in pick THEN "active" ELSE w.accounts[i]
<1> DEFINE last == CHOOSE i \in pick : \A j \in pick : j <= i
<1>1. last \in pick /\ \A j \in pick : j <= last
  BY GreatestIndex
<1>2. AddAccounts(w, pick) =
        [w EXCEPT !.accounts = [i \in Indexes |-> IF i \in pick THEN "active" ELSE w.accounts[i]],
                  !.next = 1 + last]
  BY DEF AddAccounts
<1> HIDE DEF last
<1>3. last \in Nat /\ 1 + last \in 0 .. Limit /\ \A j \in pick : j \in Nat
  BY <1>1, IndexFacts
<1>4. \A j \in pick : j < 1 + last
  BY <1>1, <1>3
<1>5. (1 + last) - 1 = last
  BY <1>3
<1> DEFINE left == [i \in Indexes |-> IF i \in pick THEN "active" ELSE w.accounts[i]]
<1>6. left \in [Indexes -> {"none", "active", "deleting"}]
  BY DEF Group
<1>7. \A i \in Indexes : left[i] = IF i \in pick THEN "active" ELSE w.accounts[i]
  OBVIOUS
<1>8. AddAccounts(w, pick) = [w EXCEPT !.accounts = left, !.next = 1 + last]
  BY <1>2
<1> HIDE DEF left
<1>9. /\ AddAccounts(w, pick) \in Group
      /\ AddAccounts(w, pick).wallet = w.wallet
      /\ AddAccounts(w, pick).lifecycle = w.lifecycle
      /\ AddAccounts(w, pick).next = 1 + last
      /\ AddAccounts(w, pick).accounts = left
  BY <1>3, <1>6, <1>8 DEF Group
<1> QED
  BY <1>1, <1>4, <1>5, <1>7, <1>9

LEMMA MarkDeletingIs ==
  ASSUME NEW w \in Group, NEW pick \in SUBSET Indexes
  PROVE  /\ MarkDeleting(w, pick) \in Group
         /\ MarkDeleting(w, pick).wallet = w.wallet /\ MarkDeleting(w, pick).next = w.next
         /\ pick = {} => /\ MarkDeleting(w, pick).lifecycle = "deleting"
                         /\ MarkDeleting(w, pick).accounts = w.accounts
         /\ pick # {} => /\ MarkDeleting(w, pick).lifecycle = w.lifecycle
                         /\ \A i \in Indexes : MarkDeleting(w, pick).accounts[i] =
                              IF i \in pick THEN "deleting" ELSE w.accounts[i]
  BY DEF MarkDeleting, Group

\* What is left of a group when accounts are removed from it.
Without(w, pick) ==
  [w EXCEPT !.accounts = [i \in Indexes |-> IF i \in pick THEN "none" ELSE w.accounts[i]]]

LEMMA WithoutIs ==
  ASSUME NEW w \in Group, NEW pick \in SUBSET Indexes
  PROVE  /\ Without(w, pick) \in Group
         /\ Without(w, pick).wallet = w.wallet /\ Without(w, pick).next = w.next
         /\ Without(w, pick).lifecycle = w.lifecycle
         /\ \A i \in Indexes :
              Without(w, pick).accounts[i] = IF i \in pick THEN "none" ELSE w.accounts[i]
  BY DEF Without, Group

\* A registry with nothing but groups that are well formed or absent.
WellFormed(g) ==
  /\ g \in [Ids -> Group]
  /\ \A id \in Ids : g[id] = NoGroup \/ (g[id].wallet \in Wallet /\ g[id].lifecycle # "none")

LEMMA AccountIs ==
  ASSUME NEW g, NEW x
  PROVE  /\ x \in Accounts(g) <=>
              /\ x \in Ids \X Indexes /\ g[x[1]].accounts[x[2]] # "none"
         /\ x \in Active(g) <=>
              /\ x \in Accounts(g)
              /\ g[x[1]].lifecycle = "active" /\ g[x[1]].accounts[x[2]] = "active"
         /\ x \in Eligible(g) <=> x \in Active(g) /\ g[x[1]].wallet.kind # "watchOnly"
  BY DEF Accounts, Active, Eligible

LEMMA AccountsAreRegistered ==
  ASSUME NEW g, WellFormed(g), NEW x \in Accounts(g)
  PROVE  /\ x[1] \in Ids /\ x[2] \in Indexes /\ x = <<x[1], x[2]>>
         /\ g[x[1]] # NoGroup /\ g[x[1]].wallet \in Wallet /\ g[x[1]] \in Group
         /\ Address(g, x) \in Addresses
<1>1. x[1] \in Ids /\ x[2] \in Indexes /\ x = <<x[1], x[2]>> /\ g[x[1]].accounts[x[2]] # "none"
  BY DEF Accounts
<1>2. g[x[1]] # NoGroup
  BY <1>1 DEF NoGroup
<1>3. g[x[1]].wallet \in Wallet /\ g[x[1]] \in Group
  BY <1>1, <1>2 DEF WellFormed
<1> DEFINE w == g[x[1]].wallet
<1>4. ASSUME w.kind = "seed" PROVE Address(g, x) \in Addresses
  <2>1. w.root \in Seeds
    BY <1>3, <1>4, WalletKinds
  <2>2. Derived[w.root] \in [Indexes -> Addresses]
    BY <2>1, AddressAssumption DEF Indexes
  <2>3. Address(g, x) = Derived[w.root][x[2]]
    BY <1>4 DEF Address
  <2> QED
    BY <1>1, <2>2, <2>3
<1>5. ASSUME w.kind # "seed" PROVE Address(g, x) \in Addresses
  BY <1>3, <1>5, WalletKinds DEF Address
<1> QED
  BY <1>1, <1>2, <1>3, <1>4, <1>5

LEMMA FirstAddressIs ==
  ASSUME NEW g, WellFormed(g), NEW S, S \subseteq Accounts(g)
  PROVE  /\ FirstAddress(g, S) \in AddressesOf(g, S) \cup {NoAddress}
         /\ S # {} => FirstAddress(g, S) \in AddressesOf(g, S)
         /\ FirstAddress(g, S) = NoAddress => S = {}
<1>1. S \subseteq Nat \X (Nat \cup {-1})
  BY IndexFacts DEF Accounts
<1>2. S # {} => First(S) \in S
  BY <1>1, FirstIsListed
<1>3. \A x \in S : Address(g, x) \in Addresses
  BY AccountsAreRegistered
<1> QED
  BY <1>2, <1>3, AddressAssumption DEF FirstAddress, AddressesOf

\* One address, one account.
LEMMA OneAccount ==
  ASSUME NEW g, NEW h, Valid(g, h), NEW x \in Accounts(g), NEW y \in Accounts(g),
         Address(g, x) = Address(g, y)
  PROVE  x = y
  BY DEF Valid

-----------------------------------------------------------------------------
(* The steps of operations, and updates of the registry.                     *)

LEMMA StepIs ==
  ASSUME op \in [Procs -> Operation], NEW p \in Procs, NEW s \in Steps, op' = At(p, s)
  PROVE  /\ op' \in [Procs -> Operation]
         /\ \A q \in Procs \ {p} : op'[q] = op[q]
         /\ op'[p].at = s /\ op'[p].kind = op[p].kind /\ op'[p].id = op[p].id
         /\ op'[p].pick = op[p].pick /\ op'[p].wallet = op[p].wallet
         /\ op'[p].inserted = op[p].inserted /\ op'[p].next = op[p].next
         /\ op'[p].todo = op[p].todo
<1>1. op' = [op EXCEPT ![p] = [op[p] EXCEPT !.at = s]]
  BY DEF At
<1>2. [op[p] EXCEPT !.at = s] \in Operation
  BY DEF Operation
<1> QED
  BY <1>1, <1>2 DEF Operation

LEMMA SetOp ==
  ASSUME op \in [Procs -> Operation], NEW p \in Procs, NEW o \in Operation,
         op' = [op EXCEPT ![p] = o]
  PROVE  /\ op' \in [Procs -> Operation]
         /\ \A q \in Procs \ {p} : op'[q] = op[q]
         /\ op'[p] = o
  OBVIOUS

LEMMA IdleIs ==
  /\ Idle \in Operation /\ Idle.kind = "none" /\ Idle.at = "idle" /\ Idle.id = 0
  /\ Idle.pick = {} /\ Idle.inserted = FALSE /\ Idle.next = 0 /\ Idle.todo = {}
  /\ Adopting \in Operation /\ Adopting.kind = "adopt" /\ Adopting.at = "enter"
  /\ Adopting.id = 0 /\ Adopting.pick = {} /\ Adopting.inserted = FALSE
  /\ Adopting.next = 0 /\ Adopting.todo = {}
  /\ Idle # Adopting
  BY IndexFacts DEF Idle, Adopting, Operation, Kinds, Steps

\* An update that was accepted has taken place, even when it threw; another has not.
LEMMA UpdateIs ==
  ASSUME TypeOK, NEW p \in Procs, NEW g, NEW h, NEW continued, Update(p, g, h, continued)
  PROVE  /\ UNCHANGED <<secrets, accountState, claims, view, created, unregistered>>
         /\ faults' \in 0 .. MaxFaults
         /\ \/ /\ Accepted(g, h) /\ groups' = g /\ home' = h
               /\ op' = continued \/ op' = At(p, "thrown")
            \/ /\ groups' = groups /\ home' = home
               /\ op' = At(p, "thrown") \/ (~Accepted(g, h) /\ op' = At(p, "refused"))
<1>1. faults' \in 0 .. MaxFaults
  BY LimitAssumption DEF Update, Fault, TypeOK
<1>2. CASE UNCHANGED faults
  BY <1>1, <1>2 DEF Update, registry, secrets, accountState, claims, view, Fault, TypeOK
<1>3. CASE Fault
  BY <1>1, <1>3 DEF Update, registry, secrets, accountState, claims, view, Fault, TypeOK
<1> QED
  BY <1>2, <1>3 DEF Update

\* What a process does while the others wait.
OthersWait(p) ==
  \A q \in Procs \ {p} :
    op'[q] = op[q] /\ \A id \in Ids : groupLock[id] = q => groupLock'[id] = q

\* A process changes only the groups it holds and those that were never there.
LEMMA OthersGoOn ==
  ASSUME Control, NEW p \in Procs, OthersWait(p),
         \A id \in Ids : \/ groups'[id] = groups[id]
                         \/ groups[id] = NoGroup \/ groupLock[id] = p,
         NEW q \in Procs \ {p}
  PROVE  Handler(q)'
<1>1. op'[q] = op[q] /\ \A id \in Ids : groupLock[id] = q => groupLock'[id] = q
  BY DEF OthersWait
<1>2. InStep(q) /\ Picks(q) /\ HoldsGroup(q) /\ Begun(q) /\ Deriving(q)
  BY DEF Control, Handler
<1>3. InStep(q)' /\ Picks(q)'
  BY <1>1, <1>2 DEF InStep, Picks
<1>4. op[q].at \in {"read", "derive", "begin"} \cup LateSteps =>
        op[q].id \in Ids /\ groupLock[op[q].id] = q
  BY <1>2 DEF InStep, HoldsGroup, OnPath, RemovalSteps, LateSteps, Failures
<1>5. HoldsGroup(q)'
  BY <1>1, <1>4 DEF HoldsGroup
<1>6. op[q].at \in LateSteps => groups'[op[q].id] = groups[op[q].id]
  BY <1>2, <1>4, NoGroupTyped DEF Begun
<1>7. Begun(q)'
  BY <1>1, <1>2, <1>6 DEF Begun, Whole
<1>8. op[q].at = "derive" => groups'[op[q].id] = groups[op[q].id]
  BY <1>2, <1>4, NoGroupTyped DEF Deriving, NoWallet
<1>9. Deriving(q)'
  BY <1>1, <1>2, <1>8 DEF Deriving
<1> QED
  BY <1>3, <1>5, <1>7, <1>9 DEF Handler

\* A step that leaves the registry alone.
LEMMA QuietControl ==
  ASSUME Control, TypeOK', NEW p \in Procs, OthersWait(p), UNCHANGED registry,
         created' = created \/ created' = created + 1,
         \A id \in seeds' : id \in seeds \/ id <= created',
         Handler(p)', Importing'
  PROVE  Control'
<1>1. groups' = groups /\ home' = home
  BY DEF registry
<1>2. \A q \in Procs : Handler(q)'
  BY <1>1, OthersGoOn
<1>3. Valid(groups, home)'
  BY <1>1 DEF Control
<1>4. \A id \in Ids : Formed(id)'
  BY <1>1 DEF Control, Formed
<1>5. \A id \in Ids : Unused(id)'
  <2>1. created \in Nat /\ Ids \subseteq Nat
    BY IndexFacts, LimitAssumption DEF Control, TypeOK
  <2>2. \A id \in Ids : id > created' => id > created
    BY <2>1
  <2>3. \A id \in Ids : id > created' => id \notin seeds'
    BY <2>1, <2>2 DEF Control, Unused
  <2> QED
    BY <1>1, <2>2, <2>3 DEF Control, Unused
<1> QED
  BY <1>2, <1>3, <1>4, <1>5 DEF Control

\* An import goes on only in the app.
LEMMA ImportGoesOn ==
  ASSUME Control, UNCHANGED registry, created' = created,
         \/ op'[App].kind # "import"
         \/ /\ op[App].kind = "import" /\ op'[App].id = op[App].id
            /\ op'[App].wallet = op[App].wallet /\ (op'[App].inserted => op[App].inserted)
            /\ op'[App].at = op[App].at \/ op'[App].at \notin {"save", "register"}
  PROVE  Importing'
<1>1. groups' = groups
  BY DEF registry
<1>2. ASSUME op'[App].kind = "import" PROVE Importing'
  BY <1>1, <1>2 DEF Control, Importing
<1> QED
  BY <1>2 DEF Importing

LEMMA ControlFacts ==
  ASSUME Control
  PROVE  /\ TypeOK /\ op \in [Procs -> Operation] /\ WellFormed(groups)
         /\ App \in Procs /\ App \notin Extensions
         /\ \A p \in Procs : InStep(p) /\ Picks(p) /\ HoldsGroup(p) /\ Begun(p) /\ Deriving(p)
         /\ \A id \in Ids : groups[id] \in Group
  BY ProcAssumption DEF Control, Handler, TypeOK, WellFormed, Formed, Procs

\* A registered wallet cannot be imported again.
LEMMA FirstIsContained ==
  ASSUME NEW g, NEW h, WellFormed(g), Valid(g, h), NEW id \in Ids, g[id].wallet \in Wallet
  PROVE  Contains(g, FirstOf(g[id].wallet))
<1>1. CASE g[id].wallet.kind = "seed"
  BY <1>1 DEF Contains, FirstOf
<1>2. ASSUME g[id].wallet.kind # "seed" PROVE Contains(g, FirstOf(g[id].wallet))
  <2>1. g[id] # NoGroup
    BY NoGroupTyped, WalletKinds
  <2>2. g[id].accounts[0] = "active"
    BY <1>2, <2>1 DEF Valid, ValidGroup
  <2> DEFINE x == <<id, 0>>
  <2>3. x \in Accounts(g)
    BY <2>2, IndexFacts DEF Accounts
  <2>4. Address(g, x) = FirstOf(g[id].wallet)
    BY <1>2 DEF Address, FirstOf
  <2> QED
    BY <2>3, <2>4 DEF Contains, AddressesOf
<1> QED
  BY <1>1, <1>2

\* A step of one operation that changes nothing but where it is.
LEMMA OpOnly ==
  ASSUME Control, NEW p \in Procs, NEW o \in Operation, op' = [op EXCEPT ![p] = o],
         UNCHANGED <<registry, secrets, accountState, claims, view, created, unregistered>>,
         faults' \in 0 .. MaxFaults, Handler(p)', Importing'
  PROVE  Control'
<1>1. TypeOK /\ op' \in [Procs -> Operation] /\ \A q \in Procs \ {p} : op'[q] = op[q]
  BY SetOp DEF Control, TypeOK
<1>2. TypeOK'
  BY <1>1 DEF TypeOK, registry, secrets, accountState, claims, view
<1>3. OthersWait(p)
  BY <1>1 DEF OthersWait, claims
<1>4. UNCHANGED registry /\ created' = created /\ seeds' = seeds
  BY DEF secrets
<1> QED
  BY <1>2, <1>3, <1>4, QuietControl

LEMMA StartImportControl ==
  ASSUME Control, NEW w \in Wallet, StartImport(w)
  PROVE  Control'
<1>1. /\ op[App] = Idle /\ created < MaxGroups
      /\ UNCHANGED <<registry, secrets, accountState, claims, view, faults, unregistered>>
  BY DEF StartImport
<1>2. CASE Contains(groups, FirstOf(w))
  <2>1. op' = [op EXCEPT ![App] = Adopting] /\ created' = created
    BY <1>2 DEF StartImport
  <2>2. op'[App] = Adopting
    BY <2>1, ControlFacts, SetOp, IdleIs
  <2>3. Handler(App)'
    BY <2>2, IdleIs DEF Handler, InStep, Picks, HoldsGroup, Begun, Deriving, OnPath, RemovalSteps,
         LateSteps
  <2>4. Importing'
    BY <2>2, IdleIs DEF Importing
  <2>5. faults' \in 0 .. MaxFaults
    BY <1>1, ControlFacts DEF TypeOK
  <2> QED
    BY <1>1, <2>1, <2>3, <2>4, <2>5, OpOnly, ControlFacts, IdleIs
<1>3. ASSUME ~Contains(groups, FirstOf(w)) PROVE Control'
  <2> DEFINE step == IF w.kind = "watchOnly" THEN "register" ELSE "save"
             o == [Idle EXCEPT !.kind = "import", !.id = created + 1, !.wallet = w, !.at = step]
  <2>1. op' = [op EXCEPT ![App] = o] /\ created' = created + 1
    BY <1>3 DEF StartImport
  <2>2. step \in {"save", "register"} /\ created + 1 \in Ids /\ created' \in 0 .. MaxGroups
    BY <1>1, <2>1, ControlFacts, LimitAssumption DEF TypeOK, Ids
  <2>12. step = "save" => w.kind # "watchOnly"
    OBVIOUS
  <2> HIDE DEF step
  <2>3. /\ o \in Operation /\ o.kind = "import" /\ o.id = created + 1 /\ o.wallet = w
        /\ o.at = step /\ o.inserted = FALSE /\ o.pick = {}
        /\ o.at = "save" => w.kind # "watchOnly"
    BY <2>2, <2>12, IndexFacts DEF Idle, Operation, Kinds, Steps
  <2> HIDE DEF o
  <2>4. op' \in [Procs -> Operation] /\ op'[App] = o /\ \A q \in Procs \ {App} : op'[q] = op[q]
    BY <2>1, <2>3, ControlFacts, SetOp
  <2>5. TypeOK'
    BY <1>1, <2>2, <2>4, ControlFacts
       DEF TypeOK, registry, secrets, accountState, claims, view
  <2>6. OthersWait(App)
    BY <1>1, <2>4 DEF OthersWait, claims
  <2>7. Handler(App)'
    BY <2>2, <2>3, <2>4 DEF Handler, InStep, Picks, HoldsGroup, Begun, Deriving, OnPath,
         RemovalSteps, LateSteps
  <2>8. \A id \in Ids : groups[id].wallet # w
    BY <1>3, FirstIsContained, ControlFacts DEF Control
  <2>9. groups[created + 1] = NoGroup
    BY <2>2, ControlFacts DEF Control, Unused, TypeOK
  <2>10. Importing'
    <3>1. groups' = groups
      BY <1>1 DEF registry
    <3> QED
      BY <1>3, <2>1, <2>3, <2>4, <2>8, <2>9, <2>2, <3>1, IndexFacts DEF Importing
  <2>11. \A id \in seeds' : id \in seeds
    BY <1>1 DEF secrets
  <2> QED
    BY <1>1, <2>1, <2>5, <2>6, <2>7, <2>10, <2>11, QuietControl, ControlFacts
<1> QED
  BY <1>2, <1>3

LEMMA StartSelectControl ==
  ASSUME Control, NEW x \in Ids \X Indexes, StartSelect(x)
  PROVE  Control'
<1> DEFINE o == [Idle EXCEPT !.kind = "select", !.at = "select", !.id = x[1], !.pick = {x[2]}]
<1>1. /\ o \in Operation /\ o.kind = "select" /\ o.at = "select" /\ o.id = x[1]
      /\ o.inserted = FALSE /\ o.pick = {x[2]}
  BY IdleIs DEF Idle, Operation, Kinds, Steps
<1>2. /\ op' = [op EXCEPT ![App] = o]
      /\ UNCHANGED <<registry, secrets, accountState, claims, view, counters>>
  BY DEF StartSelect
<1> HIDE DEF o
<1>3. op'[App] = o
  BY <1>1, <1>2, SetOp, ControlFacts
<1>4. Handler(App)'
  BY <1>1, <1>3 DEF Handler, InStep, Picks, HoldsGroup, Begun, Deriving, OnPath,
       RemovalSteps, LateSteps
<1>5. Importing'
  BY <1>1, <1>3 DEF Importing
<1>6. faults' \in 0 .. MaxFaults /\ UNCHANGED <<created, unregistered>>
  BY <1>2, ControlFacts DEF counters, TypeOK
<1> QED
  BY <1>1, <1>2, <1>4, <1>5, <1>6, OpOnly, ControlFacts

LEMMA StartDeriveControl ==
  ASSUME Control, NEW id \in Ids, NEW pick \in SUBSET Indexes, pick # {}, StartDerive(id, pick)
  PROVE  Control'
<1> DEFINE o == [Idle EXCEPT !.kind = "derive", !.at = "claim", !.id = id, !.pick = pick]
<1>1. /\ o \in Operation /\ o.kind = "derive" /\ o.at = "claim" /\ o.id = id
      /\ o.inserted = FALSE /\ o.pick = pick
  BY IdleIs DEF Idle, Operation, Kinds, Steps
<1>2. /\ op' = [op EXCEPT ![App] = o]
      /\ UNCHANGED <<registry, secrets, accountState, claims, view, counters>>
  BY DEF StartDerive
<1> HIDE DEF o
<1>3. op'[App] = o
  BY <1>1, <1>2, SetOp, ControlFacts
<1>4. Handler(App)'
  BY <1>1, <1>3 DEF Handler, InStep, Picks, HoldsGroup, Begun, Deriving, OnPath,
       RemovalSteps, LateSteps
<1>5. Importing'
  BY <1>1, <1>3 DEF Importing
<1>6. faults' \in 0 .. MaxFaults /\ UNCHANGED <<created, unregistered>>
  BY <1>2, ControlFacts DEF counters, TypeOK
<1> QED
  BY <1>1, <1>2, <1>4, <1>5, <1>6, OpOnly, ControlFacts

LEMMA StartRemoveControl ==
  ASSUME Control, NEW id \in Ids, NEW pick \in SUBSET Indexes,
         pick = {} \/ \E i \in Indexes : pick = {i}, StartRemove(id, pick)
  PROVE  Control'
<1> DEFINE o == [Idle EXCEPT !.kind = "remove", !.at = "claim", !.id = id, !.pick = pick]
<1>1. /\ o \in Operation /\ o.kind = "remove" /\ o.at = "claim" /\ o.id = id
      /\ o.inserted = FALSE /\ o.pick = pick
  BY IdleIs DEF Idle, Operation, Kinds, Steps
<1>2. /\ op' = [op EXCEPT ![App] = o]
      /\ UNCHANGED <<registry, secrets, accountState, claims, view, counters>>
  BY DEF StartRemove
<1> HIDE DEF o
<1>3. op'[App] = o
  BY <1>1, <1>2, SetOp, ControlFacts
<1>4. Handler(App)'
  BY <1>1, <1>3 DEF Handler, InStep, Picks, HoldsGroup, Begun, Deriving, OnPath,
       RemovalSteps, LateSteps
<1>5. Importing'
  BY <1>1, <1>3 DEF Importing
<1>6. faults' \in 0 .. MaxFaults /\ UNCHANGED <<created, unregistered>>
  BY <1>2, ControlFacts DEF counters, TypeOK
<1> QED
  BY <1>1, <1>2, <1>4, <1>5, <1>6, OpOnly, ControlFacts

LEMMA StartAdoptionControl ==
  ASSUME Control, NEW p \in Extensions, StartAdoption(p)
  PROVE  Control'
<1>1. /\ op' = [op EXCEPT ![p] = Adopting] /\ p \in Procs /\ p # App
      /\ UNCHANGED <<registry, secrets, accountState, claims, view, counters>>
  BY DEF StartAdoption, Procs
<1>2. op'[p] = Adopting /\ op'[App] = op[App]
  BY <1>1, SetOp, ControlFacts, IdleIs
<1>3. Handler(p)'
  BY <1>2, IdleIs DEF Handler, InStep, Picks, HoldsGroup, Begun, Deriving, OnPath,
       RemovalSteps, LateSteps
<1>4. faults' \in 0 .. MaxFaults /\ UNCHANGED <<created, unregistered>>
  BY <1>1, ControlFacts DEF counters, TypeOK
<1>5. Importing'
  BY <1>1, <1>2, <1>4, ImportGoesOn
<1> QED
  BY <1>1, <1>3, <1>4, <1>5, OpOnly, ControlFacts, IdleIs

\* A step to where nothing is held, and a step on within a removal.
LEMMA FreeStep ==
  ASSUME Control, NEW p \in Procs, NEW s \in Steps, op' = At(p, s), OnPath(op[p].kind, s),
         s \notin {"save", "claim", "read", "derive", "begin"} \cup LateSteps
  PROVE  Handler(p)'
<1>1. /\ op'[p].at = s /\ op'[p].kind = op[p].kind /\ op'[p].id = op[p].id
      /\ op'[p].pick = op[p].pick /\ op'[p].inserted = op[p].inserted
  BY ControlFacts, StepIs
<1>2. InStep(p) /\ Picks(p)
  BY ControlFacts
<1>3. InStep(p)'
  BY <1>1, <1>2 DEF InStep, RemovalSteps
<1>4. Picks(p)'
  BY <1>1, <1>2 DEF Picks, RemovalSteps
<1> QED
  BY <1>1, <1>3, <1>4 DEF Handler, HoldsGroup, Begun, Deriving

LEMMA LateStep ==
  ASSUME Control, NEW p \in Procs, NEW s \in LateSteps, op' = At(p, s), op[p].at \in LateSteps,
         groups' = groups, groupLock' = groupLock
  PROVE  Handler(p)'
<1>1. s \in Steps
  BY DEF LateSteps, Steps
<1>2. /\ op'[p].at = s /\ op'[p].kind = op[p].kind /\ op'[p].id = op[p].id
      /\ op'[p].pick = op[p].pick /\ op'[p].inserted = op[p].inserted
  BY <1>1, ControlFacts, StepIs
<1>3. InStep(p) /\ Picks(p) /\ HoldsGroup(p) /\ Begun(p)
  BY ControlFacts
<1>4. op[p].kind \in {"remove", "adopt"} /\ op[p].at \in RemovalSteps
  BY <1>3 DEF InStep, OnPath, LateSteps, RemovalSteps, Failures
<1>5. s # "save" /\ s # "derive" /\ s \in RemovalSteps
  BY DEF LateSteps, RemovalSteps
<1>6. InStep(p)'
  BY <1>2, <1>3, <1>4, <1>5 DEF InStep, OnPath
<1>7. Picks(p)'
  BY <1>2, <1>3, <1>4, <1>5 DEF Picks
<1>8. HoldsGroup(p)'
  BY <1>2, <1>3 DEF HoldsGroup
<1>9. Begun(p)'
  BY <1>2, <1>3 DEF Begun, Whole
<1> QED
  BY <1>2, <1>5, <1>6, <1>7, <1>8, <1>9 DEF Handler, Deriving

\* An import goes on by its own steps only.
LEMMA StepImports ==
  ASSUME Control, NEW p \in Procs, NEW s \in Steps, op' = At(p, s),
         UNCHANGED registry, created' = created,
         s \notin {"save", "register"}
  PROVE  Importing'
<1>1. CASE p = App
  BY <1>1, ControlFacts, StepIs, ImportGoesOn
<1>2. ASSUME p # App PROVE Importing'
  <2>1. op'[App] = op[App]
    BY <1>2, ControlFacts, StepIs
  <2> QED
    BY <2>1, ImportGoesOn
<1> QED
  BY <1>1, <1>2

LEMMA SkipTyped ==
  ASSUME TypeOK, NEW p \in Procs, NEW s \in Steps, Skip(p, s)
  PROVE  /\ TypeOK' /\ OthersWait(p) /\ UNCHANGED registry /\ created' = created
         /\ seeds' = seeds /\ op' = At(p, s) /\ groups' = groups /\ groupLock' = groupLock
<1>1. op' \in [Procs -> Operation] /\ \A q \in Procs \ {p} : op'[q] = op[q]
  BY StepIs DEF Skip, TypeOK
<1> QED
  BY <1>1 DEF Skip, TypeOK, OthersWait, registry, secrets, accountState, claims, view, counters

LEMMA SkipControl ==
  ASSUME Control, NEW p \in Procs, NEW s \in Steps, Skip(p, s),
         \/ /\ OnPath(op[p].kind, s)
            /\ s \notin {"save", "register", "claim", "read", "derive", "begin"} \cup LateSteps
         \/ s \in LateSteps /\ op[p].at \in LateSteps
  PROVE  Control'
<1>1. /\ TypeOK' /\ OthersWait(p) /\ UNCHANGED registry /\ created' = created
      /\ seeds' = seeds /\ op' = At(p, s) /\ groups' = groups /\ groupLock' = groupLock
  BY SkipTyped, ControlFacts
<1>2. Handler(p)'
  BY <1>1, FreeStep, LateStep
<1>3. s \notin {"save", "register"}
  BY DEF LateSteps
<1>4. Importing'
  BY <1>1, <1>3, StepImports
<1> QED
  BY <1>1, <1>2, <1>4, QuietControl

\* Everything but one operation and the stores it changes.
LEMMA StoresControl ==
  ASSUME Control, NEW p \in Procs, NEW s \in Steps, op' = At(p, s),
         UNCHANGED <<registry, claims, view, created, unregistered>>,
         faults' \in 0 .. MaxFaults, keys' \subseteq Keys, seeds' \subseteq seeds,
         connected' \subseteq Addresses, default' \in Addresses \cup {NoAddress},
         cached' \subseteq Addresses,
         \/ OnPath(op[p].kind, s)
            /\ s \notin {"save", "register", "claim", "read", "derive", "begin"} \cup LateSteps
         \/ s \in LateSteps /\ op[p].at \in LateSteps
  PROVE  Control'
<1>1. op' \in [Procs -> Operation] /\ \A q \in Procs \ {p} : op'[q] = op[q]
  BY StepIs, ControlFacts
<1>2. groups' = groups /\ groupLock' = groupLock
  BY DEF registry, claims
<1>3. OthersWait(p)
  BY <1>1, <1>2 DEF OthersWait
<1>4. TypeOK'
  BY <1>1, ControlFacts DEF TypeOK, registry, claims, view
<1>5. Handler(p)'
  BY <1>2, FreeStep, LateStep
<1>6. s \notin {"save", "register"}
  BY DEF LateSteps
<1>7. Importing'
  BY <1>6, StepImports
<1> QED
  BY <1>3, <1>4, <1>5, <1>7, QuietControl

LEMMA LateStepsControl ==
  ASSUME Control, NEW p \in Procs,
         Terminalize(p) \/ DeleteSecret(p) \/ RemoveConnections(p) \/ RemoveBalances(p)
  PROVE  Control'
<1>1. op[p].at \in LateSteps
  BY DEF Terminalize, DeleteSecret, RemoveConnections, RemoveBalances, LateSteps
<1>2. OnPath(op[p].kind, "thrown")
  BY <1>1, ControlFacts DEF InStep, OnPath, LateSteps, Failures
<1>3. {"secret", "connections", "balances", "finish"} \subseteq LateSteps /\ LateSteps \subseteq Steps
      /\ "thrown" \in Steps \ ({"save", "register", "claim", "read", "derive", "begin"} \cup LateSteps)
  BY DEF LateSteps, Steps
<1>4. ASSUME Terminalize(p) PROVE Control'
  <2>1. PICK s \in {"secret", "connections"} : Skip(p, s)
    BY <1>4 DEF Terminalize
  <2> QED
    BY <1>1, <1>3, <2>1, SkipControl
<1>5. ASSUME DeleteSecret(p) PROVE Control'
  <2>1. /\ op' = At(p, "connections") /\ seeds' \subseteq seeds /\ keys' \subseteq keys
        /\ UNCHANGED <<registry, accountState, claims, view, counters>>
    BY <1>5 DEF DeleteSecret
  <2>2. /\ connected' = connected /\ default' = default /\ cached' = cached
        /\ faults' \in 0 .. MaxFaults /\ UNCHANGED <<created, unregistered>>
        /\ connected \subseteq Addresses /\ default \in Addresses \cup {NoAddress}
        /\ cached \subseteq Addresses /\ keys' \subseteq Keys
    BY <2>1, ControlFacts DEF counters, accountState, TypeOK
  <2> QED
    BY <1>1, <1>3, <2>1, <2>2, StoresControl
<1>6. ASSUME RemoveConnections(p) PROVE Control'
  <2>1. CASE Skip(p, "thrown")
    BY <1>2, <1>3, <2>1, SkipControl
  <2>2. CASE /\ op' = At(p, "balances")
             /\ UNCHANGED <<registry, secrets, cached, claims, view, counters>>
             /\ connected' \subseteq connected
             /\ default' \in {default, SurvivingDefault}
    <3>1. SurvivingDefault \in Addresses \cup {NoAddress}
      <4>1. Eligible(groups) \subseteq Accounts(groups)
        BY DEF Eligible, Active
      <4>2. AddressesOf(groups, Eligible(groups)) \subseteq Addresses
        BY <4>1, AccountsAreRegistered, ControlFacts DEF AddressesOf
      <4> QED
        BY <4>1, <4>2, FirstAddressIs, ControlFacts DEF SurvivingDefault
    <3>2. /\ cached' = cached /\ seeds' = seeds /\ keys' \subseteq Keys
          /\ faults' \in 0 .. MaxFaults /\ UNCHANGED <<created, unregistered>>
          /\ connected' \subseteq Addresses /\ default' \in Addresses \cup {NoAddress}
          /\ cached \subseteq Addresses
      BY <2>2, <3>1, ControlFacts DEF counters, secrets, TypeOK
    <3> QED
      BY <1>1, <1>3, <2>2, <3>2, StoresControl
  <2> QED
    BY <1>6, <2>1, <2>2 DEF RemoveConnections
<1>7. ASSUME RemoveBalances(p) PROVE Control'
  <2>1. /\ op' = At(p, "finish") /\ cached' \subseteq cached
        /\ UNCHANGED <<registry, secrets, connected, default, claims, view, counters>>
    BY <1>7 DEF RemoveBalances
  <2>2. /\ seeds' = seeds /\ keys' \subseteq Keys
        /\ faults' \in 0 .. MaxFaults /\ UNCHANGED <<created, unregistered>>
        /\ connected' \subseteq Addresses /\ default' \in Addresses \cup {NoAddress}
        /\ cached' \subseteq Addresses
    BY <2>1, ControlFacts DEF counters, secrets, TypeOK
  <2> QED
    BY <1>1, <1>3, <2>1, <2>2, StoresControl
<1> QED
  BY <1>4, <1>5, <1>6, <1>7

LEMMA LocksReleased ==
  ASSUME TypeOK, NEW p \in Procs,
         groupLock' = [id \in Ids |-> IF groupLock[id] = p THEN NoProc ELSE groupLock[id]]
  PROVE  /\ groupLock' \in [Ids -> Procs \cup {NoProc}]
         /\ \A q \in Procs \ {p}, id \in Ids : groupLock[id] = q => groupLock'[id] = q
         /\ \A id \in Ids : groupLock[id] # p => groupLock'[id] = groupLock[id]
  BY DEF TypeOK

\* An operation that is over, with its claims.
LEMMA OverControl ==
  ASSUME Control, NEW p \in Procs, NEW o \in {Idle, Adopting}, op' = [op EXCEPT ![p] = o],
         groupLock' = [id \in Ids |-> IF groupLock[id] = p THEN NoProc ELSE groupLock[id]],
         adoptLock' \in {adoptLock, NoProc},
         UNCHANGED <<registry, secrets, accountState, created>>, faults' \in 0 .. MaxFaults,
         shown' \subseteq Ids, hasWallet' \in BOOLEAN, unregistered' \subseteq Ids
  PROVE  Control'
<1>1. op' \in [Procs -> Operation] /\ op'[p] = o /\ \A q \in Procs \ {p} : op'[q] = op[q]
  BY IdleIs, SetOp, ControlFacts
<1>2. /\ groupLock' \in [Ids -> Procs \cup {NoProc}]
      /\ \A q \in Procs \ {p}, id \in Ids : groupLock[id] = q => groupLock'[id] = q
  BY LocksReleased, ControlFacts
<1>3. OthersWait(p)
  BY <1>1, <1>2 DEF OthersWait
<1>4. TypeOK'
  BY <1>1, <1>2, ControlFacts DEF TypeOK, registry, secrets, accountState
<1>5. Handler(p)'
  BY <1>1, IdleIs DEF Handler, InStep, Picks, HoldsGroup, Begun, Deriving, OnPath,
       RemovalSteps, LateSteps
<1>6. Importing'
  <2>1. CASE p = App
    BY <1>1, <2>1, IdleIs DEF Importing
  <2>2. ASSUME p # App PROVE Importing'
    BY <1>1, <2>2, ControlFacts, ImportGoesOn
  <2> QED
    BY <2>1, <2>2
<1>7. seeds' = seeds
  BY DEF secrets
<1> QED
  BY <1>3, <1>4, <1>5, <1>6, <1>7, QuietControl

LEMMA CatchControl ==
  ASSUME Control, NEW p \in Procs, Catch(p)
  PROVE  Control'
<1>1. PICK o \in {Idle, Adopting} : op' = [op EXCEPT ![p] = o]
  BY DEF Catch
<1>2. op[p].kind = "import" => op[p].id \in Ids
  BY ControlFacts DEF InStep
<1>3. unregistered' \subseteq Ids
  BY <1>2, ControlFacts DEF Catch, TypeOK
<1>4. shown' \subseteq Ids /\ hasWallet' \in BOOLEAN
  BY ControlFacts DEF Catch, ShowNothing, view, TypeOK
<1>5. /\ groupLock' = [id \in Ids |-> IF groupLock[id] = p THEN NoProc ELSE groupLock[id]]
      /\ adoptLock' \in {adoptLock, NoProc}
      /\ UNCHANGED <<registry, secrets, accountState, created>> /\ faults' \in 0 .. MaxFaults
  BY ControlFacts DEF Catch, Release, TypeOK
<1> QED
  BY <1>1, <1>3, <1>4, <1>5, OverControl

LEMMA ValidateControl ==
  ASSUME Control, NEW p \in Procs, Validate(p)
  PROVE  Control'
<1>1. op[p].at = "validate"
  BY DEF Validate
<1>2. CASE Ready
  <2>1. /\ op' = [op EXCEPT ![p] = Idle]
        /\ Release(p) /\ UNCHANGED <<registry, secrets, accountState, counters>>
    BY <1>2 DEF Validate
  <2>2. shown' \subseteq Ids /\ hasWallet' \in BOOLEAN
    BY <1>2, ControlFacts DEF Validate, view, TypeOK
  <2>3. /\ groupLock' = [id \in Ids |-> IF groupLock[id] = p THEN NoProc ELSE groupLock[id]]
        /\ adoptLock' \in {adoptLock, NoProc}
        /\ UNCHANGED <<registry, secrets, accountState, created>> /\ faults' \in 0 .. MaxFaults
        /\ unregistered' \subseteq Ids
    BY <2>1, ControlFacts DEF Release, counters, TypeOK
  <2> QED
    BY <2>1, <2>2, <2>3, OverControl
<1>3. CASE ~Ready
  <2>1. Skip(p, "thrown")
    BY <1>3 DEF Validate
  <2>2. OnPath(op[p].kind, "thrown")
    BY <1>1, ControlFacts DEF InStep, OnPath, LateSteps, RemovalSteps, Failures
  <2> QED
    BY <2>1, <2>2, SkipControl DEF Steps, LateSteps
<1> QED
  BY <1>2, <1>3

LEMMA RestartControl ==
  ASSUME Control, NEW p \in Procs, Restarted(p), faults' \in 0 .. MaxFaults
  PROVE  Control'
<1>1. PICK o \in {Idle, Adopting} : op' = [op EXCEPT ![p] = o]
  BY DEF Restarted
<1>2. shown' \subseteq Ids /\ hasWallet' \in BOOLEAN
  BY ControlFacts DEF Restarted, ShowNothing, view, TypeOK
<1>3. /\ groupLock' = [id \in Ids |-> IF groupLock[id] = p THEN NoProc ELSE groupLock[id]]
      /\ adoptLock' \in {adoptLock, NoProc}
      /\ UNCHANGED <<registry, secrets, accountState, created>> /\ unregistered' \subseteq Ids
  BY ControlFacts DEF Restarted, Release, TypeOK
<1> QED
  BY <1>1, <1>2, <1>3, OverControl

LEMMA ReturnControl ==
  ASSUME Control, NEW p \in Procs, Return(p)
  PROVE  Control'
<1>1. /\ op[p].at = "returned"
      /\ groupLock' = [id \in Ids |-> IF groupLock[id] = p THEN NoProc ELSE groupLock[id]]
      /\ UNCHANGED <<registry, secrets, accountState, adoptLock, view, counters>>
  BY DEF Return
<1>2. /\ faults' \in 0 .. MaxFaults /\ shown' \subseteq Ids /\ hasWallet' \in BOOLEAN
      /\ unregistered' \subseteq Ids /\ created' = created
  BY <1>1, ControlFacts DEF TypeOK, counters, view
<1>3. CASE op[p].kind = "adopt"
  <2>1. op' = At(p, "resume") /\ "resume" \in Steps
    BY <1>3 DEF Return, Steps
  <2>2. op' \in [Procs -> Operation] /\ \A q \in Procs \ {p} : op'[q] = op[q]
    BY <2>1, StepIs, ControlFacts
  <2>3. /\ groupLock' \in [Ids -> Procs \cup {NoProc}]
        /\ \A q \in Procs \ {p}, id \in Ids : groupLock[id] = q => groupLock'[id] = q
    BY <1>1, LocksReleased, ControlFacts
  <2>4. OthersWait(p)
    BY <2>2, <2>3 DEF OthersWait
  <2>5. TypeOK'
    BY <1>1, <1>2, <2>2, <2>3, ControlFacts
       DEF TypeOK, registry, secrets, accountState, view, counters
  <2>6. Handler(p)'
    BY <1>3, <2>1, FreeStep DEF OnPath, LateSteps
  <2>7. Importing'
    BY <1>1, <1>2, <2>1, StepImports
  <2>8. seeds' = seeds
    BY <1>1 DEF secrets
  <2> QED
    BY <1>1, <1>2, <2>4, <2>5, <2>6, <2>7, <2>8, QuietControl
<1>4. CASE op[p].kind # "adopt"
  <2>1. op' = [op EXCEPT ![p] = Adopting]
    BY <1>4 DEF Return
  <2> QED
    BY <1>1, <1>2, <2>1, OverControl
<1> QED
  BY <1>3, <1>4

LEMMA ClaimGroupControl ==
  ASSUME Control, NEW p \in Procs, ClaimGroup(p)
  PROVE  Control'
<1>1. /\ op[p].at = "claim" /\ groupLock[op[p].id] = NoProc
      /\ groupLock' = [groupLock EXCEPT ![op[p].id] = p]
      /\ UNCHANGED <<registry, secrets, accountState, adoptLock, view, counters>>
  BY DEF ClaimGroup
<1> DEFINE s == IF op[p].kind = "derive" THEN "read" ELSE "begin"
<1>2. op' = At(p, s) /\ s \in Steps
  BY DEF ClaimGroup, Steps
<1>3. InStep(p) /\ Picks(p) /\ op[p].id \in Ids
  BY <1>1, ControlFacts DEF InStep, RemovalSteps
<1>4. op[p].kind \in {"derive", "remove", "adopt"}
  BY <1>1, <1>3 DEF InStep, OnPath, Failures
<1>5. s \in {"read", "begin"} /\ (s = "read" <=> op[p].kind = "derive")
  OBVIOUS
<1> HIDE DEF s
<1>6. /\ op' \in [Procs -> Operation] /\ \A q \in Procs \ {p} : op'[q] = op[q]
      /\ op'[p].at = s /\ op'[p].kind = op[p].kind /\ op'[p].id = op[p].id
      /\ op'[p].pick = op[p].pick /\ op'[p].inserted = op[p].inserted
  BY <1>2, StepIs, ControlFacts
<1>7. /\ groupLock' \in [Ids -> Procs \cup {NoProc}] /\ groupLock'[op[p].id] = p
      /\ \A q \in Procs, id \in Ids : groupLock[id] = q => groupLock'[id] = q
  BY <1>1, <1>3, ControlFacts, ProcAssumption DEF TypeOK, Procs
<1>8. OthersWait(p)
  BY <1>6, <1>7 DEF OthersWait
<1>9. TypeOK'
  BY <1>1, <1>6, <1>7, ControlFacts
     DEF TypeOK, registry, secrets, accountState, view, counters
<1>10. InStep(p)'
  BY <1>3, <1>4, <1>5, <1>6 DEF InStep, OnPath, RemovalSteps
<1>11. Picks(p)'
  BY <1>1, <1>3, <1>4, <1>5, <1>6 DEF Picks, RemovalSteps
<1>12. HoldsGroup(p)' /\ Begun(p)' /\ Deriving(p)'
  BY <1>5, <1>6, <1>7 DEF HoldsGroup, Begun, Deriving, LateSteps
<1>13. created' = created /\ seeds' = seeds
  BY <1>1 DEF counters, secrets
<1>14. Importing'
  BY <1>1, <1>2, <1>5, <1>13, StepImports
<1> QED
  BY <1>1, <1>8, <1>9, <1>10, <1>11, <1>12, <1>13, <1>14, QuietControl DEF Handler

LEMMA ClaimAdoptionControl ==
  ASSUME Control, NEW p \in Procs, ClaimAdoption(p)
  PROVE  Control'
<1>1. /\ op[p].at = "enter" /\ op' = At(p, "groups") /\ adoptLock' = p
      /\ UNCHANGED <<registry, secrets, accountState, groupLock, view, counters>>
      /\ "groups" \in Steps
  BY DEF ClaimAdoption, Steps
<1>2. OnPath(op[p].kind, "groups")
  BY <1>1, ControlFacts DEF InStep, OnPath, LateSteps, RemovalSteps, Failures
<1>3. op' \in [Procs -> Operation] /\ \A q \in Procs \ {p} : op'[q] = op[q]
  BY <1>1, StepIs, ControlFacts
<1>4. TypeOK' /\ OthersWait(p) /\ created' = created /\ seeds' = seeds
  BY <1>1, <1>3, ControlFacts
     DEF TypeOK, OthersWait, registry, secrets, accountState, view, counters
<1>5. Handler(p)'
  BY <1>1, <1>2, FreeStep DEF LateSteps
<1>6. Importing'
  BY <1>1, <1>4, StepImports
<1> QED
  BY <1>1, <1>4, <1>5, <1>6, QuietControl

LEMMA FailControl ==
  ASSUME Control, NEW p \in Procs, Fail(p)
  PROVE  Control'
<1>1. /\ op[p].at # "idle" /\ op' = At(p, "thrown") /\ faults' \in 0 .. MaxFaults
      /\ UNCHANGED <<registry, secrets, accountState, claims, view, created, unregistered>>
      /\ "thrown" \in Steps
  BY ControlFacts, LimitAssumption DEF Fail, Fault, TypeOK, Steps
<1>2. OnPath(op[p].kind, "thrown")
  BY <1>1, ControlFacts DEF InStep, OnPath, Failures
<1>3. /\ connected' \subseteq Addresses /\ default' \in Addresses \cup {NoAddress}
      /\ cached' \subseteq Addresses /\ keys' \subseteq Keys /\ seeds' = seeds
      /\ UNCHANGED <<created, unregistered>>
  BY <1>1, ControlFacts DEF secrets, accountState, TypeOK
<1> QED
  BY <1>1, <1>2, <1>3, StoresControl DEF LateSteps

LEMMA OutsideControl ==
  ASSUME Control, NEW a \in Addresses, Connect(a) \/ StoreBalance(a)
  PROVE  Control'
<1>1. UNCHANGED <<registry, secrets, claims, view, counters, op>>
  BY DEF Connect, StoreBalance
<1>2. connected' \subseteq Addresses /\ default' \in Addresses \cup {NoAddress} /\ cached' \subseteq Addresses
  BY ControlFacts DEF Connect, StoreBalance, TypeOK
<1>3. TypeOK'
  BY <1>1, <1>2, ControlFacts DEF TypeOK, registry, secrets, claims, view, counters
<1>4. OthersWait(App) /\ created' = created /\ seeds' = seeds /\ UNCHANGED registry
  BY <1>1 DEF OthersWait, claims, counters, secrets
<1>5. Handler(App)'
  BY <1>1, ControlFacts DEF registry, claims, Handler, InStep, Picks, HoldsGroup, Begun, Deriving, Whole
<1>6. Importing'
  BY <1>1 DEF Control, Importing, registry, counters
<1> QED
  BY <1>3, <1>4, <1>5, <1>6, QuietControl, ControlFacts

LEMMA DiscardControl ==
  ASSUME Control, NEW p \in Procs, Discard(p)
  PROVE  Control'
<1>1. /\ op[p].at \in {"thrown", "refused"} /\ op[p].kind = "import"
      /\ seeds' \subseteq seeds /\ keys' \subseteq keys
      /\ op' = [op EXCEPT ![p] = [op[p] EXCEPT !.inserted = FALSE]]
      /\ unregistered' = unregistered \cup {op[p].id} /\ faults' \in 0 .. MaxFaults
      /\ UNCHANGED <<registry, accountState, claims, view, created>>
  BY ControlFacts, LimitAssumption DEF Discard, Fault, secrets, TypeOK
<1> DEFINE o == [op[p] EXCEPT !.inserted = FALSE]
<1>2. /\ o \in Operation /\ o.kind = "import" /\ o.at = op[p].at /\ o.id = op[p].id
      /\ o.wallet = op[p].wallet /\ o.inserted = FALSE /\ o.pick = op[p].pick
  BY <1>1, ControlFacts DEF Operation
<1>3. op' = [op EXCEPT ![p] = o]
  BY <1>1
<1> HIDE DEF o
<1>4. op' \in [Procs -> Operation] /\ op'[p] = o /\ \A q \in Procs \ {p} : op'[q] = op[q]
  BY <1>2, <1>3, SetOp, ControlFacts
<1>5. InStep(p) /\ p = App /\ op[p].id \in Ids
  BY <1>1, ControlFacts DEF InStep
<1>6. TypeOK'
  BY <1>1, <1>4, <1>5, ControlFacts DEF TypeOK, registry, accountState, claims, view
<1>7. OthersWait(p) /\ created' = created /\ UNCHANGED registry
  BY <1>1, <1>4 DEF OthersWait, claims
<1>8. Handler(p)'
  BY <1>1, <1>2, <1>4, <1>5 DEF Handler, InStep, Picks, HoldsGroup, Begun, Deriving, OnPath,
       RemovalSteps, LateSteps, Failures
<1>9. Importing'
  BY <1>1, <1>2, <1>4, <1>5, <1>7, ImportGoesOn
<1> QED
  BY <1>1, <1>6, <1>7, <1>8, <1>9, QuietControl

LEMMA SaveSecretControl ==
  ASSUME Control, NEW p \in Procs, SaveSecret(p)
  PROVE  Control'
<1>1. /\ op[p].at = "save"
      /\ UNCHANGED <<registry, accountState, claims, view, counters>>
  BY DEF SaveSecret
<1>2. op[p].kind = "import" /\ p = App /\ op[p].id \in Ids
  BY <1>1, ControlFacts DEF InStep, OnPath, RemovalSteps, LateSteps, Failures
<1>3. op[p].wallet \in Wallet /\ op[p].id <= created /\ op[p].wallet.kind # "watchOnly"
  BY <1>1, <1>2 DEF Control, Importing
<1>4. /\ seeds' \subseteq seeds \cup {op[p].id} /\ keys' \subseteq Keys
  BY <1>2, <1>3, WalletKinds, ControlFacts DEF SaveSecret, TypeOK
<1>5. PICK new \in BOOLEAN : op' = [op EXCEPT ![p] = [op[p] EXCEPT !.at = "register", !.inserted = new]]
  BY ControlFacts DEF SaveSecret
<1>14. PICK r \in Operation : r = op[p]
  BY ControlFacts
<1> DEFINE o == [r EXCEPT !.at = "register", !.inserted = new]
<1>15. o \in Operation
  BY <1>14 DEF Operation, Steps
<1>16. /\ o.kind = r.kind /\ o.at = "register" /\ o.id = r.id
       /\ o.wallet = r.wallet /\ o.pick = r.pick
  BY <1>14 DEF Operation
<1>6. /\ o \in Operation /\ o.kind = "import" /\ o.at = "register" /\ o.id = op[p].id
      /\ o.wallet = op[p].wallet /\ o.pick = op[p].pick
  BY <1>2, <1>14, <1>15, <1>16
<1>7. op' = [op EXCEPT ![p] = o]
  BY <1>5, <1>14
<1> HIDE DEF o
<1>8. op' \in [Procs -> Operation] /\ op'[p] = o /\ \A q \in Procs \ {p} : op'[q] = op[q]
  BY <1>6, <1>7, SetOp, ControlFacts
<1>9. TypeOK'
  BY <1>1, <1>2, <1>4, <1>8, ControlFacts DEF TypeOK, registry, accountState, claims, view, counters
<1>10. OthersWait(p) /\ created' = created /\ groups' = groups
  BY <1>1, <1>8 DEF OthersWait, claims, counters, registry
<1>11. Handler(p)'
  BY <1>2, <1>6, <1>8 DEF Handler, InStep, Picks, HoldsGroup, Begun, Deriving, OnPath,
       RemovalSteps, LateSteps
<1>12. Importing'
  BY <1>1, <1>2, <1>6, <1>8, <1>10 DEF Control, Importing
<1>13. \A id \in seeds' : id \in seeds \/ id <= created'
  BY <1>3, <1>4, <1>10
<1> QED
  BY <1>1, <1>9, <1>10, <1>11, <1>12, <1>13, QuietControl

LEMMA ReadControl ==
  ASSUME Control, NEW p \in Procs, Leave(p) \/ ReadSeed(p)
  PROVE  Control'
<1>1. ASSUME Leave(p) PROVE Control'
  <2>1. op[p].at = "discover" /\ Skip(p, "returned")
    BY <1>1 DEF Leave
  <2>2. OnPath(op[p].kind, "returned")
    BY <2>1, ControlFacts DEF InStep, OnPath, RemovalSteps, LateSteps, Failures
  <2> QED
    BY <2>1, <2>2, SkipControl DEF Steps, LateSteps
<1>2. ASSUME ReadSeed(p), Skip(p, "thrown") PROVE Control'
  <2>1. op[p].at = "read"
    BY <1>2 DEF ReadSeed
  <2>2. OnPath(op[p].kind, "thrown")
    BY <2>1, ControlFacts DEF InStep, OnPath, RemovalSteps, LateSteps, Failures
  <2> QED
    BY <1>2, <2>2, SkipControl DEF Steps, LateSteps
<1>3. ASSUME ReadSeed(p), ~Skip(p, "thrown") PROVE Control'
  <2> DEFINE w == groups[op[p].id]
  <2>1. /\ op[p].at = "read" /\ w.wallet.kind = "seed" /\ \A i \in op[p].pick : i >= w.next
        /\ op' = [op EXCEPT ![p] = [op[p] EXCEPT !.at = "derive", !.next = w.next]]
        /\ UNCHANGED <<registry, secrets, accountState, claims, view, counters>>
    BY <1>3, ControlFacts DEF ReadSeed
  <2>2. InStep(p) /\ op[p].kind = "derive" /\ op[p].id \in Ids /\ Picks(p) /\ HoldsGroup(p)
    BY <2>1, ControlFacts DEF InStep, OnPath, RemovalSteps, LateSteps, Failures
  <2>3. w.next \in 0 .. Limit
    BY <2>2, ControlFacts DEF Group
  <2>11. PICK r \in Operation : r = op[p]
    BY ControlFacts
  <2> DEFINE o == [r EXCEPT !.at = "derive", !.next = w.next]
  <2>12. op' = [op EXCEPT ![p] = o]
    BY <2>1, <2>11
  <2>4. /\ o \in Operation /\ o.kind = "derive" /\ o.at = "derive" /\ o.id = op[p].id
        /\ o.pick = op[p].pick /\ o.inserted = op[p].inserted /\ o.next = w.next
    BY <2>2, <2>3, <2>11 DEF Operation, Steps
  <2> HIDE DEF o
  <2>5. op'[p] = o
    BY <2>12, <2>4, SetOp, ControlFacts
  <2>6. groups' = groups /\ groupLock' = groupLock
    BY <2>1 DEF registry, claims
  <2>7. InStep(p)' /\ Picks(p)'
    BY <2>2, <2>4, <2>5 DEF InStep, Picks, OnPath, RemovalSteps, LateSteps
  <2>8. HoldsGroup(p)' /\ Begun(p)' /\ Deriving(p)'
    BY <2>1, <2>2, <2>4, <2>5, <2>6 DEF HoldsGroup, Begun, Deriving, LateSteps
  <2>9. UNCHANGED <<created, unregistered>> /\ faults' \in 0 .. MaxFaults
    BY <2>1, ControlFacts DEF counters, TypeOK
  <2>10. Importing'
    BY <2>1, <2>4, <2>5, <2>9, <2>12, ControlFacts, SetOp, ImportGoesOn
  <2> QED
    BY <2>1, <2>4, <2>12, <2>7, <2>8, <2>9, <2>10, OpOnly DEF Handler
<1> QED
  BY <1>1, <1>2, <1>3

LEMMA ListControl ==
  ASSUME Control, NEW p \in Procs, ListRemovals(p)
  PROVE  Control'
<1> DEFINE Todo == IF op[p].at = "groups"
                     THEN {id \in Ids : groups[id].lifecycle = "deleting"} \X {-1}
                     ELSE {x \in Accounts(groups) \ Active(groups) : groups[x[1]].lifecycle = "active"}
           Pass == IF op[p].at = "groups" THEN 0 ELSE 1
<1>1. /\ op[p].at \in {"groups", "accounts"}
      /\ op' = [op EXCEPT ![p] = [op[p] EXCEPT !.at = "resume", !.todo = Todo, !.next = Pass]]
      /\ UNCHANGED <<registry, secrets, accountState, claims, view, counters>>
  BY ControlFacts DEF ListRemovals
<1>2. Todo \subseteq Ids \X (Indexes \cup {-1}) /\ Pass \in 0 .. Limit
  BY LimitAssumption DEF Accounts
<1> HIDE DEF Todo, Pass
<1>10. PICK r \in Operation : r = op[p]
  BY ControlFacts
<1> DEFINE o == [r EXCEPT !.at = "resume", !.todo = Todo, !.next = Pass]
<1>3. /\ o \in Operation /\ o.kind = op[p].kind /\ o.at = "resume" /\ o.id = op[p].id
      /\ o.pick = op[p].pick /\ o.inserted = op[p].inserted
  BY <1>2, <1>10 DEF Operation, Steps
<1> HIDE DEF o
<1>4. op' = [op EXCEPT ![p] = o]
  BY <1>1, <1>10 DEF o
<1>5. op'[p] = o /\ \A q \in Procs \ {p} : op'[q] = op[q]
  BY <1>3, <1>4, SetOp, ControlFacts
<1>6. InStep(p) /\ op[p].kind = "adopt"
  BY <1>1, ControlFacts DEF InStep, OnPath, RemovalSteps, LateSteps, Failures
<1>7. Handler(p)'
  BY <1>1, <1>3, <1>5, <1>6 DEF Handler, InStep, Picks, HoldsGroup, Begun, Deriving, OnPath,
       RemovalSteps, LateSteps
<1>8. UNCHANGED <<created, unregistered>> /\ faults' \in 0 .. MaxFaults
  BY <1>1, ControlFacts DEF counters, TypeOK
<1>9. Importing'
  BY <1>1, <1>3, <1>5, <1>6, <1>8, ControlFacts, ImportGoesOn
<1> QED
  BY <1>1, <1>3, <1>4, <1>7, <1>8, <1>9, OpOnly

\* What an adoption resumes next.
LEMMA NextRemoval ==
  ASSUME Control, NEW p \in Procs, op[p].at = "resume", op[p].todo # {}
  PROVE  LET x == First(op[p].todo)
         IN  /\ x \in op[p].todo /\ x[1] \in Ids /\ x = <<x[1], x[2]>>
             /\ (x[2] = -1 /\ {x[2]} \ {-1} = {}) \/ (x[2] \in Indexes /\ {x[2]} \ {-1} = {x[2]})
<1>1. op[p].todo \subseteq Ids \X (Indexes \cup {-1})
  BY ControlFacts DEF Operation
<1>2. op[p].todo \subseteq Nat \X (Nat \cup {-1})
  BY <1>1, IndexFacts
<1>3. First(op[p].todo) \in op[p].todo
  BY <1>2, FirstIsListed
<1>4. -1 \notin Indexes
  BY IndexFacts
<1> QED
  BY <1>1, <1>3, <1>4

LEMMA ResumeControl ==
  ASSUME Control, NEW p \in Procs, ResumeRemoval(p)
  PROVE  Control'
<1>1. /\ op[p].at = "resume"
      /\ UNCHANGED <<registry, secrets, accountState, claims, view, counters>>
  BY DEF ResumeRemoval
<1>2. InStep(p) /\ op[p].kind = "adopt"
  BY <1>1, ControlFacts DEF InStep, OnPath, RemovalSteps, LateSteps, Failures
<1>3. CASE op[p].todo = {}
  <2>1. PICK s \in {"accounts", "validate"} : op' = At(p, s)
    BY <1>3 DEF ResumeRemoval
  <2>2. Skip(p, s) /\ s \in Steps /\ OnPath(op[p].kind, s)
    BY <1>1, <1>2, <2>1 DEF Skip, OnPath, Steps
  <2> QED
    BY <2>2, SkipControl DEF LateSteps
<1>4. CASE op[p].todo # {}
  <2> DEFINE x == First(op[p].todo)
             pick == {x[2]} \ {-1}
  <2>1. op' = [op EXCEPT ![p] = [op[p] EXCEPT !.at = "claim", !.id = x[1],
                                   !.todo = op[p].todo \ {x}, !.pick = pick]]
    BY <1>4, ControlFacts DEF ResumeRemoval
  <2>2. x[1] \in Ids /\ pick \subseteq Indexes /\ (pick = {} \/ \E i \in Indexes : pick = {i})
    BY <1>1, <1>4, NextRemoval
  <2> HIDE DEF x, pick
  <2>9. PICK r \in Operation : r = op[p]
    BY ControlFacts
  <2> DEFINE o == [r EXCEPT !.at = "claim", !.id = x[1], !.todo = r.todo \ {x}, !.pick = pick]
  <2>3. /\ o \in Operation /\ o.kind = op[p].kind /\ o.at = "claim" /\ o.id = x[1]
        /\ o.pick = pick /\ o.inserted = op[p].inserted
    BY <2>2, <2>9 DEF Operation, Steps
  <2> HIDE DEF o
  <2>4. op' = [op EXCEPT ![p] = o]
    BY <2>1, <2>9 DEF o
  <2>5. op'[p] = o /\ \A q \in Procs \ {p} : op'[q] = op[q]
    BY <2>3, <2>4, SetOp, ControlFacts
  <2>6. Handler(p)'
    BY <1>2, <2>2, <2>3, <2>5 DEF Handler, InStep, Picks, HoldsGroup, Begun, Deriving, OnPath,
         RemovalSteps, LateSteps
  <2>7. UNCHANGED <<created, unregistered>> /\ faults' \in 0 .. MaxFaults
    BY <1>1, ControlFacts DEF counters, TypeOK
  <2>8. Importing'
    BY <1>1, <1>2, <2>3, <2>5, <2>7, ControlFacts, ImportGoesOn
  <2> QED
    BY <1>1, <2>3, <2>4, <2>6, <2>7, <2>8, OpOnly
<1> QED
  BY <1>3, <1>4

-----------------------------------------------------------------------------
(* The steps that update the registry.                                       *)

\* A registry that only loses groups and accounts leaves an import what it was.
LEMMA ShrinkImports ==
  ASSUME Control, NEW p \in Procs, op'[App] = op[App] \/ op'[App].kind # "import",
         created' = created,
         \A id \in Ids :
           groups'[id] = NoGroup \/ /\ groups[id] # NoGroup
                                    /\ groups'[id].wallet = groups[id].wallet
                                    /\ \A i \in Indexes : groups'[id].accounts[i] # "none" =>
                                         groups[id].accounts[i] # "none"
  PROVE  Importing'
<1>1. \A id \in Ids : groups'[id].wallet \in {groups[id].wallet, NoWallet}
  BY NoGroupTyped
<1>2. ASSUME NEW x \in Accounts(groups') 
      PROVE  x \in Accounts(groups) /\ Address(groups', x) = Address(groups, x)
  <2>1. x \in Ids \X Indexes /\ groups'[x[1]].accounts[x[2]] # "none"
    BY <1>2 DEF Accounts
  <2>2. groups'[x[1]] # NoGroup
    BY <2>1 DEF NoGroup
  <2> QED
    BY <2>1, <2>2 DEF Accounts, Address
<1>3. ASSUME NEW a, ~Contains(groups, a) PROVE ~Contains(groups', a)
  <2>1. a \notin AddressesOf(groups', Accounts(groups'))
    BY <1>2, <1>3 DEF Contains, AddressesOf
  <2>2. ASSUME NEW id \in Ids, groups'[id].wallet.kind = "seed"
        PROVE  Derived[groups'[id].wallet.root][0] # a
    <3>1. groups'[id].wallet # NoWallet
      BY <2>2 DEF NoWallet
    <3> QED
      BY <1>1, <1>3, <2>2, <3>1 DEF Contains
  <2> QED
    BY <2>1, <2>2 DEF Contains
<1>4. ASSUME op'[App] = op[App], op[App].kind = "import" PROVE Importing'
  <2>1. op[App].wallet \in Wallet
    BY <1>4 DEF Control, Importing
  <2>2. \A id \in Ids : groups'[id].wallet = op[App].wallet => groups[id].wallet = op[App].wallet
    BY <1>1, <2>1, WalletKinds
  <2>3. op[App].id \in Ids
    BY <1>4, ControlFacts DEF InStep
  <2>4. op[App].at \in {"save", "register"} => groups'[op[App].id] = NoGroup
    BY <1>4, <2>3 DEF Control, Importing
  <2>5. op[App].at \in {"save", "register"} => ~Contains(groups', FirstOf(op[App].wallet))
    BY <1>3, <1>4 DEF Control, Importing
  <2> QED
    BY <1>4, <2>2, <2>4, <2>5 DEF Control, Importing
<1> QED
  BY <1>4 DEF Importing

LEMMA UpdateControl ==
  ASSUME Control, NEW p \in Procs, NEW g, NEW h, NEW o \in Operation,
         Update(p, g, h, [op EXCEPT ![p] = o]), op[p].kind # "none",
         WellFormed(g), h \in Addresses \cup {NoAddress},
         \A id \in Ids : \/ g[id] = groups[id]
                         \/ groups[id] = NoGroup /\ id <= created
                         \/ groupLock[id] = p,
         \A id \in Ids : groups[id] = NoGroup /\ ~(id <= created) => g[id] = NoGroup,
         groups' = g /\ op'[p] = o => Handler(p)',
         Importing'
  PROVE  Control'
<1>1. /\ UNCHANGED <<secrets, accountState, claims, view, created, unregistered>>
      /\ faults' \in 0 .. MaxFaults
      /\ \/ /\ Accepted(g, h) /\ groups' = g /\ home' = h
            /\ op' = [op EXCEPT ![p] = o] \/ op' = At(p, "thrown")
         \/ /\ groups' = groups /\ home' = home
            /\ op' = At(p, "thrown") \/ op' = At(p, "refused")
  BY UpdateIs, ControlFacts
<1>2. op' \in [Procs -> Operation] /\ \A q \in Procs \ {p} : op'[q] = op[q]
  <2>1. "thrown" \in Steps /\ "refused" \in Steps
    BY DEF Steps
  <2> QED
    BY <1>1, <2>1, SetOp, StepIs, ControlFacts
<1>3. groups' = g \/ groups' = groups
  BY <1>1
<1>4. groups' \in [Ids -> Group] /\ home' \in Addresses \cup {NoAddress}
  BY <1>1, ControlFacts DEF WellFormed, TypeOK
<1>5. TypeOK'
  BY <1>1, <1>2, <1>4, ControlFacts DEF TypeOK, secrets, accountState, claims, view
<1>6. OthersWait(p) /\ groupLock' = groupLock
  BY <1>1, <1>2 DEF OthersWait, claims
<1>7. ASSUME NEW q \in Procs \ {p} PROVE Handler(q)'
  <2>1. \A id \in Ids : \/ groups'[id] = groups[id]
                        \/ groups[id] = NoGroup \/ groupLock[id] = p
    BY <1>3
  <2> QED
    BY <1>6, <1>7, <2>1, OthersGoOn
<1>8. Handler(p)'
  <2>1. CASE op' = At(p, "thrown") \/ op' = At(p, "refused")
    <3>1. PICK s \in {"thrown", "refused"} : op' = At(p, s)
      BY <2>1
    <3>2. s \in Steps /\ OnPath(op[p].kind, s)
      BY DEF Steps, OnPath, Failures
    <3> QED
      BY <3>1, <3>2, FreeStep DEF LateSteps
  <2>2. CASE op' = [op EXCEPT ![p] = o] /\ groups' = g
    BY <2>2, SetOp, ControlFacts
  <2> QED
    BY <1>1, <2>1, <2>2
<1>9. Valid(groups, home)'
  BY <1>1 DEF Control, Accepted
<1>10. \A id \in Ids : Formed(id)'
  BY <1>3, ControlFacts DEF WellFormed, Formed
<1>11. ASSUME NEW id \in Ids PROVE Unused(id)'
  <2>1. created' = created /\ seeds' = seeds
    BY <1>1 DEF secrets
  <2>2. Unused(id)
    BY DEF Control
  <2>3. created \in Nat /\ id \in Nat
    BY IndexFacts, ControlFacts, LimitAssumption DEF TypeOK
  <2>4. id > created => groups[id] = NoGroup /\ ~(id <= created)
    BY <2>2, <2>3 DEF Unused
  <2>5. id > created => groups'[id] = NoGroup
    BY <1>3, <2>4
  <2> QED
    BY <2>1, <2>2, <2>5 DEF Unused
<1> QED
  BY <1>5, <1>7, <1>8, <1>9, <1>10, <1>11 DEF Control

\* The group an operation works on, with the rest of the registry.
LEMMA OneGroup ==
  ASSUME Control, NEW id \in Ids, NEW w \in Group, w = NoGroup \/ (w.wallet \in Wallet /\ w.lifecycle # "none")
  PROVE  /\ WellFormed([groups EXCEPT ![id] = w])
         /\ [groups EXCEPT ![id] = w][id] = w
         /\ \A other \in Ids \ {id} : [groups EXCEPT ![id] = w][other] = groups[other]
  BY ControlFacts DEF WellFormed, TypeOK

LEMMA Registered ==
  ASSUME Control, NEW id \in Ids, groups[id].wallet.kind = "seed" \/ groups[id].lifecycle # "none"
  PROVE  groups[id] # NoGroup /\ groups[id].wallet \in Wallet /\ groups[id].lifecycle # "none"
  BY NoGroupTyped, ControlFacts DEF WellFormed, NoWallet

LEMMA RegisterControl ==
  ASSUME Control, NEW p \in Procs, Register(p)
  PROVE  Control'
<1>1. op[p].at = "register" /\ op[p].kind = "import" /\ p = App /\ op[p].id \in Ids
  BY ControlFacts DEF Register, InStep, OnPath, RemovalSteps, LateSteps, Failures
<1>2. op[p].wallet \in Wallet /\ op[p].id <= created /\ groups[op[p].id] = NoGroup
  BY <1>1 DEF Control, Importing
<1>3. CASE Skip(p, "thrown")
  <2>1. OnPath(op[p].kind, "thrown")
    BY <1>1 DEF OnPath, Failures
  <2> QED
    BY <1>3, <2>1, SkipControl DEF Steps, LateSteps
<1>4. ASSUME ~Skip(p, "thrown") PROVE Control'
  <2>1. PICK s \in {"select", "discover", "returned"} :
          Update(p, [groups EXCEPT ![op[p].id] = NewGroup(op[p].wallet)], home,
                 [op EXCEPT ![p] = [op[p] EXCEPT !.inserted = FALSE, !.kind = "imported", !.at = s]])
    <3> DEFINE s == IF hasWallet THEN Imported(p) ELSE "select"
    <3>1. s \in {"select", "discover", "returned"}
      BY DEF Imported
    <3>2. [op EXCEPT ![p].inserted = FALSE, ![p].kind = "imported", ![p].at = s]
            = [op EXCEPT ![p] = [op[p] EXCEPT !.inserted = FALSE, !.kind = "imported", !.at = s]]
      <4> HIDE DEF s
      <4> QED
        BY <1>4, <3>1, ControlFacts
    <3>3. Update(p, [groups EXCEPT ![op[p].id] = NewGroup(op[p].wallet)], home,
                 [op EXCEPT ![p].inserted = FALSE, ![p].kind = "imported", ![p].at = s])
      BY <1>4 DEF Register
    <3> QED
      BY <3>1, <3>2, <3>3
  <2>2. PICK r \in Operation : r = op[p]
    BY ControlFacts
  <2> DEFINE o == [r EXCEPT !.inserted = FALSE, !.kind = "imported", !.at = s]
             g == [groups EXCEPT ![op[p].id] = NewGroup(op[p].wallet)]
  <2>11. s \in Steps
    BY DEF Steps
  <2>12. o \in Operation /\ o.kind = "imported" /\ o.at = s /\ o.id = r.id /\ o.inserted = FALSE
    BY <2>11 DEF Operation, Kinds
  <2>3. /\ o \in Operation /\ o.kind = "imported" /\ o.at = s /\ o.id = op[p].id
        /\ o.inserted = FALSE
    BY <2>2, <2>12
  <2>4. Update(p, g, home, [op EXCEPT ![p] = o])
    BY <2>1, <2>2
  <2> HIDE DEF o, g
  <2>5. /\ WellFormed(g) /\ \A id \in Ids \ {op[p].id} : g[id] = groups[id]
    BY <1>1, <1>2, NewGroupIs, OneGroup DEF g
  <2>6. home \in Addresses \cup {NoAddress}
    BY ControlFacts DEF TypeOK
  <2>7. ASSUME op'[p] = o PROVE Handler(p)'
    BY <1>1, <2>3, <2>7 DEF Handler, InStep, Picks, HoldsGroup, Begun, Deriving, OnPath,
         RemovalSteps, LateSteps
  <2>8. /\ created' = created /\ \A id \in Ids \ {op[p].id} : groups'[id] = groups[id]
        /\ op' = [op EXCEPT ![p] = o] \/ op' = At(p, "thrown") \/ op' = At(p, "refused")
    BY <2>4, <2>5, UpdateIs, ControlFacts
  <2>9. \/ op'[App].kind # "import"
        \/ op'[App].id = op[App].id /\ op'[App].wallet = op[App].wallet
             /\ op'[App].at \in {"thrown", "refused"} /\ op'[App].inserted = op[App].inserted
    <3>1. "thrown" \in Steps /\ "refused" \in Steps
      BY DEF Steps
    <3> QED
      BY <1>1, <2>3, <2>8, <3>1, StepIs, SetOp, ControlFacts
  <2>10. Importing'
    BY <1>1, <2>8, <2>9 DEF Control, Importing
  <2> QED
    BY <1>1, <1>2, <2>3, <2>4, <2>5, <2>6, <2>7, <2>10, UpdateControl
<1> QED
  BY <1>3, <1>4

LEMMA SelectControl ==
  ASSUME Control, NEW p \in Procs, Select(p)
  PROVE  Control'
<1> DEFINE x == <<op[p].id, IF op[p].kind = "imported" THEN 0 ELSE CHOOSE i \in op[p].pick : TRUE>>
<1>1. PICK next \in {"discover", "returned"} :
        /\ (next = "discover" => op[p].kind = "imported")
        /\ \/ Skip(p, "thrown") \/ Skip(p, next)
           \/ x \in Active(groups) /\ Update(p, groups, Address(groups, x), At(p, next))
  <2> DEFINE onward == IF op[p].kind = "imported" THEN Imported(p) ELSE "returned"
  <2>1. onward \in {"discover", "returned"} /\ (onward = "discover" => op[p].kind = "imported")
    BY DEF Imported
  <2>2. \/ Skip(p, "thrown") \/ Skip(p, onward)
        \/ x \in Active(groups) /\ Update(p, groups, Address(groups, x), At(p, onward))
    BY DEF Select
  <2> HIDE DEF onward, x
  <2> QED
    BY <2>1, <2>2
<1> HIDE DEF x
<1>2. op[p].at = "select" /\ op[p].kind \in {"imported", "select"}
  BY ControlFacts DEF Select, InStep, OnPath, RemovalSteps, LateSteps, Failures
<1>3. /\ OnPath(op[p].kind, "thrown") /\ OnPath(op[p].kind, next)
      /\ {"thrown", next} \subseteq Steps /\ LateSteps \cap {"thrown", next} = {}
      /\ next \notin {"save", "register", "claim", "read", "derive", "begin"}
  BY <1>1, <1>2 DEF OnPath, Failures, Steps, LateSteps
<1>4. ASSUME Skip(p, "thrown") \/ Skip(p, next) PROVE Control'
  BY <1>3, <1>4, SkipControl
<1>5. ASSUME x \in Active(groups), Update(p, groups, Address(groups, x), At(p, next)) PROVE Control'
  <2>1. Address(groups, x) \in Addresses
    BY <1>5, AccountIs, AccountsAreRegistered, ControlFacts
  <2>2. PICK o \in Operation : o = [op[p] EXCEPT !.at = next]
    BY <1>3, ControlFacts DEF Operation
  <2>3. At(p, next) = [op EXCEPT ![p] = o]
    BY <2>2 DEF At
  <2>4. Update(p, groups, Address(groups, x), [op EXCEPT ![p] = o])
    BY <1>5, <2>3
  <2>5. op' = At(p, next) \/ op' = At(p, "thrown") \/ op' = At(p, "refused")
    BY <2>3, <2>4, UpdateIs, ControlFacts
  <2>6. \A id \in Ids : groups'[id] = groups[id]
    BY <2>4, UpdateIs, ControlFacts
  <2>7. created' = created
    BY <2>4, UpdateIs, ControlFacts
  <2>8. op'[App] = op[App] \/ op'[App].kind # "import"
    <3>1. {"thrown", "refused"} \subseteq Steps
      BY DEF Steps
    <3> QED
      BY <1>2, <1>3, <2>5, <3>1, StepIs, ControlFacts
  <2>9. Importing'
    BY <2>6, <2>7, <2>8, ShrinkImports
  <2>10. ASSUME op'[p] = o, groups' = groups PROVE Handler(p)'
    <3>1. /\ o.kind = op[p].kind /\ o.at = next /\ o.id = op[p].id /\ o.inserted = op[p].inserted
          /\ o.pick = op[p].pick
      BY <1>3, <2>2, ControlFacts DEF Operation
    <3> QED
      BY <1>1, <1>2, <1>3, <2>10, <3>1, ControlFacts DEF Handler, InStep, Picks, HoldsGroup, Begun,
         Deriving, RemovalSteps, LateSteps
  <2> QED
    BY <1>2, <2>1, <2>4, <2>9, <2>10, UpdateControl, ControlFacts
<1> QED
  BY <1>1, <1>4, <1>5

\* An update of the group an operation holds.
LEMMA HeldUpdate ==
  ASSUME Control, NEW p \in Procs, NEW w \in Group, NEW h \in Addresses \cup {NoAddress},
         NEW s \in Steps, op[p].id \in Ids, groupLock[op[p].id] = p, op[p].kind \notin {"none", "import"},
         Update(p, [groups EXCEPT ![op[p].id] = w], h, At(p, s)),
         w = NoGroup \/ (w.wallet \in Wallet /\ w.lifecycle # "none"),
         groups[op[p].id] = NoGroup => w = NoGroup,
         p = App \/ w = NoGroup \/ /\ w.wallet = groups[op[p].id].wallet
                                   /\ \A i \in Indexes : w.accounts[i] # "none" =>
                                         groups[op[p].id].accounts[i] # "none",
         groups'[op[p].id] = w /\ op' = At(p, s) => Handler(p)'
  PROVE  Control'
<1> DEFINE id == op[p].id
           g == [groups EXCEPT ![id] = w]
<1>1. /\ WellFormed(g) /\ g[id] = w /\ \A other \in Ids \ {id} : g[other] = groups[other]
  BY OneGroup
<1>2. PICK o \in Operation : o = [op[p] EXCEPT !.at = s]
  <2>1. \A r \in Operation : [r EXCEPT !.at = s] \in Operation
    BY DEF Operation
  <2> QED
    BY <2>1, ControlFacts
<1>3. At(p, s) = [op EXCEPT ![p] = o]
  BY <1>2 DEF At
<1>4. Update(p, g, h, [op EXCEPT ![p] = o])
  BY <1>3
<1> HIDE DEF g
<1>5. /\ created' = created /\ (groups' = g \/ groups' = groups)
      /\ op' = At(p, s) \/ op' = At(p, "thrown") \/ op' = At(p, "refused")
  BY <1>3, <1>4, UpdateIs, ControlFacts
<1>6. op'[p].kind = op[p].kind /\ \A q \in Procs \ {p} : op'[q] = op[q]
  <2>1. {"thrown", "refused"} \subseteq Steps
    BY DEF Steps
  <2> QED
    BY <1>5, <2>1, StepIs, ControlFacts
<1>7. Importing'
  <2>1. CASE p = App
    BY <1>6, <2>1 DEF Importing
  <2>2. ASSUME p # App PROVE Importing'
    <3>1. op'[App] = op[App]
      BY <1>6, <2>2, ControlFacts
    <3>2. \A other \in Ids : groups[other] = NoGroup => groups'[other] = NoGroup
      BY <1>1, <1>5
    <3>3. \A other \in Ids :
            groups'[other] = NoGroup \/ /\ groups'[other].wallet = groups[other].wallet
                                        /\ \A i \in Indexes : groups'[other].accounts[i] # "none" =>
                                             groups[other].accounts[i] # "none"
      BY <1>1, <1>5, <2>2
    <3> QED
      BY <1>5, <3>1, <3>2, <3>3, ShrinkImports
  <2> QED
    BY <2>1, <2>2
<1>8. ASSUME groups' = g, op'[p] = o PROVE Handler(p)'
  <2>1. op' = At(p, s) \/ (op' # At(p, s) /\ o.at \in {"thrown", "refused"})
    <3>1. {"thrown", "refused"} \subseteq Steps
      BY DEF Steps
    <3> QED
      BY <1>5, <1>8, <3>1, StepIs, ControlFacts
  <2>2. ASSUME op' # At(p, s) PROVE Handler(p)'
    <3>1. PICK r \in {"thrown", "refused"} : op' = At(p, r)
      BY <1>5, <2>2
    <3>2. r \in Steps /\ OnPath(op[p].kind, r)
      BY DEF Steps, OnPath, Failures
    <3> QED
      BY <3>1, <3>2, FreeStep DEF LateSteps
  <2> QED
    BY <1>1, <1>8, <2>2
<1> QED
  BY <1>1, <1>4, <1>7, <1>8, UpdateControl

LEMMA AtWork ==
  ASSUME Control, NEW p \in Procs, op[p].at \in {"begin"} \cup LateSteps
  PROVE  /\ op[p].id \in Ids /\ groupLock[op[p].id] = p /\ op[p].kind \in {"remove", "adopt"}
         /\ groups[op[p].id] \in Group
         /\ op[p].pick \in SUBSET Indexes
         /\ op[p].pick = {} \/ \E i \in Indexes : op[p].pick = {i}
<1>1. InStep(p) /\ Picks(p) /\ HoldsGroup(p)
  BY ControlFacts
<1>2. op[p].at \in RemovalSteps
  BY DEF RemovalSteps
<1>3. op[p].kind \in {"remove", "adopt"}
  BY <1>1 DEF InStep, OnPath, LateSteps, Failures
<1>4. op[p].id \in Ids
  BY <1>1, <1>2 DEF InStep
<1>5. op[p].pick \in SUBSET Indexes /\ groups[op[p].id] \in Group
  BY <1>4, ControlFacts DEF Operation
<1> QED
  BY <1>1, <1>2, <1>3, <1>4, <1>5 DEF HoldsGroup, Picks

LEMMA DeriveControl ==
  ASSUME Control, NEW p \in Procs, Derive(p)
  PROVE  Control'
<1> DEFINE w == groups[op[p].id]
           n == AddAccounts(w, op[p].pick)
<1>1. op[p].at = "derive" /\ op[p].kind = "derive" /\ op[p].id \in Ids /\ p = App
  BY ControlFacts DEF Derive, InStep, OnPath, RemovalSteps, LateSteps, Failures
<1>2. groupLock[op[p].id] = p /\ w.wallet.kind = "seed" /\ op[p].pick # {}
  BY <1>1, ControlFacts DEF HoldsGroup, Deriving, Picks
<1>3. OnPath(op[p].kind, "thrown") /\ OnPath(op[p].kind, "returned")
      /\ {"thrown", "returned"} \subseteq Steps /\ LateSteps \cap {"thrown", "returned"} = {}
  BY <1>1 DEF OnPath, Failures, Steps, LateSteps
<1>4. w \in Group /\ op[p].pick \in SUBSET Indexes
  BY <1>1, ControlFacts DEF Operation
<1>5. w # NoGroup /\ w.wallet \in Wallet /\ w.lifecycle # "none"
  BY <1>1, <1>2, Registered
<1>6. n \in Group /\ n.wallet = w.wallet /\ n.lifecycle = w.lifecycle
  BY <1>2, <1>4, AddAccountsIs
<1>7. ASSUME Skip(p, "thrown") PROVE Control'
  BY <1>3, <1>7, SkipControl
<1>8. ASSUME Update(p, [groups EXCEPT ![op[p].id] = n], home, At(p, "returned")) PROVE Control'
  <2>1. home \in Addresses \cup {NoAddress}
    BY ControlFacts DEF TypeOK
  <2>2. op' = At(p, "returned") => Handler(p)'
    BY <1>3, FreeStep
  <2> HIDE DEF w, n
  <2> QED
    BY <1>1, <1>2, <1>3, <1>5, <1>6, <1>8, <2>1, <2>2, HeldUpdate DEF w
<1> QED
  BY <1>7, <1>8 DEF Derive

LEMMA SurvivorIs ==
  ASSUME Control, NEW p \in Procs
  PROVE  /\ Removed(p) \subseteq Accounts(groups)
         /\ Survivor(p) \in Addresses \cup {NoAddress}
<1>1. Removed(p) \subseteq Accounts(groups)
  BY DEF Removed, AccountsIn
<1>2. Active(groups) \ Removed(p) \subseteq Accounts(groups)
  BY DEF Active
<1>3. AddressesOf(groups, Active(groups) \ Removed(p)) \subseteq Addresses
  BY <1>2, AccountsAreRegistered, ControlFacts DEF AddressesOf
<1>4. FirstAddress(groups, Active(groups) \ Removed(p)) \in Addresses \cup {NoAddress}
  BY <1>2, <1>3, FirstAddressIs, ControlFacts
<1>5. home \in Addresses \cup {NoAddress}
  BY ControlFacts DEF TypeOK
<1> QED
  BY <1>1, <1>4, <1>5 DEF Survivor

\* A removal that goes on where an earlier one stopped.
LEMMA ResumedControl ==
  ASSUME Control, NEW p \in Procs, op[p].at = "begin", Skip(p, "terminalize"),
         IF Whole(p) THEN groups[op[p].id].lifecycle = "deleting"
         ELSE /\ groups[op[p].id].lifecycle = "active"
              /\ \A i \in op[p].pick : groups[op[p].id].accounts[i] = "deleting"
  PROVE  Control'
<1>1. "terminalize" \in Steps
  BY DEF Steps
<1>2. /\ TypeOK' /\ OthersWait(p) /\ UNCHANGED registry /\ created' = created
      /\ seeds' = seeds /\ op' = At(p, "terminalize") /\ groups' = groups /\ groupLock' = groupLock
  BY <1>1, SkipTyped, ControlFacts
<1>3. /\ op'[p].at = "terminalize" /\ op'[p].kind = op[p].kind /\ op'[p].id = op[p].id
      /\ op'[p].pick = op[p].pick /\ op'[p].inserted = op[p].inserted
  BY <1>1, <1>2, StepIs, ControlFacts
<1>4. InStep(p) /\ Picks(p)
  BY ControlFacts
<1>5. InStep(p)' /\ Picks(p)'
  BY <1>3, <1>4, AtWork DEF InStep, Picks, OnPath, RemovalSteps, LateSteps
<1>6. HoldsGroup(p)' /\ Deriving(p)'
  BY <1>2, <1>3, AtWork DEF HoldsGroup, Deriving
<1>7. Begun(p)'
  BY <1>2, <1>3 DEF Begun, Whole
<1>8. Importing'
  BY <1>1, <1>2, StepImports
<1> QED
  BY <1>2, <1>5, <1>6, <1>7, <1>8, QuietControl DEF Handler

\* What a removal finds when it begins.
LEMMA BegunHandler ==
  ASSUME Control, NEW p \in Procs, op[p].at = "begin", op' = At(p, "terminalize"),
         groupLock' = groupLock, groups'[op[p].id].wallet = groups[op[p].id].wallet,
         IF Whole(p) THEN groups'[op[p].id].lifecycle = "deleting"
         ELSE /\ groups'[op[p].id].lifecycle = "active"
              /\ \A i \in op[p].pick : groups'[op[p].id].accounts[i] = "deleting"
  PROVE  Handler(p)'
<1>1. "terminalize" \in Steps
  BY DEF Steps
<1>3. /\ op'[p].at = "terminalize" /\ op'[p].kind = op[p].kind /\ op'[p].id = op[p].id
      /\ op'[p].pick = op[p].pick /\ op'[p].inserted = op[p].inserted
  BY <1>1, StepIs, ControlFacts
<1>4. InStep(p) /\ Picks(p)
  BY ControlFacts
<1>5. InStep(p)' /\ Picks(p)'
  BY <1>3, <1>4, AtWork DEF InStep, Picks, OnPath, RemovalSteps, LateSteps
<1>6. HoldsGroup(p)' /\ Deriving(p)'
  BY <1>3, AtWork DEF HoldsGroup, Deriving
<1>7. Begun(p)'
  BY <1>3 DEF Begun, Whole
<1> QED
  BY <1>5, <1>6, <1>7 DEF Handler

LEMMA BeginGroupControl ==
  ASSUME Control, NEW p \in Procs, BeginGroupRemoval(p)
  PROVE  Control'
<1> DEFINE w == groups[op[p].id]
           n == MarkDeleting(w, {})
<1>1. op[p].at = "begin" /\ Whole(p)
  BY DEF BeginGroupRemoval
<1>2. /\ op[p].id \in Ids /\ groupLock[op[p].id] = p /\ op[p].kind \in {"remove", "adopt"}
      /\ w \in Group
  BY <1>1, AtWork
<1>3. OnPath(op[p].kind, "thrown") /\ OnPath(op[p].kind, "returned")
      /\ {"thrown", "returned", "terminalize"} \subseteq Steps
      /\ LateSteps \cap {"thrown", "returned"} = {}
  BY <1>2 DEF OnPath, Failures, Steps, LateSteps
<1>4. ASSUME Skip(p, "returned") \/ Skip(p, "thrown") PROVE Control'
  BY <1>3, <1>4, SkipControl
<1>5. ASSUME w.lifecycle = "deleting", Skip(p, "terminalize") PROVE Control'
  BY <1>1, <1>5, ResumedControl
<1>6. ASSUME w.lifecycle = "active",
             Update(p, [groups EXCEPT ![op[p].id] = n], Survivor(p), At(p, "terminalize"))
      PROVE  Control'
  <2>1. n \in Group /\ n.wallet = w.wallet /\ n.lifecycle = "deleting" /\ n.accounts = w.accounts
    BY <1>2, MarkDeletingIs
  <2>2. w # NoGroup /\ w.wallet \in Wallet
    BY <1>2, <1>6, Registered
  <2>3. groupLock' = groupLock
    BY <1>6, UpdateIs, ControlFacts DEF claims
  <2>4. groups'[op[p].id] = n /\ op' = At(p, "terminalize") => Handler(p)'
    BY <1>1, <2>1, <2>3, BegunHandler
  <2> HIDE DEF w, n
  <2> QED
    BY <1>2, <1>3, <1>6, <2>1, <2>2, <2>4, SurvivorIs, HeldUpdate DEF w
<1> QED
  BY <1>4, <1>5, <1>6 DEF BeginGroupRemoval

LEMMA BeginAccountControl ==
  ASSUME Control, NEW p \in Procs, BeginAccountRemoval(p)
  PROVE  Control'
<1> DEFINE w == groups[op[p].id]
           n == MarkDeleting(w, op[p].pick)
<1>1. op[p].at = "begin" /\ ~Whole(p)
  BY DEF BeginAccountRemoval
<1>2. /\ op[p].id \in Ids /\ groupLock[op[p].id] = p /\ op[p].kind \in {"remove", "adopt"}
      /\ w \in Group /\ op[p].pick \in SUBSET Indexes /\ op[p].pick # {}
      /\ \E i \in Indexes : op[p].pick = {i}
  BY <1>1, AtWork DEF Whole
<1>3. OnPath(op[p].kind, "thrown") /\ {"thrown", "terminalize"} \subseteq Steps
      /\ LateSteps \cap {"thrown"} = {}
  BY <1>2 DEF OnPath, Failures, Steps, LateSteps
<1>4. ASSUME Skip(p, "thrown") PROVE Control'
  BY <1>3, <1>4, SkipControl
<1>5. ASSUME w.lifecycle = "active", Removed(p) # {}, Removed(p) \cap Active(groups) = {},
             Skip(p, "terminalize")
      PROVE  Control'
  <2>1. PICK i \in Indexes : op[p].pick = {i}
    BY <1>2
  <2>2. PICK x \in Removed(p) : x[2] = i /\ x[1] = op[p].id /\ x \in Accounts(groups)
    BY <1>1, <1>5, <2>1 DEF Removed, AccountsIn
  <2>3. w.accounts[i] \notin {"none", "active"}
    BY <1>5, <2>2 DEF Accounts, Active
  <2>4. w.accounts[i] = "deleting"
    BY <1>2, <2>3 DEF Group
  <2> QED
    BY <1>1, <1>5, <2>1, <2>4, ResumedControl
<1>6. ASSUME w.lifecycle = "active", Removed(p) \subseteq Active(groups), Removed(p) # {},
             Update(p, [groups EXCEPT ![op[p].id] = n], Survivor(p), At(p, "terminalize"))
      PROVE  Control'
  <2>1. /\ n \in Group /\ n.wallet = w.wallet /\ n.lifecycle = "active"
        /\ \A i \in Indexes : n.accounts[i] = IF i \in op[p].pick THEN "deleting" ELSE w.accounts[i]
    BY <1>2, <1>6, MarkDeletingIs
  <2>2. w # NoGroup /\ w.wallet \in Wallet
    BY <1>2, <1>6, Registered
  <2>3. groupLock' = groupLock
    BY <1>6, UpdateIs, ControlFacts DEF claims
  <2>4. groups'[op[p].id] = n /\ op' = At(p, "terminalize") => Handler(p)'
    BY <1>1, <1>2, <2>1, <2>3, BegunHandler
  <2>5. \A i \in op[p].pick : w.accounts[i] # "none"
    <3>1. PICK i \in Indexes : op[p].pick = {i}
      BY <1>2
    <3>2. PICK x \in Removed(p) : x[2] = i /\ x[1] = op[p].id /\ x \in Accounts(groups)
      BY <1>1, <1>6, <3>1 DEF Removed, AccountsIn
    <3> QED
      BY <3>1, <3>2 DEF Accounts
  <2>6. \A i \in Indexes : n.accounts[i] # "none" => w.accounts[i] # "none"
    BY <2>1, <2>5
  <2> HIDE DEF w, n
  <2> QED
    BY <1>2, <1>3, <1>6, <2>1, <2>2, <2>4, <2>6, SurvivorIs, HeldUpdate DEF w
<1> QED
  BY <1>4, <1>5, <1>6 DEF BeginAccountRemoval

\* What is left of the group when a removal is finished.
LEMMA FinishIs ==
  ASSUME Control, NEW p \in Procs, FinishRemoval(p)
  PROVE  /\ op[p].at = "finish"
         /\ Update(p, [groups EXCEPT ![op[p].id] =
                        IF Whole(p) THEN NoGroup ELSE Without(groups[op[p].id], op[p].pick)],
                   home, At(p, "returned"))
  BY DEF FinishRemoval, Without

LEMMA FinishControl ==
  ASSUME Control, NEW p \in Procs, FinishRemoval(p)
  PROVE  Control'
<1> DEFINE w == groups[op[p].id]
           n == IF Whole(p) THEN NoGroup ELSE Without(w, op[p].pick)
<1>1. /\ op[p].at \in LateSteps
      /\ Update(p, [groups EXCEPT ![op[p].id] = n], home, At(p, "returned"))
  BY FinishIs DEF LateSteps
<1>2. /\ op[p].id \in Ids /\ groupLock[op[p].id] = p /\ op[p].kind \in {"remove", "adopt"}
      /\ w \in Group /\ op[p].pick \in SUBSET Indexes
  BY <1>1, AtWork
<1>3. OnPath(op[p].kind, "returned") /\ "returned" \in Steps /\ "returned" \notin LateSteps
  BY <1>2 DEF OnPath, Failures, Steps, LateSteps
<1>4. w.lifecycle \in {"active", "deleting"}
  BY <1>1, ControlFacts DEF Begun
<1>5. w # NoGroup /\ w.wallet \in Wallet
  BY <1>2, <1>4, Registered
<1>6. n = NoGroup \/ /\ n \in Group /\ n.wallet = w.wallet /\ n.lifecycle = w.lifecycle
                     /\ \A i \in Indexes : n.accounts[i] # "none" => w.accounts[i] # "none"
  BY <1>2, WithoutIs
<1>7. op' = At(p, "returned") => Handler(p)'
  BY <1>3, FreeStep
<1>8. home \in Addresses \cup {NoAddress} /\ n \in Group
  BY <1>6, NoGroupTyped, ControlFacts DEF TypeOK
<1> HIDE DEF w, n
<1> QED
  BY <1>1, <1>2, <1>3, <1>4, <1>5, <1>6, <1>7, <1>8, HeldUpdate DEF w

-----------------------------------------------------------------------------
(* Every step.                                                               *)

LEMMA InitControl == ASSUME Init PROVE Control
<1>1. /\ groups = [id \in Ids |-> NoGroup] /\ home = NoAddress /\ keys = {} /\ seeds = {}
      /\ connected = {} /\ default = NoAddress /\ cached = {}
      /\ groupLock = [id \in Ids |-> NoProc] /\ adoptLock = NoProc
      /\ shown = {} /\ hasWallet = FALSE /\ created = 0 /\ faults = 0 /\ unregistered = {}
      /\ op = [p \in Procs |-> IF p = App THEN Adopting ELSE Idle]
  BY DEF Init
<1>2. TypeOK
  <2>1. created \in 0 .. MaxGroups /\ faults \in 0 .. MaxFaults
    BY <1>1, LimitAssumption
  <2>2. op \in [Procs -> Operation] /\ groups \in [Ids -> Group]
    BY <1>1, IdleIs, NoGroupTyped
  <2>3. /\ home \in Addresses \cup {NoAddress} /\ default \in Addresses \cup {NoAddress}
        /\ keys \subseteq Keys /\ seeds \subseteq Ids /\ connected \subseteq Addresses
        /\ cached \subseteq Addresses /\ shown \subseteq Ids /\ unregistered \subseteq Ids
    BY <1>1
  <2>4. /\ groupLock \in [Ids -> Procs \cup {NoProc}] /\ adoptLock \in Procs \cup {NoProc}
        /\ hasWallet \in BOOLEAN
    BY <1>1
  <2> QED
    BY <2>1, <2>2, <2>3, <2>4 DEF TypeOK
<1>3. Accounts(groups) = {}
  BY <1>1 DEF Accounts, NoGroup
<1>4. \A id \in Ids : groups[id] = NoGroup /\ groups[id].wallet.kind # "seed"
  BY <1>1 DEF NoGroup, NoWallet
<1>5. Valid(groups, home)
  BY <1>1, <1>3, <1>4 DEF Valid
<1>6. \A p \in Procs : Handler(p)
  BY <1>1, IdleIs DEF Handler, InStep, Picks, HoldsGroup, Begun, Deriving, OnPath,
       RemovalSteps, LateSteps
<1>7. Importing
  BY <1>1, IdleIs DEF Importing, Procs
<1>8. \A id \in Ids : Formed(id) /\ Unused(id)
  BY <1>1, <1>4 DEF Formed, Unused
<1> QED
  BY <1>2, <1>5, <1>6, <1>7, <1>8 DEF Control

LEMMA NextControl == ASSUME Control, Next PROVE Control'
<1>1. ASSUME Start PROVE Control'
  <2>1. ASSUME NEW id \in Ids, StartRemove(id, {}) PROVE Control'
    BY <2>1, StartRemoveControl
  <2>2. ASSUME NEW id \in Ids, NEW i \in Indexes, StartRemove(id, {i}) PROVE Control'
    BY <2>2, StartRemoveControl
  <2>3. ASSUME NEW id \in Ids, NEW pick \in (SUBSET Indexes) \ {{}}, StartDerive(id, pick) PROVE Control'
    <3>1. pick # {} /\ pick \in SUBSET Indexes
      BY <2>3
    <3> QED
      BY <2>3, <3>1, StartDeriveControl
  <2> QED
    BY <1>1, <2>1, <2>2, <2>3, StartImportControl, StartSelectControl, StartAdoptionControl DEF Start
<1>2. ASSUME NEW p \in Procs, Wait(p) PROVE Control'
  BY <1>2, ClaimGroupControl, ClaimAdoptionControl DEF Wait
<1>3. ASSUME NEW p \in Procs, Continue(p) PROVE Control'
  BY <1>3, DiscardControl, CatchControl, SaveSecretControl, RegisterControl, SelectControl,
     ReadControl, DeriveControl, BeginGroupControl, BeginAccountControl, LateStepsControl,
     FinishControl, ListControl, ResumeControl, ValidateControl, ReturnControl DEF Continue
<1>4. ASSUME NEW p \in Procs, Fail(p) PROVE Control'
  BY <1>4, FailControl
<1>5. ASSUME NEW p \in Procs, Crash(p) PROVE Control'
  <2>1. faults' \in 0 .. MaxFaults
    BY <1>5, ControlFacts, LimitAssumption DEF Crash, Fault, TypeOK
  <2> QED
    BY <1>5, <2>1, RestartControl DEF Crash
<1>6. ASSUME NEW a \in Addresses, Connect(a) \/ StoreBalance(a) PROVE Control'
  BY <1>6, OutsideControl
<1>7. ASSUME Relaunch PROVE Control'
  <2>1. faults' \in 0 .. MaxFaults
    BY <1>7, ControlFacts DEF Relaunch, TypeOK
  <2> QED
    BY <1>7, <2>1, RestartControl, ControlFacts DEF Relaunch
<1> QED
  BY <1>1, <1>2, <1>3, <1>4, <1>5, <1>6, <1>7 DEF Next

LEMMA ControlHolds == Spec => []Control
<1>1. Init => Control
  BY InitControl
<1>2. Control /\ [Next]_vars => Control'
  <2>1. ASSUME Control, UNCHANGED vars PROVE Control'
    <3>1. /\ UNCHANGED <<groups, home, keys, seeds, connected, default, cached>>
          /\ UNCHANGED <<groupLock, adoptLock, shown, hasWallet, created, faults, op, unregistered>>
      BY <2>1 DEF vars, registry, secrets, accountState, claims, view, counters
    <3>2. TypeOK'
      BY <3>1, ControlFacts, <2>1 DEF TypeOK
    <3>3. Handler(App)' /\ Importing'
      BY <2>1, <3>1, ControlFacts DEF Handler, InStep, Picks, HoldsGroup, Begun, Deriving, Whole,
         Control, Importing
    <3>4. OthersWait(App) /\ UNCHANGED registry
      BY <3>1 DEF OthersWait, registry
    <3> QED
      BY <2>1, <3>1, <3>2, <3>3, <3>4, QuietControl, ControlFacts
  <2> QED
    BY <2>1, NextControl
<1> QED
  BY <1>1, <1>2, PTL DEF Spec

\* Every variable keeps its type, in every behaviour of the groups (WalletGroupManager.swift,
\* WalletRegistryAdoption.swift).
THEOREM TypeCorrect == Spec => []TypeOK
<1>1. Control => TypeOK
  BY DEF Control
<1> QED
  BY <1>1, ControlHolds, PTL

-----------------------------------------------------------------------------
(* Secrets, connections and balances.                                        *)

Clearing == {"secret", "connections", "balances", "finish"}

\* A removal that has begun removes accounts that are not active.
LEMMA LeavingIsInactive ==
  ASSUME Control, NEW q \in Procs, op[q].at \in LateSteps
  PROVE  /\ Removed(q) \subseteq Accounts(groups) /\ Removed(q) \cap Active(groups) = {}
         /\ Leaving(q) \cap AddressesOf(groups, Active(groups)) = {}
         /\ Leaving(q) \subseteq Addresses
<1>1. Removed(q) \subseteq Accounts(groups)
  BY SurvivorIs
<1>2. ASSUME NEW x \in Removed(q) PROVE x \notin Active(groups)
  <2>1. Begun(q) /\ x[1] = op[q].id /\ (~Whole(q) => x[2] \in op[q].pick)
    BY <1>2, ControlFacts DEF Removed, AccountsIn
  <2> QED
    BY <2>1 DEF Begun, Active
<1>3. ASSUME NEW x \in Removed(q), NEW y \in Active(groups), Address(groups, x) = Address(groups, y)
      PROVE  FALSE
  <2>1. x \in Accounts(groups) /\ y \in Accounts(groups)
    BY <1>1, <1>3 DEF Active
  <2>2. x = y
    BY <1>3, <2>1, OneAccount DEF Control
  <2> QED
    BY <1>2, <1>3, <2>2
<1>4. Leaving(q) \subseteq Addresses
  BY <1>1, AccountsAreRegistered, ControlFacts DEF Leaving, AddressesOf
<1> QED
  BY <1>1, <1>2, <1>3, <1>4 DEF Leaving, AddressesOf

\* The group of a removal that has begun, and what it removes, are left alone by the others.
LEMMA LeavingStays ==
  ASSUME Control, NEW p \in Procs, OthersWait(p),
         \A id \in Ids : \/ groups'[id] = groups[id]
                         \/ groups[id] = NoGroup \/ groupLock[id] = p,
         NEW q \in Procs \ {p}, op[q].at \in LateSteps
  PROVE  /\ op'[q] = op[q] /\ op[q].id \in Ids /\ groups'[op[q].id] = groups[op[q].id]
         /\ Whole(q)' = Whole(q) /\ Leaving(q)' = Leaving(q)
<1>1. op'[q] = op[q] /\ op[q].id \in Ids /\ groupLock[op[q].id] = q
  BY AtWork DEF OthersWait
<1>2. groups[op[q].id] # NoGroup
  BY NoGroupTyped, ControlFacts DEF Begun
<1>3. groups'[op[q].id] = groups[op[q].id]
  BY <1>1, <1>2
<1>4. Whole(q)' = Whole(q)
  BY <1>1, <1>3 DEF Whole
<1>5. AccountsIn(groups', op[q].id) = AccountsIn(groups, op[q].id)
  BY <1>3 DEF AccountsIn, Accounts
<1>6. Removed(q)' = Removed(q)
  BY <1>1, <1>4, <1>5 DEF Removed
<1>7. \A x \in Removed(q) : Address(groups', x) = Address(groups, x)
  BY <1>3 DEF Removed, AccountsIn, Address
<1>8. Leaving(q)' = Leaving(q)
  BY <1>6, <1>7 DEF Leaving, AddressesOf
<1> QED
  BY <1>1, <1>3, <1>4, <1>8

LEMMA OthersCleared ==
  ASSUME Control, Kept, NEW p \in Procs, OthersWait(p),
         \A id \in Ids : \/ groups'[id] = groups[id]
                         \/ groups[id] = NoGroup \/ groupLock[id] = p,
         seeds' \subseteq seeds, keys' \subseteq keys,
         connected' \cup {default'} \subseteq
           connected \cup {default, NoAddress} \cup AddressesOf(groups, Active(groups)),
         cached' \subseteq cached \cup AddressesOf(groups, Active(groups)),
         NEW q \in Procs \ {p}
  PROVE  Cleared(q)'
<1>1. op'[q] = op[q] /\ Cleared(q)
  BY DEF OthersWait, Kept
<1>2. CASE op[q].at \notin Clearing
  BY <1>1, <1>2 DEF Cleared, Clearing
<1>3. CASE op[q].at \in Clearing
  <2>1. op[q].at \in LateSteps
    BY <1>3 DEF Clearing, LateSteps
  <2>2. /\ op[q].id \in Ids /\ groups'[op[q].id] = groups[op[q].id]
        /\ Whole(q)' = Whole(q) /\ Leaving(q)' = Leaving(q)
    BY <2>1, LeavingStays
  <2>3. /\ Leaving(q) \cap AddressesOf(groups, Active(groups)) = {} /\ Leaving(q) \subseteq Addresses
    BY <2>1, LeavingIsInactive
  <2>4. NoSecret(op[q].id) => NoSecret(op[q].id)'
    BY <1>1, <2>2 DEF NoSecret
  <2>5. Leaving(q) \cap (connected \cup {default}) = {} =>
          Leaving(q) \cap (connected' \cup {default'}) = {}
    BY <2>3, AddressAssumption
  <2>6. Leaving(q) \cap cached = {} => Leaving(q) \cap cached' = {}
    BY <2>3
  <2> QED
    BY <1>1, <2>2, <2>4, <2>5, <2>6 DEF Cleared
<1> QED
  BY <1>2, <1>3

\* A step of one process that changes neither the registry nor what is stored beside it.
LEMMA QuietKept ==
  ASSUME Control, Kept, NEW p \in Procs, OthersWait(p),
         UNCHANGED <<registry, secrets, accountState>>, unregistered \subseteq unregistered',
         Saved', Cleared(p)'
  PROVE  Kept'
<1>1. groups' = groups /\ keys' = keys /\ seeds' = seeds /\ connected' = connected
      /\ default' = default /\ cached' = cached
  BY DEF registry, secrets, accountState
<1>2. \A q \in Procs \ {p} : Cleared(q)'
  BY <1>1, OthersCleared
<1>3. HasKeys'
  BY <1>1 DEF Kept, HasKeys, HasSecret
<1>4. Owned'
  BY <1>1 DEF Kept, Owned
<1> QED
  BY <1>2, <1>3, <1>4 DEF Kept

LEMMA FreeKept ==
  ASSUME Control, Kept, NEW p \in Procs, OthersWait(p),
         UNCHANGED <<registry, secrets, accountState>>, unregistered \subseteq unregistered',
         op'[p].at \notin {"register"} \cup Clearing
  PROVE  Kept'
<1>1. Cleared(p)'
  BY DEF Cleared, Clearing
<1>2. Saved'
  <2>1. CASE p = App
    BY <2>1 DEF Saved
  <2>2. ASSUME p # App PROVE Saved'
    <3>1. op'[App] = op[App] /\ keys' = keys /\ seeds' = seeds
      BY <2>2, ControlFacts DEF OthersWait, secrets
    <3> QED
      BY <3>1 DEF Kept, Saved
  <2> QED
    BY <2>1, <2>2
<1> QED
  BY <1>1, <1>2, QuietKept

\* The steps that change neither the registry nor what is stored beside it.
FreeStepOf(p) ==
  \/ p = App /\ \E x \in Ids \X Indexes : StartSelect(x)
  \/ p = App /\ \E id \in Ids : \/ \E pick \in (SUBSET Indexes) \ {{}} : StartDerive(id, pick)
                                \/ StartRemove(id, {}) \/ \E i \in Indexes : StartRemove(id, {i})
  \/ p \in Extensions /\ StartAdoption(p)
  \/ p = App /\ Relaunch
  \/ ClaimGroup(p) \/ ClaimAdoption(p) \/ Fail(p) \/ Crash(p)
  \/ Catch(p) \/ Leave(p) \/ ReadSeed(p) \/ ListRemovals(p) \/ ResumeRemoval(p) \/ Validate(p)
  \/ Return(p)

LEMMA StepAlone ==
  ASSUME op \in [Procs -> Operation], NEW p \in Procs, NEW o, op' = [op EXCEPT ![p] = o]
  PROVE  op'[p] = o /\ \A q \in Procs \ {p} : op'[q] = op[q]
  OBVIOUS

LEMMA LocksStay ==
  ASSUME NEW p \in Procs, \A q \in Procs \ {p} : op'[q] = op[q],
         \/ UNCHANGED claims \/ groupLock' = groupLock \/ Release(p)
         \/ ClaimGroup(p) /\ op[p].id \in Ids, TypeOK
  PROVE  OthersWait(p)
<1>1. \A id \in Ids, q \in Procs \ {p} : groupLock[id] = q => groupLock'[id] = q
  BY ProcAssumption DEF claims, Release, ClaimGroup, TypeOK, Procs
<1> QED
  BY <1>1 DEF OthersWait

LEMMA FreeSteps ==
  ASSUME Control, NEW p \in Procs, FreeStepOf(p)
  PROVE  /\ OthersWait(p) /\ UNCHANGED <<registry, secrets, accountState>> /\ created' = created
         /\ unregistered \subseteq unregistered'
         /\ op'[p].at \notin {"save", "register", "refused"} \cup Clearing
<1> DEFINE Good == /\ OthersWait(p) /\ UNCHANGED <<registry, secrets, accountState>>
                   /\ created' = created /\ unregistered \subseteq unregistered'
                   /\ op'[p].at \notin {"save", "register", "refused"} \cup Clearing
<1>1. ASSUME NEW o, op' = [op EXCEPT ![p] = o], o.at \notin {"save", "register", "refused"} \cup Clearing,
             UNCHANGED <<registry, secrets, accountState, created>>,
             unregistered \subseteq unregistered',
             \/ UNCHANGED claims \/ groupLock' = groupLock \/ Release(p)
             \/ ClaimGroup(p) /\ op[p].id \in Ids
      PROVE  Good
  <2>1. op'[p] = o /\ \A q \in Procs \ {p} : op'[q] = op[q]
    BY <1>1, StepAlone, ControlFacts
  <2> QED
    BY <1>1, <2>1, LocksStay, ControlFacts
<1>2. ASSUME NEW s, op' = At(p, s), s \notin {"save", "register", "refused"} \cup Clearing,
             UNCHANGED <<registry, secrets, accountState, created>>,
             unregistered \subseteq unregistered',
             \/ UNCHANGED claims \/ groupLock' = groupLock \/ Release(p)
             \/ ClaimGroup(p) /\ op[p].id \in Ids
      PROVE  Good
  <2> DEFINE o == [op[p] EXCEPT !.at = s]
  <2>1. op' = [op EXCEPT ![p] = o]
    BY <1>2 DEF At
  <2>2. o.at = s
    BY ControlFacts DEF Operation
  <2> HIDE DEF o
  <2> QED
    BY <1>1, <1>2, <2>1, <2>2
<1> HIDE DEF Good
<1>3. {Idle.at, Adopting.at} \cap ({"save", "register", "refused"} \cup Clearing) = {}
  BY IdleIs DEF Clearing
<1>4. ASSUME p = App, NEW x \in Ids \X Indexes, StartSelect(x) PROVE Good
  <2> DEFINE o == [Idle EXCEPT !.kind = "select", !.at = "select", !.id = x[1], !.pick = {x[2]}]
  <2>1. op' = [op EXCEPT ![p] = o] /\ o.at = "select"
        /\ UNCHANGED <<registry, secrets, accountState, created, unregistered>> /\ UNCHANGED claims
    BY <1>4 DEF StartSelect, counters, Idle
  <2> HIDE DEF o
  <2> QED
    BY <1>1, <2>1 DEF Clearing
<1>5. ASSUME p = App, NEW id \in Ids, NEW pick, StartDerive(id, pick) PROVE Good
  <2> DEFINE o == [Idle EXCEPT !.kind = "derive", !.at = "claim", !.id = id, !.pick = pick]
  <2>1. op' = [op EXCEPT ![p] = o] /\ o.at = "claim"
        /\ UNCHANGED <<registry, secrets, accountState, created, unregistered>> /\ UNCHANGED claims
    BY <1>5 DEF StartDerive, counters, Idle
  <2> HIDE DEF o
  <2> QED
    BY <1>1, <2>1 DEF Clearing
<1>6. ASSUME p = App, NEW id \in Ids, NEW pick, StartRemove(id, pick) PROVE Good
  <2> DEFINE o == [Idle EXCEPT !.kind = "remove", !.at = "claim", !.id = id, !.pick = pick]
  <2>1. op' = [op EXCEPT ![p] = o] /\ o.at = "claim"
        /\ UNCHANGED <<registry, secrets, accountState, created, unregistered>> /\ UNCHANGED claims
    BY <1>6 DEF StartRemove, counters, Idle
  <2> HIDE DEF o
  <2> QED
    BY <1>1, <2>1 DEF Clearing
<1>7. ASSUME StartAdoption(p) PROVE Good
  BY <1>1, <1>3, <1>7 DEF StartAdoption, counters
<1>8. ASSUME ClaimGroup(p) PROVE Good
  <2>1. PICK s \in {"read", "begin"} : op' = At(p, s)
    BY <1>8 DEF ClaimGroup
  <2>2. op[p].id \in Ids
    BY <1>8, ControlFacts DEF ClaimGroup, InStep, RemovalSteps
  <2>3. UNCHANGED <<registry, secrets, accountState, created, unregistered>>
    BY <1>8 DEF ClaimGroup, counters
  <2> QED
    BY <1>2, <1>8, <2>1, <2>2, <2>3 DEF Clearing
<1>9. ASSUME ClaimAdoption(p) PROVE Good
  BY <1>2, <1>9 DEF ClaimAdoption, counters, Clearing
<1>10. ASSUME Fail(p) PROVE Good
  BY <1>2, <1>10 DEF Fail, Clearing
<1>11. ASSUME Crash(p) \/ (p = App /\ Relaunch) PROVE Good
  <2>1. Restarted(p)
    BY <1>11 DEF Crash, Relaunch
  <2>2. PICK o \in {Idle, Adopting} : op' = [op EXCEPT ![p] = o]
    BY <2>1 DEF Restarted
  <2> QED
    BY <1>1, <1>3, <2>1, <2>2 DEF Restarted
<1>12. ASSUME Catch(p) PROVE Good
  <2>2. PICK o \in {Idle, Adopting} : op' = [op EXCEPT ![p] = o]
    BY <1>12 DEF Catch
  <2>3. unregistered \subseteq unregistered'
    BY <1>12 DEF Catch
  <2> QED
    BY <1>1, <1>3, <1>12, <2>2, <2>3 DEF Catch
<1>13. ASSUME NEW s \in {"returned", "thrown", "accounts", "validate"}, Skip(p, s) PROVE Good
  BY <1>2, <1>13 DEF Skip, counters, Clearing
<1>14. ASSUME Leave(p) PROVE Good
  BY <1>13, <1>14 DEF Leave
<1>15. ASSUME ReadSeed(p) PROVE Good
  <2>1. CASE Skip(p, "thrown")
    BY <1>13, <2>1
  <2>2. ASSUME ~Skip(p, "thrown") PROVE Good
    <3> DEFINE o == [op[p] EXCEPT !.at = "derive", !.next = groups[op[p].id].next]
    <3>1. /\ op' = [op EXCEPT ![p] = o]
          /\ UNCHANGED <<registry, secrets, accountState, claims, view, counters>>
      BY <1>15, <2>2, ControlFacts DEF ReadSeed
    <3>2. o.at = "derive"
      BY ControlFacts DEF Operation
    <3> HIDE DEF o
    <3> QED
      BY <1>1, <3>1, <3>2 DEF counters, Clearing
  <2> QED
    BY <2>1, <2>2
<1>16. ASSUME ListRemovals(p) PROVE Good
  <2>1. PICK todo, n : op' = [op EXCEPT ![p] = [op[p] EXCEPT !.at = "resume", !.todo = todo, !.next = n]]
    BY <1>16, ControlFacts DEF ListRemovals
  <2> DEFINE o == [op[p] EXCEPT !.at = "resume", !.todo = todo, !.next = n]
  <2>2. o.at = "resume"
    BY ControlFacts DEF Operation
  <2> HIDE DEF o
  <2>3. op' = [op EXCEPT ![p] = o]
    BY <2>1 DEF o
  <2> QED
    BY <1>1, <1>16, <2>2, <2>3 DEF ListRemovals, counters, Clearing
<1>17. ASSUME ResumeRemoval(p) PROVE Good
  <2>1. CASE op[p].todo = {}
    <3>1. PICK s \in {"accounts", "validate"} : op' = At(p, s)
      BY <1>17, <2>1 DEF ResumeRemoval
    <3>2. Skip(p, s)
      BY <1>17, <3>1 DEF ResumeRemoval, Skip
    <3> QED
      BY <1>13, <3>2
  <2>2. CASE op[p].todo # {}
    <3> DEFINE x == First(op[p].todo)
               o == [op[p] EXCEPT !.at = "claim", !.id = x[1], !.todo = op[p].todo \ {x},
                                  !.pick = {x[2]} \ {-1}]
    <3>1. op' = [op EXCEPT ![p] = o]
      BY <1>17, <2>2, ControlFacts DEF ResumeRemoval
    <3>2. o.at = "claim"
      BY ControlFacts DEF Operation
    <3> HIDE DEF o
    <3> QED
      BY <1>1, <1>17, <3>1, <3>2 DEF ResumeRemoval, counters, Clearing
  <2> QED
    BY <2>1, <2>2
<1>18. ASSUME Validate(p) PROVE Good
  <2>1. CASE Ready
    BY <1>1, <1>3, <1>18, <2>1 DEF Validate, counters
  <2>2. CASE ~Ready
    BY <1>13, <1>18, <2>2 DEF Validate
  <2> QED
    BY <2>1, <2>2
<1>19. ASSUME Return(p) PROVE Good
  <2>1. /\ \A q \in Procs \ {p} : op'[q] = op[q]
        /\ op'[p].at \in {"resume", "enter"}
    <3>1. CASE op[p].kind = "adopt"
      BY <1>19, <3>1, StepIs, ControlFacts DEF Return, Steps
    <3>2. CASE op[p].kind # "adopt"
      BY <1>19, <3>2, StepAlone, ControlFacts, IdleIs DEF Return
    <3> QED
      BY <3>1, <3>2
  <2>2. \A q \in Procs \ {p}, id \in Ids : groupLock[id] = q => groupLock'[id] = q
    BY <1>19, LocksReleased, ControlFacts DEF Return
  <2>3. /\ UNCHANGED <<registry, secrets, accountState, created, unregistered>>
    BY <1>19 DEF Return, counters
  <2> QED
    BY <2>1, <2>2, <2>3 DEF Good, OthersWait, Clearing
<1>20. Good
  BY <1>4, <1>5, <1>6, <1>7, <1>8, <1>9, <1>10, <1>11, <1>12, <1>14, <1>15, <1>16, <1>17, <1>18,
     <1>19 DEF FreeStepOf
<1> QED
  BY <1>20 DEF Good

LEMMA StillOwned ==
  ASSUME Kept, NEW g, NEW S,
         \A x \in Accounts(groups) \ S : x \in Accounts(g) /\ g[x[1]].wallet = groups[x[1]].wallet,
         AddressesOf(groups, S) \cap (connected \cup {default} \cup cached) = {}
  PROVE  /\ connected \cup ({default} \ {NoAddress}) \subseteq
              AddressesOf(g, {x \in Accounts(g) : g[x[1]].wallet.kind # "watchOnly"})
         /\ cached \subseteq AddressesOf(g, Accounts(g))
<1>1. ASSUME NEW a \in connected \cup ({default} \ {NoAddress})
      PROVE  a \in AddressesOf(g, {x \in Accounts(g) : g[x[1]].wallet.kind # "watchOnly"})
  <2>1. PICK x \in Accounts(groups) :
          groups[x[1]].wallet.kind # "watchOnly" /\ Address(groups, x) = a
    BY <1>1 DEF Kept, Owned, AddressesOf
  <2>2. x \notin S
    BY <1>1, <2>1 DEF AddressesOf
  <2>3. x \in Accounts(g) /\ g[x[1]].wallet = groups[x[1]].wallet
    BY <2>1, <2>2
  <2>4. Address(g, x) = a
    BY <2>1, <2>3 DEF Address
  <2> QED
    BY <2>1, <2>3, <2>4 DEF AddressesOf
<1>2. ASSUME NEW a \in cached PROVE a \in AddressesOf(g, Accounts(g))
  <2>1. PICK x \in Accounts(groups) : Address(groups, x) = a
    BY <1>2 DEF Kept, Owned, AddressesOf
  <2>2. x \notin S
    BY <1>2, <2>1 DEF AddressesOf
  <2>3. x \in Accounts(g) /\ Address(g, x) = a
    BY <2>1, <2>2 DEF Address
  <2> QED
    BY <2>3 DEF AddressesOf
<1> QED
  BY <1>1, <1>2

\* A step that changes the registry and nothing beside it.
LEMMA RegistryKept ==
  ASSUME Control, Kept, NEW p \in Procs, OthersWait(p), NEW S,
         \A id \in Ids : \/ groups'[id] = groups[id]
                         \/ groups[id] = NoGroup \/ groupLock[id] = p,
         UNCHANGED <<secrets, accountState, unregistered>>,
         op'[p].at \notin {"register"} \cup Clearing,
         \A x \in Accounts(groups) \ S :
           x \in Accounts(groups') /\ groups'[x[1]].wallet = groups[x[1]].wallet,
         AddressesOf(groups, S) \cap (connected \cup {default} \cup cached) = {},
         \A id \in Ids : groups'[id].lifecycle = "active" =>
           \/ groups[id].lifecycle = "active" /\ groups'[id].wallet = groups[id].wallet
           \/ HasSecret(groups', id)
  PROVE  Kept'
<1>1. /\ seeds' = seeds /\ keys' = keys /\ connected' = connected /\ default' = default
      /\ cached' = cached /\ unregistered' = unregistered
  BY DEF secrets, accountState
<1>2. \A q \in Procs \ {p} : Cleared(q)'
  BY <1>1, OthersCleared
<1>3. Cleared(p)'
  BY DEF Cleared, Clearing
<1>4. Owned'
  BY <1>1, StillOwned DEF Owned
<1>5. HasKeys'
  BY <1>1 DEF Kept, HasKeys, HasSecret
<1>6. Saved'
  <2>1. CASE p = App
    BY <2>1 DEF Saved
  <2>2. ASSUME p # App PROVE Saved'
    BY <1>1, <2>2, ControlFacts DEF OthersWait, Kept, Saved
  <2> QED
    BY <2>1, <2>2
<1> QED
  BY <1>2, <1>3, <1>4, <1>5, <1>6 DEF Kept

LEMMA StartImportKept ==
  ASSUME Control, Kept, NEW w \in Wallet, StartImport(w)
  PROVE  Kept'
<1>1. UNCHANGED <<registry, secrets, accountState, claims, unregistered>>
  BY DEF StartImport
<1>2. PICK o : op' = [op EXCEPT ![App] = o] /\ o.at \in {"enter", "save", "register"}
               /\ (o.at = "register" => o.wallet.kind = "watchOnly")
  <2>1. CASE Contains(groups, FirstOf(w))
    BY <2>1, IdleIs DEF StartImport
  <2>2. CASE ~Contains(groups, FirstOf(w))
    <3> DEFINE o == [Idle EXCEPT !.kind = "import", !.id = created + 1, !.wallet = w,
                                 !.at = IF w.kind = "watchOnly" THEN "register" ELSE "save"]
    <3>1. op' = [op EXCEPT ![App] = o]
      BY <2>2 DEF StartImport
    <3>2. o.at = (IF w.kind = "watchOnly" THEN "register" ELSE "save") /\ o.wallet = w
      BY DEF Idle
    <3> HIDE DEF o
    <3> QED
      BY <3>1, <3>2
  <2> QED
    BY <2>1, <2>2
<1>3. op'[App] = o /\ \A q \in Procs \ {App} : op'[q] = op[q]
  BY <1>2, StepAlone, ControlFacts
<1>4. OthersWait(App)
  BY <1>1, <1>3, LocksStay, ControlFacts
<1>5. Saved' /\ Cleared(App)'
  BY <1>2, <1>3 DEF Saved, Cleared
<1> QED
  BY <1>1, <1>4, <1>5, QuietKept, ControlFacts

LEMMA DiscardKept ==
  ASSUME Control, Kept, NEW p \in Procs, Discard(p)
  PROVE  Kept'
<1>1. /\ op[p].at \in {"thrown", "refused"} /\ op[p].kind = "import"
      /\ op' = [op EXCEPT ![p] = [op[p] EXCEPT !.inserted = FALSE]]
      /\ unregistered' = unregistered \cup {op[p].id}
      /\ seeds' \subseteq seeds /\ keys' \subseteq keys
      /\ UNCHANGED <<registry, accountState, claims>>
  BY ControlFacts DEF Discard, secrets
<1>2. seeds \ {op[p].id} \subseteq seeds' /\ (seeds' # seeds => op[p].wallet.kind = "seed")
      /\ keys \ {op[p].wallet.root} \subseteq keys' /\ (keys' # keys => op[p].wallet.kind # "seed")
  BY DEF Discard, secrets
<1>3. p = App /\ op[p].id \in Ids /\ op[p].wallet \in Wallet
      /\ \A id \in Ids \ {op[p].id} : groups[id].wallet # op[p].wallet
  BY <1>1, ControlFacts DEF InStep, Control, Importing
<1>4. op'[p].at \in {"thrown", "refused"} /\ \A q \in Procs \ {p} : op'[q] = op[q]
  <2> DEFINE o == [op[p] EXCEPT !.inserted = FALSE]
  <2>1. o.at = op[p].at
    BY ControlFacts DEF Operation
  <2> HIDE DEF o
  <2>2. op' = [op EXCEPT ![p] = o]
    BY <1>1 DEF o
  <2> QED
    BY <1>1, <2>1, <2>2, StepAlone, ControlFacts
<1>5. OthersWait(p) /\ groups' = groups
  BY <1>1, <1>4, LocksStay, ControlFacts DEF registry
<1>6. connected' = connected /\ default' = default /\ cached' = cached
  BY <1>1 DEF accountState
<1>7. \A q \in Procs \ {p} : Cleared(q)'
  BY <1>1, <1>5, <1>6, OthersCleared
<1>8. Cleared(p)' /\ Saved'
  BY <1>3, <1>4 DEF Cleared, Saved
<1>9. Owned'
  BY <1>5, <1>6 DEF Kept, Owned
<1>10. ASSUME NEW id \in Ids \ unregistered', groups[id].lifecycle = "active"
       PROVE  HasSecret(groups, id)'
  <2>1. id \in Ids \ unregistered /\ id # op[p].id
    BY <1>1, <1>10
  <2>2. HasSecret(groups, id) /\ groups[id].wallet \in Wallet /\ groups[id].wallet # op[p].wallet
    BY <1>3, <1>10, <2>1, Registered DEF Kept, HasKeys
  <2>3. id \in seeds => id \in seeds'
    BY <1>2, <2>1
  <2>4. ASSUME groups[id].wallet.kind = "privateKey", groups[id].wallet.root \in keys
        PROVE  groups[id].wallet.root \in keys'
    <3>1. CASE keys' = keys
      BY <2>4, <3>1
    <3>2. CASE keys' # keys
      <4>1. groups[id].wallet.root = op[p].wallet.root => op[p].wallet.kind # "privateKey"
        BY <1>3, <2>2, <2>4, SameWallet
      <4>2. op[p].wallet.kind = "privateKey"
        BY <1>1, <1>2, <1>3, <3>2, WalletKinds DEF Control, Importing, Discard
      <4> QED
        BY <1>2, <2>4, <4>1, <4>2
    <3> QED
      BY <3>1, <3>2
  <2> QED
    BY <1>5, <2>2, <2>3, <2>4 DEF HasSecret
<1>11. HasKeys'
  BY <1>5, <1>10 DEF HasKeys
<1> QED
  BY <1>7, <1>8, <1>9, <1>11 DEF Kept

LEMMA SaveSecretKept ==
  ASSUME Control, Kept, NEW p \in Procs, SaveSecret(p)
  PROVE  Kept'
<1>1. op[p].at = "save" /\ UNCHANGED <<registry, accountState, claims, unregistered>>
  BY DEF SaveSecret, counters
<1>2. op[p].kind = "import" /\ p = App /\ op[p].id \in Ids
  BY <1>1, ControlFacts DEF InStep, OnPath, RemovalSteps, LateSteps, Failures
<1>3. /\ op[p].wallet \in Wallet /\ op[p].wallet.kind # "watchOnly"
      /\ groups[op[p].id] = NoGroup /\ \A id \in Ids \ {op[p].id} : groups[id].wallet # op[p].wallet
  BY <1>1, <1>2 DEF Control, Importing
<1>4. IF op[p].wallet.kind = "seed"
        THEN seeds' = seeds \cup {op[p].id} /\ keys' = keys
        ELSE keys' = keys \cup {op[p].wallet.root} /\ seeds' = seeds
  BY DEF SaveSecret
<1>5. /\ op'[p].at = "register" /\ op'[p].wallet = op[p].wallet /\ op'[p].id = op[p].id
      /\ \A q \in Procs \ {p} : op'[q] = op[q]
  <2>1. PICK new \in BOOLEAN : op' = [op EXCEPT ![p] = [op[p] EXCEPT !.at = "register", !.inserted = new]]
    BY ControlFacts DEF SaveSecret
  <2> DEFINE o == [op[p] EXCEPT !.at = "register", !.inserted = new]
  <2>2. o.at = "register" /\ o.wallet = op[p].wallet /\ o.id = op[p].id
    BY ControlFacts DEF Operation
  <2> HIDE DEF o
  <2>3. op' = [op EXCEPT ![p] = o]
    BY <2>1 DEF o
  <2> QED
    BY <2>2, <2>3, StepAlone, ControlFacts
<1>6. groups' = groups /\ connected' = connected /\ default' = default /\ cached' = cached
  BY <1>1 DEF registry, accountState
<1>7. Saved'
  BY <1>2, <1>4, <1>5 DEF Saved
<1>8. HasKeys'
  BY <1>1, <1>4, <1>6 DEF Kept, HasKeys, HasSecret
<1>9. Owned'
  BY <1>6 DEF Kept, Owned
<1>10. ASSUME NEW q \in Procs PROVE Cleared(q)'
  <2>1. CASE q = p
    BY <1>5, <2>1 DEF Cleared
  <2>2. ASSUME q # p, op[q].at \in {"connections", "balances", "finish"}, Whole(q), NoSecret(op[q].id)
        PROVE  NoSecret(op[q].id)'
    <3>1. op[q].at \in LateSteps
      BY <2>2 DEF LateSteps
    <3>2. op'[q] = op[q] /\ op[q].id \in Ids /\ groups[op[q].id].lifecycle = "deleting"
      BY <1>5, <2>2, <3>1, AtWork, ControlFacts DEF Begun
    <3>3. op[q].id # op[p].id /\ groups[op[q].id].wallet \in Wallet
      BY <1>3, <3>2, NoGroupTyped, Registered
    <3>4. groups[op[q].id].wallet # op[p].wallet
      BY <1>3, <3>2, <3>3
    <3>5. groups[op[q].id].wallet.kind = "privateKey" /\ op[p].wallet.kind # "seed" =>
            groups[op[q].id].wallet.root # op[p].wallet.root
      BY <1>3, <3>3, <3>4, SameWallet, WalletKinds
    <3> QED
      BY <1>4, <1>6, <2>2, <3>2, <3>3, <3>5 DEF NoSecret
  <2>3. ASSUME q # p PROVE Cleared(q)'
    <3>1. op'[q] = op[q] /\ Cleared(q)
      BY <1>5, <2>3 DEF Kept
    <3>2. Whole(q)' = Whole(q) /\ Leaving(q)' = Leaving(q)
      BY <1>6, <3>1 DEF Whole, Leaving, Removed
    <3> QED
      BY <1>6, <2>2, <2>3, <3>1, <3>2 DEF Cleared
  <2> QED
    BY <2>1, <2>3
<1> QED
  BY <1>7, <1>8, <1>9, <1>10 DEF Kept

LEMMA SkipIs ==
  ASSUME Control, NEW p \in Procs, NEW s \in Steps, Skip(p, s)
  PROVE  /\ OthersWait(p) /\ UNCHANGED <<registry, secrets, accountState>>
         /\ unregistered \subseteq unregistered' /\ created' = created
         /\ op'[p].at = s /\ op'[p].kind = op[p].kind /\ op'[p].id = op[p].id
         /\ op'[p].pick = op[p].pick /\ op'[p].todo = op[p].todo /\ op'[p].next = op[p].next
         /\ op'[p].wallet = op[p].wallet /\ op'[p].inserted = op[p].inserted
         /\ groups' = groups /\ shown' = shown /\ hasWallet' = hasWallet
  BY SkipTyped, StepIs, ControlFacts DEF Skip, counters, registry, view

LEMMA SkipKept ==
  ASSUME Control, Kept, NEW p \in Procs, NEW s \in Steps \ ({"register"} \cup Clearing), Skip(p, s)
  PROVE  Kept'
<1>1. s \in Steps
  OBVIOUS
<1> QED
  BY <1>1, SkipIs, FreeKept

LEMMA UpdateKept ==
  ASSUME Control, Kept, NEW p \in Procs, NEW g, NEW h, NEW o, NEW S,
         Update(p, g, h, [op EXCEPT ![p] = o]), o.at \notin {"register"} \cup Clearing,
         \A id \in Ids : g[id] = groups[id] \/ groups[id] = NoGroup \/ groupLock[id] = p,
         \A x \in Accounts(groups) \ S : x \in Accounts(g) /\ g[x[1]].wallet = groups[x[1]].wallet,
         AddressesOf(groups, S) \cap (connected \cup {default} \cup cached) = {},
         \A id \in Ids : g[id].lifecycle = "active" =>
           \/ groups[id].lifecycle = "active" /\ g[id].wallet = groups[id].wallet
           \/ HasSecret(g, id)
  PROVE  Kept'
<1>1. /\ UNCHANGED <<secrets, accountState, claims, unregistered>>
      /\ \/ groups' = g /\ (op' = [op EXCEPT ![p] = o] \/ op' = At(p, "thrown"))
         \/ UNCHANGED registry /\ (op' = At(p, "thrown") \/ op' = At(p, "refused"))
  BY UpdateIs, ControlFacts DEF registry
<1>2. /\ \A q \in Procs \ {p} : op'[q] = op[q]
      /\ op'[p].at \in {o.at, "thrown", "refused"}
  <2>1. "thrown" \in Steps /\ "refused" \in Steps
    BY DEF Steps
  <2> QED
    BY <1>1, <2>1, StepIs, StepAlone, ControlFacts
<1>3. OthersWait(p) /\ op'[p].at \notin {"register"} \cup Clearing
  BY <1>1, <1>2, LocksStay, ControlFacts DEF Clearing
<1>4. CASE UNCHANGED registry
  BY <1>1, <1>3, <1>4, FreeKept
<1>5. CASE groups' = g
  BY <1>1, <1>3, <1>5, RegistryKept
<1> QED
  BY <1>1, <1>4, <1>5

\* An update of one group that keeps its accounts.
LEMMA GroupKept ==
  ASSUME Control, Kept, NEW p \in Procs, NEW id \in Ids, NEW w, NEW h, NEW o, NEW S,
         Update(p, [groups EXCEPT ![id] = w], h, [op EXCEPT ![p] = o]),
         o.at \notin {"register"} \cup Clearing,
         groups[id] = NoGroup \/ groupLock[id] = p,
         AddressesOf(groups, S) \cap (connected \cup {default} \cup cached) = {},
         \A i \in Indexes : groups[id].accounts[i] # "none" /\ <<id, i>> \notin S =>
           w.accounts[i] # "none" /\ w.wallet = groups[id].wallet,
         w.lifecycle = "active" =>
           \/ groups[id].lifecycle = "active" /\ w.wallet = groups[id].wallet
           \/ HasSecret([groups EXCEPT ![id] = w], id)
  PROVE  Kept'
<1> DEFINE g == [groups EXCEPT ![id] = w]
<1>1. g[id] = w /\ \A other \in Ids \ {id} : g[other] = groups[other]
  BY ControlFacts DEF TypeOK
<1> HIDE DEF g
<1>2. ASSUME NEW x \in Accounts(groups) \ S
      PROVE  x \in Accounts(g) /\ g[x[1]].wallet = groups[x[1]].wallet
  <2>1. x[1] \in Ids /\ x[2] \in Indexes /\ x = <<x[1], x[2]>> /\ groups[x[1]].accounts[x[2]] # "none"
        /\ x \in Ids \X Indexes
    BY <1>2 DEF Accounts
  <2>2. CASE x[1] = id
    <3>1. <<id, x[2]>> \notin S
      BY <1>2, <2>1, <2>2
    <3> QED
      BY <1>1, <2>1, <2>2, <3>1 DEF Accounts
  <2>3. CASE x[1] # id
    BY <1>1, <2>1, <2>3 DEF Accounts
  <2> QED
    BY <2>2, <2>3
<1>3. \A other \in Ids : g[other] = groups[other] \/ groups[other] = NoGroup \/ groupLock[other] = p
  BY <1>1
<1>4. \A other \in Ids : g[other].lifecycle = "active" =>
        \/ groups[other].lifecycle = "active" /\ g[other].wallet = groups[other].wallet
        \/ HasSecret(g, other)
  BY <1>1 DEF g
<1>5. Update(p, g, h, [op EXCEPT ![p] = o])
  BY DEF g
<1> QED
  BY <1>2, <1>3, <1>4, <1>5, UpdateKept

LEMMA RegisterKept ==
  ASSUME Control, Kept, NEW p \in Procs, Register(p)
  PROVE  Kept'
<1>1. op[p].at = "register" /\ op[p].kind = "import" /\ p = App /\ op[p].id \in Ids
  BY ControlFacts DEF Register, InStep, OnPath, RemovalSteps, LateSteps, Failures
<1>2. op[p].wallet \in Wallet /\ groups[op[p].id] = NoGroup
  BY <1>1 DEF Control, Importing
<1>3. CASE Contains(groups, FirstOf(op[p].wallet))
  <2>1. Skip(p, "thrown") /\ "thrown" \in Steps \ ({"register"} \cup Clearing)
    BY <1>3 DEF Register, Steps, Clearing
  <2> QED
    BY <2>1, SkipKept
<1>4. CASE ~Contains(groups, FirstOf(op[p].wallet))
  <2> DEFINE w == NewGroup(op[p].wallet)
             s == IF hasWallet THEN Imported(p) ELSE "select"
             o == [op[p] EXCEPT !.inserted = FALSE, !.kind = "imported", !.at = s]
  <2>1. s \in {"select", "discover", "returned"}
    BY DEF Imported
  <2>2. Update(p, [groups EXCEPT ![op[p].id] = w], home,
               [op EXCEPT ![p].inserted = FALSE, ![p].kind = "imported", ![p].at = s])
    BY <1>4 DEF Register
  <2> HIDE DEF s, w
  <2>3. [op EXCEPT ![p].inserted = FALSE, ![p].kind = "imported", ![p].at = s] = [op EXCEPT ![p] = o]
    BY ControlFacts
  <2>4. o.at = s
    BY ControlFacts DEF Operation
  <2>5. Update(p, [groups EXCEPT ![op[p].id] = w], home, [op EXCEPT ![p] = o])
    BY <2>2, <2>3
  <2> HIDE DEF o
  <2>6. HasSecret([groups EXCEPT ![op[p].id] = w], op[p].id)
    <3>1. [groups EXCEPT ![op[p].id] = w][op[p].id].wallet = op[p].wallet
      BY <1>1, <1>2, NewGroupIs, ControlFacts DEF w, TypeOK
    <3>2. Saved
      BY DEF Kept
    <3> QED
      BY <1>1, <3>1, <3>2 DEF Saved, HasSecret
  <2>7. \A i \in Indexes : groups[op[p].id].accounts[i] = "none"
    BY <1>2 DEF NoGroup
  <2>8. AddressesOf(groups, {}) \cap (connected \cup {default} \cup cached) = {}
    BY DEF AddressesOf
  <2>9. o.at \notin {"register"} \cup Clearing
    BY <2>1, <2>4 DEF Clearing
  <2> QED
    BY <1>1, <1>2, <2>5, <2>6, <2>7, <2>8, <2>9, GroupKept
<1> QED
  BY <1>3, <1>4

LEMMA AtIs ==
  ASSUME Control, NEW p \in Procs, NEW s \in Steps
  PROVE  \E o \in Operation : At(p, s) = [op EXCEPT ![p] = o] /\ o.at = s
<1> DEFINE o == [op[p] EXCEPT !.at = s]
<1>1. o \in Operation /\ o.at = s
  BY ControlFacts DEF Operation
<1>2. At(p, s) = [op EXCEPT ![p] = o]
  BY DEF At
<1> QED
  BY <1>1, <1>2

LEMMA NothingLost == AddressesOf(groups, {}) \cap (connected \cup {default} \cup cached) = {}
  BY DEF AddressesOf

LEMMA SelectKept ==
  ASSUME Control, Kept, NEW p \in Procs, Select(p)
  PROVE  Kept'
<1>1. PICK s \in {"thrown", "discover", "returned"} :
        Skip(p, s) \/ \E h : Update(p, groups, h, At(p, s))
  BY DEF Select, Imported
<1>2. s \in Steps \ ({"register"} \cup Clearing)
  BY DEF Steps, Clearing
<1>3. PICK o \in Operation : At(p, s) = [op EXCEPT ![p] = o] /\ o.at = s
  BY <1>2, AtIs
<1>4. CASE Skip(p, s)
  BY <1>2, <1>4, SkipKept
<1>5. CASE \E h : Update(p, groups, h, At(p, s))
  <2>1. PICK h : Update(p, groups, h, [op EXCEPT ![p] = o])
    BY <1>3, <1>5
  <2>2. o.at \notin {"register"} \cup Clearing
    BY <1>2, <1>3
  <2> QED
    BY <2>1, <2>2, NothingLost, UpdateKept
<1> QED
  BY <1>1, <1>4, <1>5

LEMMA DeriveKept ==
  ASSUME Control, Kept, NEW p \in Procs, Derive(p)
  PROVE  Kept'
<1> DEFINE w == groups[op[p].id]
           n == AddAccounts(w, op[p].pick)
<1>1. op[p].at = "derive" /\ op[p].kind = "derive" /\ op[p].id \in Ids
  BY ControlFacts DEF Derive, InStep, OnPath, RemovalSteps, LateSteps, Failures
<1>2. groupLock[op[p].id] = p /\ op[p].pick # {}
  BY <1>1, ControlFacts DEF HoldsGroup, Picks
<1>3. w \in Group /\ op[p].pick \in SUBSET Indexes
  BY <1>1, ControlFacts DEF Operation
<1>4. /\ n.wallet = w.wallet /\ n.lifecycle = w.lifecycle
      /\ \A i \in Indexes : n.accounts[i] = IF i \in op[p].pick THEN "active" ELSE w.accounts[i]
  BY <1>2, <1>3, AddAccountsIs
<1>5. {"thrown", "returned"} \subseteq Steps \ ({"register"} \cup Clearing)
  BY DEF Steps, Clearing
<1>6. CASE Skip(p, "thrown")
  BY <1>5, <1>6, SkipKept
<1>7. CASE Update(p, [groups EXCEPT ![op[p].id] = n], home, At(p, "returned"))
  <2>1. PICK o \in Operation : At(p, "returned") = [op EXCEPT ![p] = o] /\ o.at = "returned"
    BY <1>5, AtIs
  <2>2. Update(p, [groups EXCEPT ![op[p].id] = n], home, [op EXCEPT ![p] = o])
    BY <1>7, <2>1
  <2>3. o.at \notin {"register"} \cup Clearing
    BY <1>5, <2>1
  <2>4. \A i \in Indexes : w.accounts[i] # "none" => n.accounts[i] # "none"
    BY <1>4
  <2> HIDE DEF n
  <2> QED
    BY <1>1, <1>2, <1>4, <2>2, <2>3, <2>4, NothingLost, GroupKept
<1> QED
  BY <1>6, <1>7 DEF Derive

LEMMA BeginKept ==
  ASSUME Control, Kept, NEW p \in Procs, BeginGroupRemoval(p) \/ BeginAccountRemoval(p)
  PROVE  Kept'
<1> DEFINE w == groups[op[p].id]
<1>1. op[p].at = "begin"
  BY DEF BeginGroupRemoval, BeginAccountRemoval
<1>2. /\ op[p].id \in Ids /\ groupLock[op[p].id] = p /\ w \in Group /\ op[p].pick \in SUBSET Indexes
  BY <1>1, AtWork
<1>3. {"thrown", "returned", "terminalize"} \subseteq Steps \ ({"register"} \cup Clearing)
  BY DEF Steps, Clearing
<1>4. PICK s \in {"thrown", "returned", "terminalize"}, pick \in {{}, op[p].pick} :
        \/ Skip(p, s)
        \/ /\ w.lifecycle = "active"
           /\ Update(p, [groups EXCEPT ![op[p].id] = MarkDeleting(w, pick)], Survivor(p), At(p, s))
  <2>1. CASE BeginGroupRemoval(p)
    BY <2>1 DEF BeginGroupRemoval
  <2>2. CASE BeginAccountRemoval(p)
    BY <2>2 DEF BeginAccountRemoval
  <2> QED
    BY <2>1, <2>2
<1>5. CASE Skip(p, s)
  BY <1>3, <1>5, SkipKept
<1> DEFINE n == MarkDeleting(w, pick)
<1>6. CASE w.lifecycle = "active" /\ Update(p, [groups EXCEPT ![op[p].id] = n], Survivor(p), At(p, s))
  <2>1. PICK o \in Operation : At(p, s) = [op EXCEPT ![p] = o] /\ o.at = s
    BY <1>3, AtIs
  <2>2. Update(p, [groups EXCEPT ![op[p].id] = n], Survivor(p), [op EXCEPT ![p] = o])
    BY <1>6, <2>1
  <2>3. o.at \notin {"register"} \cup Clearing
    BY <1>3, <2>1
  <2>4. pick \in SUBSET Indexes
    BY <1>2
  <2>5. /\ n.wallet = w.wallet
        /\ \A i \in Indexes : w.accounts[i] # "none" => n.accounts[i] # "none"
    <3>1. CASE pick = {}
      BY <1>2, <2>4, <3>1, MarkDeletingIs
    <3>2. CASE pick # {}
      BY <1>2, <2>4, <3>2, MarkDeletingIs
    <3> QED
      BY <3>1, <3>2
  <2> HIDE DEF n
  <2> QED
    BY <1>2, <1>6, <2>2, <2>3, <2>5, NothingLost, GroupKept
<1> QED
  BY <1>4, <1>5, <1>6

LEMMA FinishKept ==
  ASSUME Control, Kept, NEW p \in Procs, FinishRemoval(p)
  PROVE  Kept'
<1> DEFINE w == groups[op[p].id]
           n == IF Whole(p) THEN NoGroup ELSE Without(w, op[p].pick)
<1>1. /\ op[p].at = "finish" /\ op[p].at \in LateSteps
      /\ Update(p, [groups EXCEPT ![op[p].id] = n], home, At(p, "returned"))
  BY FinishIs DEF LateSteps
<1>2. /\ op[p].id \in Ids /\ groupLock[op[p].id] = p /\ w \in Group /\ op[p].pick \in SUBSET Indexes
  BY <1>1, AtWork
<1>3. "returned" \in Steps \ ({"register"} \cup Clearing)
  BY DEF Steps, Clearing
<1>4. PICK o \in Operation : At(p, "returned") = [op EXCEPT ![p] = o] /\ o.at = "returned"
  BY <1>3, AtIs
<1>5. AddressesOf(groups, Removed(p)) \cap (connected \cup {default} \cup cached) = {}
  BY <1>1 DEF Kept, Cleared, Leaving
<1>6. ASSUME NEW i \in Indexes, w.accounts[i] # "none", <<op[p].id, i>> \notin Removed(p)
      PROVE  n.accounts[i] # "none" /\ n.wallet = w.wallet
  <2>1. <<op[p].id, i>> \in AccountsIn(groups, op[p].id)
    BY <1>2, <1>6 DEF AccountsIn, Accounts
  <2>2. ~Whole(p) /\ i \notin op[p].pick
    BY <1>6, <2>1 DEF Removed
  <2> QED
    BY <1>2, <1>6, <2>2, WithoutIs
<1>7. n.lifecycle = "active" => w.lifecycle = "active" /\ n.wallet = w.wallet
  BY <1>2, WithoutIs, NoGroupTyped
<1>8. Update(p, [groups EXCEPT ![op[p].id] = n], home, [op EXCEPT ![p] = o])
  BY <1>1, <1>4
<1>9. o.at \notin {"register"} \cup Clearing
  BY <1>3, <1>4
<1> HIDE DEF n
<1> QED
  BY <1>2, <1>5, <1>6, <1>7, <1>8, <1>9, GroupKept

LEMMA TerminalizeKept ==
  ASSUME Control, Kept, NEW p \in Procs, Terminalize(p)
  PROVE  Kept'
<1>1. PICK s \in {"secret", "connections"} :
        Skip(p, s) /\ (s = "secret" <=> Whole(p))
  BY DEF Terminalize
<1>2. s \in Steps
  BY DEF Steps
<1>3. /\ OthersWait(p) /\ UNCHANGED <<registry, secrets, accountState>> /\ groups' = groups
      /\ unregistered \subseteq unregistered'
      /\ op'[p].at = s /\ op'[p].id = op[p].id /\ op'[p].pick = op[p].pick
  BY <1>1, <1>2, SkipIs
<1>4. Whole(p)' = Whole(p)
  BY <1>3 DEF Whole
<1>5. Cleared(p)'
  BY <1>1, <1>3, <1>4 DEF Cleared
<1>6. Saved'
  <2>1. CASE p = App
    BY <1>3, <2>1 DEF Saved
  <2>2. CASE p # App
    BY <1>3, <2>2, ControlFacts DEF OthersWait, secrets, Kept, Saved
  <2> QED
    BY <2>1, <2>2
<1> QED
  BY <1>3, <1>5, <1>6, QuietKept

\* A private key has one group.
LEMMA OneKey ==
  ASSUME Control, NEW id \in Ids, NEW other \in Ids,
         groups[id].wallet.kind = "privateKey", groups[other].wallet.kind = "privateKey",
         groups[id].wallet.root = groups[other].wallet.root
  PROVE  id = other
<1>1. \A n \in {id, other} : groups[n] # NoGroup
  BY DEF NoGroup, NoWallet
<1>2. \A n \in {id, other} : groups[n].accounts[0] = "active"
  BY <1>1 DEF Control, Valid, ValidGroup
<1>3. <<id, 0>> \in Accounts(groups) /\ <<other, 0>> \in Accounts(groups)
  BY <1>2, IndexFacts DEF Accounts
<1>4. Address(groups, <<id, 0>>) = Address(groups, <<other, 0>>)
  BY DEF Address
<1>5. <<id, 0>> = <<other, 0>>
  BY <1>3, <1>4, OneAccount DEF Control
<1> QED
  BY <1>5

LEMMA DeleteSecretKept ==
  ASSUME Control, Kept, NEW p \in Procs, DeleteSecret(p)
  PROVE  Kept'
<1> DEFINE w == groups[op[p].id]
<1>1. /\ op[p].at = "secret" /\ op[p].at \in LateSteps /\ op' = At(p, "connections")
      /\ seeds' = seeds \ {op[p].id}
      /\ keys' = IF w.wallet.kind = "privateKey" THEN keys \ {w.wallet.root} ELSE keys
      /\ UNCHANGED <<registry, accountState, claims, unregistered>>
  BY DEF DeleteSecret, LateSteps, counters
<1>2. Whole(p) /\ w.lifecycle = "deleting" /\ op[p].id \in Ids
  BY <1>1, AtWork, ControlFacts DEF Kept, Cleared, Begun
<1>3. /\ op'[p].at = "connections" /\ op'[p].id = op[p].id /\ op'[p].pick = op[p].pick
      /\ \A q \in Procs \ {p} : op'[q] = op[q]
  BY <1>1, StepIs, ControlFacts DEF Steps
<1>4. OthersWait(p)
  BY <1>1, <1>3, LocksStay, ControlFacts
<1>5. groups' = groups /\ connected' = connected /\ default' = default /\ cached' = cached
  BY <1>1 DEF registry, accountState
<1>6. \A q \in Procs \ {p} : Cleared(q)'
  BY <1>1, <1>4, <1>5, OthersCleared
<1>7. NoSecret(op[p].id)'
  BY <1>1, <1>3, <1>5 DEF NoSecret
<1>8. Cleared(p)'
  BY <1>3, <1>7 DEF Cleared
<1>9. Owned'
  BY <1>5 DEF Kept, Owned
<1>10. ASSUME NEW id \in Ids \ unregistered', groups[id].lifecycle = "active"
       PROVE  HasSecret(groups, id)'
  <2>1. HasSecret(groups, id) /\ id # op[p].id /\ id \in Ids
    BY <1>1, <1>2, <1>10 DEF Kept, HasKeys
  <2>2. groups[id].wallet.kind = "privateKey" /\ w.wallet.kind = "privateKey" =>
          groups[id].wallet.root # w.wallet.root
    BY <1>2, <2>1, OneKey
  <2> QED
    BY <1>1, <1>5, <2>1, <2>2 DEF HasSecret
<1>11. HasKeys'
  BY <1>5, <1>10 DEF HasKeys
<1>12. Saved'
  <2>1. CASE p = App
    BY <1>3, <2>1 DEF Saved
  <2>2. ASSUME p # App, op[App].at = "register" PROVE Saved'
    <3>1. op[App].kind = "import"
      BY <2>2, ControlFacts DEF InStep, OnPath, RemovalSteps, LateSteps, Failures
    <3>2. /\ op'[App] = op[App] /\ op[App].wallet \in Wallet /\ groups[op[App].id] = NoGroup
          /\ \A id \in Ids \ {op[App].id} : groups[id].wallet # op[App].wallet
      BY <1>3, <2>2, <3>1, ControlFacts DEF Control, Importing
    <3>3. op[p].id # op[App].id /\ w.wallet \in Wallet
      BY <1>2, <3>2, NoGroupTyped, Registered
    <3>4. w.wallet # op[App].wallet
      BY <1>2, <3>2, <3>3
    <3>5. w.wallet.kind = "privateKey" /\ op[App].wallet.kind = "privateKey" =>
            w.wallet.root # op[App].wallet.root
      BY <3>2, <3>3, <3>4, SameWallet
    <3> QED
      BY <1>1, <2>2, <3>2, <3>3, <3>5 DEF Kept, Saved
  <2>3. CASE p # App /\ op[App].at # "register"
    BY <1>3, <2>3, ControlFacts DEF Saved
  <2> QED
    BY <2>1, <2>2, <2>3
<1> QED
  BY <1>6, <1>8, <1>9, <1>11, <1>12 DEF Kept

\* A step of a removal that takes connections or balances away.
LEMMA StoresKept ==
  ASSUME Control, Kept, NEW p \in Procs, NEW s \in {"balances", "finish"}, op' = At(p, s),
         UNCHANGED <<registry, secrets, claims, unregistered>>, Owned', Cleared(p)',
         connected' \cup {default'} \subseteq
           connected \cup {default, NoAddress} \cup AddressesOf(groups, Active(groups)),
         cached' \subseteq cached \cup AddressesOf(groups, Active(groups))
  PROVE  Kept'
<1>1. groups' = groups /\ seeds' = seeds /\ keys' = keys
  BY DEF registry, secrets
<1>2. op'[p].at = s /\ \A q \in Procs \ {p} : op'[q] = op[q]
  BY StepIs, ControlFacts DEF Steps
<1>3. OthersWait(p)
  BY <1>2, LocksStay, ControlFacts
<1>4. \A q \in Procs \ {p} : Cleared(q)'
  BY <1>1, <1>3, OthersCleared
<1>5. HasKeys'
  BY <1>1 DEF Kept, HasKeys, HasSecret
<1>6. Saved'
  <2>1. CASE p = App
    BY <1>2, <2>1 DEF Saved
  <2>2. CASE p # App
    BY <1>1, <1>2, <2>2, ControlFacts DEF Kept, Saved
  <2> QED
    BY <2>1, <2>2
<1> QED
  BY <1>4, <1>5, <1>6 DEF Kept

LEMMA RemoveConnectionsKept ==
  ASSUME Control, Kept, NEW p \in Procs, RemoveConnections(p)
  PROVE  Kept'
<1> DEFINE gone == AddressesOf(groups, Removed(p))
           newDefault == IF default \in gone THEN SurvivingDefault ELSE default
           left == (connected \ gone) \cup ({newDefault} \ {NoAddress})
<1>1. op[p].at = "connections" /\ op[p].at \in LateSteps
  BY DEF RemoveConnections, LateSteps
<1>2. CASE Skip(p, "thrown")
  BY <1>2, SkipKept DEF Steps, Clearing
<1>3. ASSUME ~Skip(p, "thrown") PROVE Kept'
  <2>1. /\ left \subseteq AddressesOf(groups, Eligible(groups))
        /\ connected' = connected \ gone /\ default' = newDefault /\ op' = At(p, "balances")
        /\ UNCHANGED <<registry, secrets, cached, claims, unregistered>>
    BY <1>3 DEF RemoveConnections, counters
  <2>2. groups' = groups /\ cached' = cached
    BY <2>1 DEF registry
  <2>3. gone \cap AddressesOf(groups, Active(groups)) = {} /\ gone \subseteq Addresses
    BY <1>1, LeavingIsInactive DEF Leaving
  <2>4. AddressesOf(groups, Eligible(groups)) \subseteq AddressesOf(groups, Active(groups))
    BY DEF AddressesOf, Eligible
  <2>5. newDefault \in AddressesOf(groups, Active(groups)) \cup {NoAddress}
    BY <2>1, <2>4
  <2>6. connected' \cup {default'} \subseteq
          connected \cup {default, NoAddress} \cup AddressesOf(groups, Active(groups))
    BY <2>1, <2>5
  <2>7. gone \cap (connected' \cup {default'}) = {}
    BY <2>1, <2>3, <2>5, AddressAssumption
  <2>8. /\ op'[p].at = "balances" /\ op'[p].id = op[p].id /\ op'[p].pick = op[p].pick
    BY <2>1, StepIs, ControlFacts DEF Steps
  <2>9. Whole(p)' = Whole(p) /\ Leaving(p)' = gone
    BY <2>2, <2>8 DEF Whole, Leaving, Removed
  <2>10. NoSecret(op[p].id)' = NoSecret(op[p].id)
    BY <2>1, <2>2, <2>8 DEF NoSecret, secrets
  <2>11. Cleared(p)'
    BY <1>1, <2>7, <2>8, <2>9, <2>10 DEF Kept, Cleared
  <2>12. AddressesOf(groups, Eligible(groups)) \subseteq
           AddressesOf(groups, {x \in Accounts(groups) : groups[x[1]].wallet.kind # "watchOnly"})
    BY DEF AddressesOf, Eligible, Active
  <2>13. connected' \cup ({default'} \ {NoAddress}) \subseteq
           AddressesOf(groups', {x \in Accounts(groups') : groups'[x[1]].wallet.kind # "watchOnly"})
    BY <2>1, <2>2, <2>12
  <2>14. Owned'
    BY <2>2, <2>13 DEF Kept, Owned
  <2> HIDE DEF gone, newDefault, left
  <2> QED
    BY <2>1, <2>2, <2>6, <2>11, <2>14, StoresKept
<1> QED
  BY <1>2, <1>3

LEMMA RemoveBalancesKept ==
  ASSUME Control, Kept, NEW p \in Procs, RemoveBalances(p)
  PROVE  Kept'
<1>1. /\ op[p].at = "balances" /\ cached' = cached \ Leaving(p) /\ op' = At(p, "finish")
      /\ connected' = connected /\ default' = default
      /\ UNCHANGED <<registry, secrets, claims, unregistered>>
  BY DEF RemoveBalances, Leaving, counters
<1>2. groups' = groups
  BY <1>1 DEF registry
<1>3. op'[p].at = "finish" /\ op'[p].id = op[p].id /\ op'[p].pick = op[p].pick
  BY <1>1, StepIs, ControlFacts DEF Steps
<1>4. Whole(p)' = Whole(p) /\ Leaving(p)' = Leaving(p)
  BY <1>2, <1>3 DEF Whole, Leaving, Removed
<1>5. NoSecret(op[p].id)' = NoSecret(op[p].id)
  BY <1>1, <1>2, <1>3 DEF NoSecret, secrets
<1>6. Cleared(p)'
  BY <1>1, <1>3, <1>4, <1>5 DEF Kept, Cleared
<1>7. Owned'
  BY <1>1, <1>2 DEF Kept, Owned
<1> QED
  BY <1>1, <1>6, <1>7, StoresKept

LEMMA OutsideKept ==
  ASSUME Control, Kept, NEW a \in Addresses, Connect(a) \/ StoreBalance(a)
  PROVE  Kept'
<1>1. /\ op' = op /\ groups' = groups /\ seeds' = seeds /\ keys' = keys
      /\ unregistered' = unregistered
  BY DEF Connect, StoreBalance, registry, secrets, counters
<1>2. /\ a \in AddressesOf(groups, Active(groups))
      /\ connected' \subseteq connected \cup {a} /\ default' \in {default, a}
      /\ cached' \subseteq cached \cup {a}
      /\ connected' \cup {default'} # connected \cup {default} =>
           a \in AddressesOf(groups, Eligible(groups))
  BY DEF Connect, StoreBalance, AddressesOf, Eligible
<1>3. Saved' /\ HasKeys'
  BY <1>1 DEF Kept, Saved, HasKeys, HasSecret
<1>4. Owned'
  <2>1. /\ AddressesOf(groups, Eligible(groups)) \subseteq
             AddressesOf(groups, {x \in Accounts(groups) : groups[x[1]].wallet.kind # "watchOnly"})
        /\ AddressesOf(groups, Active(groups)) \subseteq AddressesOf(groups, Accounts(groups))
    BY DEF AddressesOf, Eligible, Active
  <2>2. connected' \cup ({default'} \ {NoAddress}) \subseteq
          AddressesOf(groups, {x \in Accounts(groups) : groups[x[1]].wallet.kind # "watchOnly"})
    <3>1. CASE Connect(a)
      BY <2>1, <3>1 DEF Connect, Kept, Owned
    <3>2. CASE StoreBalance(a)
      BY <3>2 DEF StoreBalance, Kept, Owned
    <3> QED
      BY <3>1, <3>2
  <2>3. cached' \subseteq AddressesOf(groups, Accounts(groups))
    BY <1>2, <2>1 DEF Kept, Owned
  <2> QED
    BY <1>1, <2>2, <2>3 DEF Owned
<1>5. ASSUME NEW q \in Procs PROVE Cleared(q)'
  <2>1. /\ op'[q] = op[q] /\ Cleared(q) /\ Whole(q)' = Whole(q) /\ Leaving(q)' = Leaving(q)
        /\ NoSecret(op[q].id)' = NoSecret(op[q].id)
    BY <1>1 DEF Kept, Whole, Leaving, Removed, NoSecret
  <2>2. op[q].at \in LateSteps => a \notin Leaving(q)
    BY <1>2, LeavingIsInactive
  <2> QED
    BY <1>1, <1>2, <2>1, <2>2 DEF Cleared, LateSteps
<1> QED
  BY <1>3, <1>4, <1>5 DEF Kept

LEMMA NextKept == ASSUME Control, Kept, Next PROVE Kept'
<1>1. ASSUME NEW p \in Procs, FreeStepOf(p) PROVE Kept'
  BY <1>1, FreeSteps, FreeKept
<1>2. ASSUME Start PROVE Kept'
  <2>1. ASSUME NEW w \in Wallet, StartImport(w) PROVE Kept'
    BY <2>1, StartImportKept
  <2>2. (\E w \in Wallet : StartImport(w)) \/ FreeStepOf(App) \/ \E p \in Extensions : FreeStepOf(p)
    BY <1>2 DEF Start, FreeStepOf
  <2> QED
    BY <1>1, <2>1, <2>2, ControlFacts DEF Procs
<1>3. ASSUME NEW p \in Procs, Wait(p) \/ Fail(p) \/ Crash(p) PROVE Kept'
  <2>1. ClaimGroup(p) \/ ClaimAdoption(p) \/ Fail(p) \/ Crash(p)
    BY <1>3 DEF Wait
  <2>2. FreeStepOf(p)
    BY <2>1 DEF FreeStepOf
  <2> QED
    BY <1>1, <2>2
<1>4. ASSUME NEW p \in Procs, Continue(p) PROVE Kept'
  BY <1>1, <1>4, DiscardKept, SaveSecretKept, RegisterKept, SelectKept, DeriveKept, BeginKept,
     TerminalizeKept, DeleteSecretKept, RemoveConnectionsKept, RemoveBalancesKept, FinishKept
     DEF Continue, FreeStepOf
<1>5. ASSUME Relaunch PROVE Kept'
  BY <1>1, <1>5, ControlFacts DEF FreeStepOf
<1> QED
  BY <1>2, <1>3, <1>4, <1>5, OutsideKept DEF Next

LEMMA InitKept == ASSUME Init PROVE Kept
<1>1. /\ groups = [id \in Ids |-> NoGroup] /\ connected = {} /\ default = NoAddress /\ cached = {}
      /\ op = [p \in Procs |-> IF p = App THEN Adopting ELSE Idle]
  BY DEF Init
<1>2. \A p \in Procs : op[p].at \in {"enter", "idle"}
  BY <1>1, IdleIs
<1>3. \A p \in Procs : Cleared(p)
  BY <1>2 DEF Cleared
<1>4. Saved
  BY <1>2 DEF Saved, Procs
<1>5. HasKeys
  BY <1>1, NoGroupTyped DEF HasKeys
<1>6. Owned
  BY <1>1 DEF Owned
<1> QED
  BY <1>3, <1>4, <1>5, <1>6 DEF Kept

LEMMA VarsAre ==
  ASSUME UNCHANGED vars
  PROVE  /\ UNCHANGED <<groups, home, keys, seeds, connected, default, cached>>
         /\ UNCHANGED <<groupLock, adoptLock, shown, hasWallet, created, faults, op, unregistered>>
         /\ UNCHANGED <<registry, secrets, accountState, claims>>
  BY DEF vars, registry, secrets, accountState, claims, view, counters

LEMMA KeptHolds == Spec => []Kept
<1>1. Init => Kept
  BY InitKept
<1>2. Control /\ Kept /\ [Next]_vars => Kept'
  <2>1. ASSUME Control, Kept, UNCHANGED vars PROVE Kept'
    BY <2>1, VarsAre DEF Kept, Saved, HasKeys, HasSecret, Owned, Cleared, Leaving, Removed, Whole,
       NoSecret
  <2> QED
    BY <2>1, NextKept
<1> QED
  BY <1>1, <1>2, ControlHolds, PTL DEF Spec

\* With no removal unfinished, what is stored passes the validation of every later adoption
\* (WalletRegistryAdoption.swift).
THEOREM StoredStateIsAdopted == Spec => []AdoptionAccepts
<1>1. ASSUME Control, Kept PROVE AdoptionAccepts
  <2>1. ASSUME RemovalsPending = {}, NEW x \in Accounts(groups) PROVE x \in Active(groups)
    <3>1. /\ x[1] \in Ids /\ x[2] \in Indexes /\ groups[x[1]] \in Group
          /\ groups[x[1]] # NoGroup /\ groups[x[1]].accounts[x[2]] # "none"
      BY AccountsAreRegistered, AccountIs, <1>1, <2>1, ControlFacts
    <3>2. groups[x[1]].lifecycle # "deleting"
      <4> DEFINE S == {id \in Ids : groups[id].lifecycle = "deleting"}
      <4>1. S \X {-1} \subseteq RemovalsPending
        BY DEF RemovalsPending
      <4>2. ASSUME x[1] \in S PROVE <<x[1], -1>> \in S \X {-1}
        BY <4>2
      <4>3. x[1] \notin S
        BY <2>1, <4>1, <4>2
      <4> QED
        BY <3>1, <4>3
    <3>3. groups[x[1]].accounts[x[2]] # "deleting"
      BY <2>1 DEF RemovalsPending
    <3>4. groups[x[1]].lifecycle # "none"
      BY <1>1, <3>1 DEF Control, Formed
    <3> QED
      BY <2>1, <3>1, <3>2, <3>3, <3>4 DEF Active, Group
  <2>2. RemovalsPending = {} =>
          {x \in Accounts(groups) : groups[x[1]].wallet.kind # "watchOnly"} \subseteq Eligible(groups)
    BY <2>1 DEF Eligible
  <2>3. RemovalsPending = {} =>
          AddressesOf(groups, {x \in Accounts(groups) : groups[x[1]].wallet.kind # "watchOnly"})
            \subseteq AddressesOf(groups, Eligible(groups))
    BY <2>2 DEF AddressesOf
  <2> QED
    BY <1>1, <2>3 DEF Kept, HasKeys, Owned, AdoptionAccepts
<1> QED
  BY <1>1, ControlHolds, KeptHolds, PTL

\* What an update does to the groups and to the selected address.
LEMMA UpdateGoes ==
  ASSUME Control, NEW p \in Procs, NEW g, NEW h, NEW continued, Update(p, g, h, continued)
  PROVE  /\ connected' = connected
         /\ (groups' = g /\ home' = h) \/ (groups' = groups /\ home' = home)
  BY UpdateIs, ControlFacts DEF accountState

LEMMA NoneSelected ==
  ASSUME Control, NEW p \in Procs, home # NoAddress, Survivor(p) = NoAddress
  PROVE  Active(groups) \ Removed(p) = {}
<1>1. Active(groups) \ Removed(p) \subseteq Accounts(groups)
  BY DEF Active
<1>2. FirstAddress(groups, Active(groups) \ Removed(p)) = NoAddress
  BY DEF Survivor
<1> QED
  BY <1>1, <1>2, FirstAddressIs, ControlFacts

\* The beginning of a removal keeps every account, and makes those it removes inactive.
LEMMA MarkedGroup ==
  ASSUME Control, NEW p \in Procs, op[p].at = "begin", NEW pick \in {{}, op[p].pick},
         Whole(p) <=> pick = {}, groups[op[p].id].lifecycle = "active",
         groups' = [groups EXCEPT ![op[p].id] = MarkDeleting(groups[op[p].id], pick)]
  PROVE  /\ Accounts(groups) \subseteq Accounts(groups')
         /\ \A x \in Accounts(groups) : groups'[x[1]].wallet = groups[x[1]].wallet
         /\ Active(groups') \subseteq Active(groups) \ Removed(p)
<1> DEFINE id == op[p].id
           n == MarkDeleting(groups[id], pick)
<1>1. id \in Ids /\ groups[id] \in Group /\ pick \in SUBSET Indexes
  BY AtWork
<1>2. groups'[id] = n /\ \A other \in Ids \ {id} : groups'[other] = groups[other]
  BY <1>1, ControlFacts DEF TypeOK
<1>3. /\ n.wallet = groups[id].wallet
      /\ pick = {} => n.lifecycle = "deleting" /\ n.accounts = groups[id].accounts
      /\ pick # {} => /\ n.lifecycle = "active"
                      /\ \A i \in Indexes :
                           n.accounts[i] = IF i \in pick THEN "deleting" ELSE groups[id].accounts[i]
  BY <1>1, MarkDeletingIs
<1> HIDE DEF n
<1>4. ASSUME NEW x \in Accounts(groups)
      PROVE  x \in Accounts(groups') /\ groups'[x[1]].wallet = groups[x[1]].wallet
  <2>1. x \in Ids \X Indexes /\ x[1] \in Ids /\ x[2] \in Indexes
        /\ groups[x[1]].accounts[x[2]] # "none"
    BY <1>4 DEF Accounts
  <2>2. CASE x[1] = id
    <3>1. groups'[x[1]].accounts[x[2]] # "none"
      BY <1>2, <1>3, <2>1, <2>2
    <3> QED
      BY <1>2, <1>3, <2>1, <2>2, <3>1 DEF Accounts
  <2>3. CASE x[1] # id
    BY <1>2, <2>1, <2>3 DEF Accounts
  <2> QED
    BY <2>2, <2>3
<1>5. ASSUME NEW x \in Active(groups') PROVE x \in Active(groups) \ Removed(p)
  <2>1. x \in Ids \X Indexes /\ x[1] \in Ids /\ x[2] \in Indexes
        /\ groups'[x[1]].lifecycle = "active" /\ groups'[x[1]].accounts[x[2]] = "active"
    BY <1>5 DEF Active, Accounts
  <2>2. CASE x[1] = id
    <3>1. pick # {} /\ x[2] \notin pick
      BY <1>2, <1>3, <2>1, <2>2
    <3>2. groups[x[1]].accounts[x[2]] = "active"
      BY <1>2, <1>3, <2>1, <2>2, <3>1
    <3>3. x \notin Removed(p)
      BY <3>1 DEF Removed
    <3> QED
      BY <2>1, <2>2, <3>2, <3>3 DEF Active, Accounts
  <2>3. CASE x[1] # id
    BY <1>2, <2>1, <2>3 DEF Active, Accounts, Removed, AccountsIn
  <2> QED
    BY <2>2, <2>3
<1> QED
  BY <1>4, <1>5

LEMMA BeginIs ==
  ASSUME Control, NEW p \in Procs, BeginGroupRemoval(p) \/ BeginAccountRemoval(p)
  PROVE  \/ UNCHANGED <<registry, accountState>>
         \/ \E pick \in {{}, op[p].pick} :
              /\ op[p].at = "begin" /\ (Whole(p) <=> pick = {})
              /\ groups[op[p].id].lifecycle = "active"
              /\ Update(p, [groups EXCEPT ![op[p].id] = MarkDeleting(groups[op[p].id], pick)],
                        Survivor(p), At(p, "terminalize"))
<1>1. CASE BeginGroupRemoval(p)
  BY <1>1 DEF BeginGroupRemoval, Skip
<1>2. CASE BeginAccountRemoval(p)
  BY <1>2 DEF BeginAccountRemoval, Skip, Whole
<1> QED
  BY <1>1, <1>2

\* A step that is no end of a removal keeps every account, takes no active account's
\* connection, and leaves one selected.
Keeps ==
  /\ Accounts(groups) \subseteq Accounts(groups')
  /\ connected \subseteq connected'
  /\ home # NoAddress /\ home' = NoAddress => Active(groups') = {}

LEMMA UpdateKeeps ==
  ASSUME Control, NEW p \in Procs,
         Register(p) \/ Select(p) \/ Derive(p) \/ BeginGroupRemoval(p) \/ BeginAccountRemoval(p)
  PROVE  Keeps
<1>1. ASSUME UNCHANGED <<registry, accountState>> PROVE Keeps
  BY <1>1 DEF registry, accountState, Keeps
<1>2. ASSUME NEW s, Skip(p, s) PROVE Keeps
  BY <1>1, <1>2 DEF Skip
<1>3. ASSUME Register(p) PROVE Keeps
  <2>1. op[p].at = "register" /\ op[p].kind = "import" /\ p = App /\ op[p].id \in Ids
    BY <1>3, ControlFacts DEF Register, InStep, OnPath, RemovalSteps, LateSteps, Failures
  <2>2. groups[op[p].id] = NoGroup
    BY <2>1 DEF Control, Importing
  <2> DEFINE n == NewGroup(op[p].wallet)
  <2>3. PICK continued : Skip(p, "thrown") \/ Update(p, [groups EXCEPT ![op[p].id] = n], home, continued)
    BY <1>3 DEF Register
  <2> HIDE DEF n
  <2>4. CASE Update(p, [groups EXCEPT ![op[p].id] = n], home, continued)
    <3>1. connected' = connected /\ home' = home
      BY <2>4, UpdateGoes
    <3>2. \A other \in Ids \ {op[p].id} : groups'[other] = groups[other]
      <4>1. groups' = [groups EXCEPT ![op[p].id] = n] \/ groups' = groups
        BY <2>4, UpdateGoes
      <4> QED
        BY <2>1, <4>1, ControlFacts DEF TypeOK
    <3>3. \A x \in Accounts(groups) : x[1] # op[p].id
      BY <2>2 DEF Accounts, NoGroup
    <3>4. Accounts(groups) \subseteq Accounts(groups')
      BY <3>2, <3>3 DEF Accounts
    <3> QED
      BY <3>1, <3>4 DEF Keeps
  <2> QED
    BY <1>2, <2>3, <2>4
<1>4. ASSUME Select(p) PROVE Keeps
  <2> DEFINE x == <<op[p].id, IF op[p].kind = "imported" THEN 0 ELSE CHOOSE i \in op[p].pick : TRUE>>
  <2>1. PICK s, continued :
          Skip(p, s) \/ (x \in Active(groups) /\ Update(p, groups, Address(groups, x), continued))
    BY <1>4 DEF Select
  <2> HIDE DEF x
  <2>2. CASE x \in Active(groups) /\ Update(p, groups, Address(groups, x), continued)
    <3>1. Address(groups, x) # NoAddress
      BY <2>2, AccountIs, AccountsAreRegistered, ControlFacts, AddressAssumption
    <3>2. connected' = connected /\ groups' = groups /\ home' \in {home, Address(groups, x)}
      BY <2>2, UpdateGoes
    <3> QED
      BY <3>1, <3>2 DEF Keeps
  <2> QED
    BY <1>2, <2>1, <2>2
<1>5. ASSUME Derive(p) PROVE Keeps
  <2> DEFINE w == groups[op[p].id]
             n == AddAccounts(w, op[p].pick)
  <2>1. op[p].at = "derive" /\ op[p].kind = "derive" /\ op[p].id \in Ids
    BY <1>5, ControlFacts DEF Derive, InStep, OnPath, RemovalSteps, LateSteps, Failures
  <2>2. op[p].pick # {} /\ w \in Group /\ op[p].pick \in SUBSET Indexes
    BY <2>1, ControlFacts DEF Picks, Operation
  <2>3. \A i \in Indexes : w.accounts[i] # "none" => n.accounts[i] # "none"
    BY <2>2, AddAccountsIs
  <2>4. Skip(p, "thrown") \/ Update(p, [groups EXCEPT ![op[p].id] = n], home, At(p, "returned"))
    BY <1>5 DEF Derive
  <2> HIDE DEF n
  <2>5. CASE Update(p, [groups EXCEPT ![op[p].id] = n], home, At(p, "returned"))
    <3>1. connected' = connected /\ home' = home
      BY <2>5, UpdateGoes
    <3>2. /\ groups'[op[p].id] \in {w, n}
          /\ \A other \in Ids \ {op[p].id} : groups'[other] = groups[other]
      <4>1. groups' = [groups EXCEPT ![op[p].id] = n] \/ groups' = groups
        BY <2>5, UpdateGoes
      <4> QED
        BY <2>1, <4>1, ControlFacts DEF TypeOK
    <3>3. \A id \in Ids, i \in Indexes :
            groups[id].accounts[i] # "none" => groups'[id].accounts[i] # "none"
      BY <2>3, <3>2
    <3>4. Accounts(groups) \subseteq Accounts(groups')
      BY <3>3 DEF Accounts
    <3> QED
      BY <3>1, <3>4 DEF Keeps
  <2> QED
    BY <1>2, <2>4, <2>5
<1>6. ASSUME BeginGroupRemoval(p) \/ BeginAccountRemoval(p),
             NEW pick \in {{}, op[p].pick}, op[p].at = "begin", Whole(p) <=> pick = {},
             groups[op[p].id].lifecycle = "active",
             Update(p, [groups EXCEPT ![op[p].id] = MarkDeleting(groups[op[p].id], pick)],
                    Survivor(p), At(p, "terminalize"))
      PROVE  Keeps
  <2>1. CASE groups' = groups /\ home' = home
    BY <1>6, <2>1, UpdateGoes DEF Keeps
  <2>2. CASE /\ groups' = [groups EXCEPT ![op[p].id] = MarkDeleting(groups[op[p].id], pick)]
             /\ home' = Survivor(p)
    <3>1. /\ Accounts(groups) \subseteq Accounts(groups')
          /\ Active(groups') \subseteq Active(groups) \ Removed(p)
      BY <1>6, <2>2, MarkedGroup
    <3>2. home # NoAddress /\ home' = NoAddress => Active(groups') = {}
      BY <2>2, <3>1, NoneSelected
    <3> QED
      BY <1>6, <3>1, <3>2, UpdateGoes DEF Keeps
  <2> QED
    BY <1>6, <2>1, <2>2, UpdateGoes
<1>7. ASSUME BeginGroupRemoval(p) \/ BeginAccountRemoval(p) PROVE Keeps
  BY <1>1, <1>6, <1>7, BeginIs
<1> QED
  BY <1>3, <1>4, <1>5, <1>7

LEMMA StepsKeep ==
  ASSUME Control, Next, ~\E p \in Procs : RemoveConnections(p) \/ FinishRemoval(p)
  PROVE  Keeps
<1>1. ASSUME UNCHANGED registry, connected \subseteq connected' PROVE Keeps
  BY <1>1 DEF registry, Keeps
<1>2. ASSUME NEW p \in Procs, FreeStepOf(p) PROVE Keeps
  <2>1. UNCHANGED <<registry, accountState>>
    BY <1>2, FreeSteps
  <2> QED
    BY <1>1, <2>1 DEF accountState
<1>3. ASSUME NEW w \in Wallet, StartImport(w) PROVE Keeps
  BY <1>1, <1>3 DEF StartImport, accountState
<1>4. ASSUME NEW p \in Procs,
             Discard(p) \/ SaveSecret(p) \/ Terminalize(p) \/ DeleteSecret(p) \/ RemoveBalances(p)
      PROVE  Keeps
  <2>1. UNCHANGED registry /\ connected' = connected
    BY <1>4 DEF Discard, SaveSecret, Terminalize, Skip, DeleteSecret, RemoveBalances, accountState
  <2> QED
    BY <1>1, <2>1
<1>5. ASSUME NEW a \in Addresses, Connect(a) \/ StoreBalance(a) PROVE Keeps
  <2>1. UNCHANGED registry /\ connected \subseteq connected'
    BY <1>5 DEF Connect, StoreBalance
  <2> QED
    BY <1>1, <2>1
<1>6. ASSUME Start PROVE Keeps
  <2>1. (\E w \in Wallet : StartImport(w)) \/ FreeStepOf(App) \/ \E p \in Extensions : FreeStepOf(p)
    BY <1>6 DEF Start, FreeStepOf
  <2> QED
    BY <1>2, <1>3, <2>1, ControlFacts DEF Procs
<1>7. ASSUME NEW p \in Procs, Wait(p) \/ Fail(p) \/ Crash(p) PROVE Keeps
  <2>1. ClaimGroup(p) \/ ClaimAdoption(p) \/ Fail(p) \/ Crash(p)
    BY <1>7 DEF Wait
  <2>2. FreeStepOf(p)
    BY <2>1 DEF FreeStepOf
  <2> QED
    BY <1>2, <2>2
<1>8. ASSUME NEW p \in Procs, Continue(p) PROVE Keeps
  <2>1. ~RemoveConnections(p) /\ ~FinishRemoval(p)
    OBVIOUS
  <2>2. \/ FreeStepOf(p)
        \/ Discard(p) \/ SaveSecret(p) \/ Terminalize(p) \/ DeleteSecret(p) \/ RemoveBalances(p)
        \/ Register(p) \/ Select(p) \/ Derive(p) \/ BeginGroupRemoval(p) \/ BeginAccountRemoval(p)
    BY <1>8, <2>1 DEF Continue, FreeStepOf
  <2> QED
    BY <1>2, <1>4, <2>2, UpdateKeeps
<1>9. ASSUME Relaunch PROVE Keeps
  BY <1>2, <1>9, ControlFacts DEF FreeStepOf
<1> QED
  BY <1>5, <1>6, <1>7, <1>8, <1>9 DEF Next

\* The end of a removal.
LEMMA FinishGoes ==
  ASSUME Control, NEW p \in Procs, FinishRemoval(p)
  PROVE  /\ op[p].at = "finish" /\ op[p].at \in LateSteps /\ op[p].id \in Ids
         /\ connected' = connected /\ home' = home
         /\ \A x \in Accounts(groups) \ Accounts(groups') : x \in Removed(p) /\ x[1] = op[p].id
         /\ groups'[op[p].id] = NoGroup => Whole(p)
<1> DEFINE w == groups[op[p].id]
           n == IF Whole(p) THEN NoGroup ELSE Without(w, op[p].pick)
<1>1. /\ op[p].at = "finish" /\ op[p].at \in LateSteps
      /\ Update(p, [groups EXCEPT ![op[p].id] = n], home, At(p, "returned"))
  BY FinishIs DEF LateSteps
<1>2. /\ op[p].id \in Ids /\ w \in Group /\ op[p].pick \in SUBSET Indexes
  BY <1>1, AtWork
<1>3. w # NoGroup
  BY <1>1, <1>2, NoGroupTyped, ControlFacts DEF Begun
<1>4. ~Whole(p) => /\ n.wallet = w.wallet
                   /\ \A i \in Indexes : n.accounts[i] = IF i \in op[p].pick THEN "none" ELSE w.accounts[i]
  BY <1>2, WithoutIs
<1>5. w.wallet # NoWallet
  BY <1>1, <1>2, Registered, WalletKinds, ControlFacts DEF Begun
<1>6. n = NoGroup => Whole(p)
  BY <1>4, <1>5, NoGroupTyped
<1>7. /\ groups'[op[p].id] \in {w, n}
      /\ \A other \in Ids \ {op[p].id} : groups'[other] = groups[other]
  <2> HIDE DEF n
  <2>1. groups' = [groups EXCEPT ![op[p].id] = n] \/ groups' = groups
    BY <1>1, UpdateGoes
  <2> QED
    BY <1>2, <2>1, ControlFacts DEF TypeOK
<1>8. connected' = connected /\ home' = home
  BY <1>1, UpdateGoes
<1>9. ASSUME NEW x \in Accounts(groups), x \notin Accounts(groups') PROVE x \in Removed(p) /\ x[1] = op[p].id
  <2>1. /\ x \in Ids \X Indexes /\ x[1] \in Ids /\ x[2] \in Indexes
        /\ groups[x[1]].accounts[x[2]] # "none"
    BY <1>9 DEF Accounts
  <2>2. groups'[x[1]].accounts[x[2]] = "none"
    BY <1>9, <2>1 DEF Accounts
  <2>3. x[1] = op[p].id /\ groups'[op[p].id] = n
    BY <1>7, <2>1, <2>2
  <2>4. ~Whole(p) => x[2] \in op[p].pick
    BY <1>4, <2>1, <2>2, <2>3
  <2> QED
    BY <1>9, <2>3, <2>4 DEF Removed, AccountsIn
<1> QED
  BY <1>1, <1>2, <1>3, <1>6, <1>7, <1>8, <1>9

\* A group or an account leaves the registry only when its secret, its connection and its
\* balance are gone (finishGroupRemoval, WalletGroupManager.swift).
THEOREM NothingOfItIsLeft == Spec => RemovalLeavesNothing
<1> DEFINE Step == \A x \in Accounts(groups) \ Accounts(groups)' :
                     /\ Address(groups, x) \notin connected \cup {default} \cup cached
                     /\ groups'[x[1]] = NoGroup /\ groups[x[1]].wallet.kind # "watchOnly" =>
                          ~HasSecret(groups, x[1])
<1>1. ASSUME Control, Kept, Next, NEW x \in Accounts(groups) \ Accounts(groups')
      PROVE  /\ Address(groups, x) \notin connected \cup {default} \cup cached
             /\ groups'[x[1]] = NoGroup /\ groups[x[1]].wallet.kind # "watchOnly" =>
                  ~HasSecret(groups, x[1])
  <2>1. PICK p \in Procs : FinishRemoval(p)
    <3>1. ASSUME NEW p \in Procs, RemoveConnections(p) PROVE FALSE
      BY <1>1, <3>1 DEF RemoveConnections, Skip, registry
    <3> QED
      BY <1>1, <3>1, StepsKeep DEF Keeps
  <2>2. /\ op[p].at = "finish" /\ x \in Removed(p) /\ x[1] = op[p].id /\ Cleared(p)
        /\ groups'[op[p].id] = NoGroup => Whole(p)
    BY <1>1, <2>1, FinishGoes DEF Kept
  <2>3. Address(groups, x) \in Leaving(p)
    BY <2>2 DEF Leaving, AddressesOf
  <2>4. Address(groups, x) \notin connected \cup {default} \cup cached
    BY <2>2, <2>3 DEF Cleared
  <2>5. ASSUME groups'[x[1]] = NoGroup, groups[x[1]].wallet.kind # "watchOnly"
        PROVE  ~HasSecret(groups, x[1])
    <3>1. NoSecret(x[1])
      BY <2>2, <2>5 DEF Cleared
    <3>2. groups[x[1]].wallet \in Wallet
      BY <1>1, AccountsAreRegistered, ControlFacts
    <3>3. groups[x[1]].wallet.kind \in {"seed", "privateKey"}
      BY <2>5, <3>2, WalletKinds
    <3> QED
      BY <3>1, <3>3 DEF NoSecret, HasSecret
  <2> QED
    BY <2>4, <2>5
<1>2. ASSUME Control, Kept, Next PROVE Step
  BY <1>1, <1>2
<1>3. ASSUME UNCHANGED vars PROVE Step
  BY <1>3, VarsAre
<1>4. Control /\ Kept /\ [Next]_vars => [Step]_vars
  BY <1>2, <1>3
<1> QED
  BY <1>4, ControlHolds, KeptHolds, PTL DEF Spec, RemovalLeavesNothing

\* Forgetting one wallet leaves every other its secret and its connection, and one of them
\* selected (removeGroup and removeAccount, WalletGroupManager.swift).
THEOREM OthersAreLeftAlone == Spec => RemovalIsLocal
<1> DEFINE Step ==
      /\ \A id \in Ids \ unregistered' :
           groups'[id].lifecycle = "active" /\ groups[id].lifecycle = "active"
             /\ HasSecret(groups, id) => HasSecret(groups, id)'
      /\ (connected \ connected') \cap AddressesOf(groups, Active(groups)) = {}
      /\ home # NoAddress /\ home' = NoAddress => Active(groups)' = {}
<1>1. ASSUME Control, Kept, Next, Kept' PROVE Step
  <2>1. \A id \in Ids \ unregistered' : groups'[id].lifecycle = "active" => HasSecret(groups, id)'
    BY <1>1 DEF Kept, HasKeys
  <2>2. CASE \E p \in Procs : RemoveConnections(p)
    <3>1. PICK p \in Procs : RemoveConnections(p)
      BY <2>2
    <3>2. op[p].at \in LateSteps /\ connected \ connected' \subseteq Leaving(p)
      BY <3>1 DEF RemoveConnections, LateSteps, Leaving, Skip, accountState
    <3>3. home' = home
      BY <3>1 DEF RemoveConnections, Skip, registry
    <3>4. Leaving(p) \cap AddressesOf(groups, Active(groups)) = {}
      BY <1>1, <3>2, LeavingIsInactive
    <3> QED
      BY <2>1, <3>2, <3>3, <3>4
  <2>3. CASE \E p \in Procs : FinishRemoval(p)
    <3>1. connected' = connected /\ home' = home
      BY <1>1, <2>3, FinishGoes
    <3> QED
      BY <2>1, <3>1
  <2>4. CASE ~\E p \in Procs : RemoveConnections(p) \/ FinishRemoval(p)
    <3>1. Keeps
      BY <1>1, <2>4, StepsKeep
    <3> QED
      BY <2>1, <3>1 DEF Keeps
  <2> QED
    BY <2>2, <2>3, <2>4
<1>2. ASSUME UNCHANGED vars PROVE Step
  BY <1>2, VarsAre DEF HasSecret
<1>3. Control /\ Kept /\ Kept' /\ [Next]_vars => [Step]_vars
  BY <1>1, <1>2
<1> QED
  BY <1>3, ControlHolds, KeptHolds, PTL DEF Spec, RemovalIsLocal

-----------------------------------------------------------------------------
(* What the manager proposes, the store accepts.                             *)

LEMMA NoChange == ASSUME NEW w PROVE ValidChange(w, w)
<1>1. {i \in Indexes : w.accounts[i] # w.accounts[i]} = {}
  OBVIOUS
<1> QED
  BY <1>1 DEF ValidChange, ValidSeedChange

LEMMA OneGroupAccepted ==
  ASSUME Control, NEW id \in Ids, NEW w, NEW h, ValidChange(groups[id], w),
         Valid([groups EXCEPT ![id] = w], h)
  PROVE  Accepted([groups EXCEPT ![id] = w], h)
<1>1. \A other \in Ids \ {id} : [groups EXCEPT ![id] = w][other] = groups[other]
  OBVIOUS
<1>2. [groups EXCEPT ![id] = w][id] = w
  BY ControlFacts DEF TypeOK
<1>3. \A other \in Ids : ValidChange(groups[other], [groups EXCEPT ![id] = w][other])
  BY <1>1, <1>2, NoChange
<1> QED
  BY <1>3 DEF Accepted

\* A registry that only loses groups and accounts stays valid, when its groups are.
LEMMA ShrinkValid ==
  ASSUME Control, NEW g, NEW h,
         \A id \in Ids :
           g[id] = NoGroup \/ /\ g[id].wallet = groups[id].wallet
                              /\ \A i \in Indexes : g[id].accounts[i] # "none" =>
                                   groups[id].accounts[i] # "none",
         \A id \in Ids : g[id] # NoGroup => ValidGroup(g[id]),
         h \in AddressesOf(g, Active(g)) \cup {NoAddress}
  PROVE  Valid(g, h)
<1>1. ASSUME NEW x \in Accounts(g)
      PROVE  x \in Accounts(groups) /\ Address(g, x) = Address(groups, x)
  <2>1. x \in Ids \X Indexes /\ g[x[1]].accounts[x[2]] # "none"
    BY <1>1 DEF Accounts
  <2>2. g[x[1]] # NoGroup
    BY <2>1 DEF NoGroup
  <2> QED
    BY <2>1, <2>2 DEF Accounts, Address
<1>2. \A id \in Ids : g[id].wallet.kind = "seed" => g[id].wallet = groups[id].wallet
  BY NoGroupTyped DEF NoWallet
<1>3. \A x, y \in Accounts(g) : Address(g, x) = Address(g, y) => x = y
  BY <1>1, OneAccount DEF Control
<1>4. \A id \in Ids, x \in Accounts(g) :
        g[id].wallet.kind = "seed" /\ Address(g, x) = Derived[g[id].wallet.root][0] => x[1] = id
  BY <1>1, <1>2 DEF Control, Valid
<1>5. ASSUME NEW id \in Ids, NEW other \in Ids,
             g[id].wallet.kind = "seed", g[other].wallet = g[id].wallet
      PROVE  id = other
  <2>1. g[id].wallet = groups[id].wallet /\ g[other].wallet = groups[other].wallet
    BY <1>2, <1>5
  <2> QED
    BY <1>5, <2>1 DEF Control, Valid
<1> QED
  BY <1>3, <1>4, <1>5 DEF Valid

LEMMA SelectAccepted ==
  ASSUME Control, NEW x \in Active(groups)
  PROVE  Accepted(groups, Address(groups, x))
<1>1. Address(groups, x) \in AddressesOf(groups, Active(groups))
  BY DEF AddressesOf
<1>2. Valid(groups, Address(groups, x))
  BY <1>1 DEF Control, Valid
<1> QED
  BY <1>2, NoChange DEF Accepted

LEMMA RegisterAccepted ==
  ASSUME Control, NEW id \in Ids, NEW w \in Wallet, groups[id] = NoGroup,
         ~Contains(groups, FirstOf(w)), \A other \in Ids : groups[other].wallet # w
  PROVE  Accepted([groups EXCEPT ![id] = NewGroup(w)], home)
<1> DEFINE n == NewGroup(w)
           g == [groups EXCEPT ![id] = n]
<1>1. /\ n # NoGroup /\ n.wallet = w /\ n.lifecycle = "active"
      /\ n.next = IF w.kind = "seed" THEN 1 ELSE 0
      /\ \A i \in Indexes : n.accounts[i] = IF i = 0 THEN "active" ELSE "none"
  BY NewGroupIs
<1>2. g[id] = n /\ \A other \in Ids \ {id} : g[other] = groups[other]
  BY ControlFacts DEF TypeOK
<1>3. ValidChange(groups[id], n)
  BY <1>1 DEF ValidChange
<1> HIDE DEF n, g
<1>4. ValidGroup(n)
  <2>1. {i \in Indexes : n.accounts[i] # "none"} = {0}
    BY <1>1, IndexFacts
  <2> QED
    BY <1>1, <2>1, IndexFacts DEF ValidGroup
<1>5. \A other \in Ids : g[other] # NoGroup => ValidGroup(g[other])
  BY <1>2, <1>4 DEF Control, Valid
<1>6. ASSUME NEW x \in Accounts(g)
      PROVE  \/ x[1] = id /\ x = <<id, 0>> /\ Address(g, x) = FirstOf(w)
             \/ x[1] # id /\ x \in Accounts(groups) /\ Address(g, x) = Address(groups, x)
                  /\ Address(g, x) # FirstOf(w)
  <2>1. /\ x \in Ids \X Indexes /\ x[1] \in Ids /\ x[2] \in Indexes /\ x = <<x[1], x[2]>>
        /\ g[x[1]].accounts[x[2]] # "none"
    BY <1>6 DEF Accounts
  <2>2. CASE x[1] = id
    BY <1>1, <1>2, <2>1, <2>2 DEF Address, FirstOf
  <2>3. CASE x[1] # id
    <3>1. x \in Accounts(groups) /\ Address(g, x) = Address(groups, x)
      BY <1>2, <2>1, <2>3 DEF Accounts, Address
    <3> QED
      BY <2>3, <3>1 DEF Contains, AddressesOf
  <2> QED
    BY <2>2, <2>3
<1>7. \A x, y \in Accounts(g) : Address(g, x) = Address(g, y) => x = y
  BY <1>6, OneAccount DEF Control
<1>8. ASSUME NEW other \in Ids, NEW x \in Accounts(g),
             g[other].wallet.kind = "seed", Address(g, x) = Derived[g[other].wallet.root][0]
      PROVE  x[1] = other
  <2>1. CASE other = id
    <3>1. Address(g, x) = FirstOf(w)
      BY <1>1, <1>2, <1>8, <2>1 DEF FirstOf
    <3> QED
      BY <1>6, <2>1, <3>1
  <2>2. CASE other # id
    <3>1. groups[other].wallet.kind = "seed" /\ Address(g, x) = Derived[groups[other].wallet.root][0]
      BY <1>2, <1>8, <2>2
    <3>2. Address(g, x) # FirstOf(w)
      BY <3>1 DEF Contains
    <3>3. x \in Accounts(groups) /\ Address(g, x) = Address(groups, x)
      BY <1>6, <3>2
    <3> QED
      BY <3>1, <3>3 DEF Control, Valid
  <2> QED
    BY <2>1, <2>2
<1>9. \A one, other \in Ids :
        g[one].wallet.kind = "seed" /\ g[other].wallet = g[one].wallet => one = other
  BY <1>1, <1>2 DEF Control, Valid
<1>10. home \in AddressesOf(g, Active(g)) \cup {NoAddress}
  <2>1. ASSUME NEW x \in Active(groups)
        PROVE  x \in Active(g) /\ Address(g, x) = Address(groups, x)
    <3>1. /\ x[1] \in Ids /\ groups[x[1]].lifecycle = "active"
      BY <2>1 DEF Active, Accounts
    <3>2. g[x[1]] = groups[x[1]]
      BY <1>2, <3>1, NoGroupTyped
    <3> QED
      BY <2>1, <3>2 DEF Active, Accounts, Address
  <2>2. AddressesOf(groups, Active(groups)) \subseteq AddressesOf(g, Active(g))
    BY <2>1 DEF AddressesOf
  <2> QED
    BY <2>2 DEF Control, Valid
<1>11. Valid(g, home)
  BY <1>5, <1>7, <1>8, <1>9, <1>10 DEF Valid
<1> QED
  BY <1>3, <1>11, OneGroupAccepted DEF g, n

\* An account that was there stays as it is in a registry with more accounts.
LEMMA GrowHome ==
  ASSUME Control, NEW g,
         \A x \in Active(groups) : x \in Active(g) /\ Address(g, x) = Address(groups, x)
  PROVE  home \in AddressesOf(g, Active(g)) \cup {NoAddress}
<1>1. AddressesOf(groups, Active(groups)) \subseteq AddressesOf(g, Active(g))
  BY DEF AddressesOf
<1> QED
  BY <1>1 DEF Control, Valid

LEMMA SeedGroup ==
  ASSUME Control, NEW id \in Ids, groups[id].wallet.kind = "seed"
  PROVE  /\ groups[id] \in Group /\ groups[id] # NoGroup /\ groups[id].wallet \in Wallet
         /\ ValidGroup(groups[id]) /\ groups[id].wallet.root \in Seeds
         /\ groups[id].next \in Nat
         /\ \A i \in Indexes : groups[id].accounts[i] # "none" => i < groups[id].next
         /\ \E i \in Indexes : groups[id].accounts[i] # "none"
<1>1. groups[id] \in Group /\ groups[id] # NoGroup /\ groups[id].wallet \in Wallet
  BY Registered, ControlFacts
<1>2. ValidGroup(groups[id])
  BY <1>1 DEF Control, Valid
<1>3. groups[id].wallet.root \in Seeds
  BY <1>1, WalletKinds
<1>4. groups[id].next \in Nat
  BY <1>1, IndexFacts DEF Group
<1> QED
  BY <1>1, <1>2, <1>3, <1>4 DEF ValidGroup

LEMMA DeriveAccepted ==
  ASSUME Control, NEW id \in Ids, NEW pick \in SUBSET Indexes, pick # {},
         groups[id].lifecycle = "active", groups[id].wallet.kind = "seed",
         \A i \in pick : i >= groups[id].next,
         \A i \in pick : ~Contains(groups, Derived[groups[id].wallet.root][i])
  PROVE  Accepted([groups EXCEPT ![id] = AddAccounts(groups[id], pick)], home)
<1> DEFINE w == groups[id]
           n == AddAccounts(w, pick)
           g == [groups EXCEPT ![id] = n]
           root == w.wallet.root
<1>1. /\ w \in Group /\ w # NoGroup /\ ValidGroup(w) /\ root \in Seeds /\ w.next \in Nat
      /\ \A i \in Indexes : w.accounts[i] # "none" => i < w.next
  BY SeedGroup
<1>2. /\ n \in Group /\ n.wallet = w.wallet /\ n.lifecycle = "active"
      /\ n.next - 1 \in pick /\ \A i \in pick : i < n.next
      /\ \A i \in Indexes : n.accounts[i] = IF i \in pick THEN "active" ELSE w.accounts[i]
  BY <1>1, AddAccountsIs
<1>3. g[id] = n /\ \A other \in Ids \ {id} : g[other] = groups[other]
  BY ControlFacts DEF TypeOK
<1> HIDE DEF n, g
<1>4. n # NoGroup /\ n.wallet.kind = "seed"
  BY <1>2, NoGroupTyped
<1>5. pick \subseteq Nat /\ n.next \in Nat /\ Indexes \subseteq Nat
  BY <1>2, IndexFacts DEF Group
<1>6. ValidSeedChange(w, n)
  <2> DEFINE changed == {i \in Indexes : w.accounts[i] # n.accounts[i]}
  <2>1. changed \subseteq pick
    BY <1>2
  <2>2. \A i \in changed : i >= w.next /\ i < n.next /\ n.accounts[i] = "active"
    BY <1>2, <2>1
  <2>3. n.next - 1 \in Indexes /\ n.next - 1 >= w.next /\ n.accounts[n.next - 1] = "active"
    BY <1>2
  <2>4. w.accounts[n.next - 1] = "none"
    BY <1>1, <1>5, <2>3
  <2>5. n.next - 1 \in changed
    BY <2>3, <2>4
  <2> QED
    BY <2>2, <2>5 DEF ValidSeedChange
<1>7. ValidChange(w, n)
  BY <1>1, <1>2, <1>4, <1>6 DEF ValidChange
<1>8. ValidGroup(n)
  <2> DEFINE present == {i \in Indexes : n.accounts[i] # "none"}
  <2>1. n.next - 1 \in Indexes /\ n.next - 1 >= w.next /\ n.accounts[n.next - 1] = "active"
    BY <1>2
  <2>2. \A i \in present : i < n.next
    <3>1. w.next < n.next
      BY <1>1, <1>5, <2>1
    <3>2. ASSUME NEW i \in present, i \notin pick PROVE i < n.next
      <4>1. i \in Nat /\ i < w.next
        BY <1>1, <1>2, <1>5, <3>2
      <4> QED
        BY <1>1, <1>5, <3>1, <4>1
    <3> QED
      BY <1>2, <3>2
  <2>3. n.next - 1 \in present /\ n.accounts[n.next - 1] = "active"
    BY <2>1
  <2> QED
    BY <1>4, <2>2, <2>3 DEF ValidGroup
<1>9. ASSUME NEW x \in Accounts(g)
      PROVE  \/ /\ x[1] = id /\ x[2] \in pick /\ x = <<x[1], x[2]>>
                /\ Address(g, x) = Derived[root][x[2]]
                /\ ~Contains(groups, Address(g, x))
             \/ x \in Accounts(groups) /\ Address(g, x) = Address(groups, x)
  <2>1. /\ x \in Ids \X Indexes /\ x[1] \in Ids /\ x[2] \in Indexes /\ x = <<x[1], x[2]>>
        /\ g[x[1]].accounts[x[2]] # "none"
    BY <1>9 DEF Accounts
  <2>2. CASE x[1] = id /\ x[2] \in pick
    <3>1. Address(g, x) = Derived[root][x[2]]
      BY <1>2, <1>3, <1>4, <2>2 DEF Address
    <3> QED
      BY <2>1, <2>2, <3>1
  <2>3. ASSUME x[1] # id \/ x[2] \notin pick
        PROVE  x \in Accounts(groups) /\ Address(g, x) = Address(groups, x)
    <3>1. groups[x[1]].accounts[x[2]] # "none" /\ g[x[1]].wallet = groups[x[1]].wallet
      BY <1>2, <1>3, <2>1, <2>3
    <3> QED
      BY <2>1, <3>1 DEF Accounts, Address
  <2> QED
    BY <2>2, <2>3
<1>10. \A x \in Accounts(groups) : Contains(groups, Address(groups, x))
  BY DEF Contains, AddressesOf
<1>11. ASSUME NEW x \in Accounts(g), NEW y \in Accounts(g), Address(g, x) = Address(g, y)
       PROVE  x = y
  <2>1. ASSUME x[1] = id, x[2] \in pick, y[1] = id, y[2] \in pick, x = <<x[1], x[2]>>,
               y = <<y[1], y[2]>>, Derived[root][x[2]] = Derived[root][y[2]]
        PROVE  x = y
    BY <1>1, <2>1, AddressAssumption DEF Indexes
  <2>2. ASSUME x \in Accounts(groups), y \in Accounts(groups),
               Address(groups, x) = Address(groups, y)
        PROVE  x = y
    BY <2>2, OneAccount DEF Control
  <2> QED
    BY <1>9, <1>10, <1>11, <2>1, <2>2
<1>12. ASSUME NEW other \in Ids, NEW x \in Accounts(g),
              g[other].wallet.kind = "seed", Address(g, x) = Derived[g[other].wallet.root][0]
       PROVE  x[1] = other
  <2>1. g[other].wallet = groups[other].wallet
    BY <1>2, <1>3
  <2>2. Contains(groups, Address(g, x))
    BY <1>12, <2>1 DEF Contains
  <2>3. x \in Accounts(groups) /\ Address(g, x) = Address(groups, x)
    BY <1>9, <2>2
  <2> QED
    BY <1>12, <2>1, <2>3 DEF Control, Valid
<1>13. \A one, other \in Ids :
         g[one].wallet.kind = "seed" /\ g[other].wallet = g[one].wallet => one = other
  <2>1. \A other \in Ids : g[other].wallet = groups[other].wallet
    BY <1>2, <1>3
  <2> QED
    BY <2>1 DEF Control, Valid
<1>14. ASSUME NEW x \in Active(groups)
       PROVE  x \in Active(g) /\ Address(g, x) = Address(groups, x)
  <2>1. /\ x \in Ids \X Indexes /\ x[1] \in Ids /\ x[2] \in Indexes
        /\ groups[x[1]].lifecycle = "active" /\ groups[x[1]].accounts[x[2]] = "active"
    BY <1>14 DEF Active, Accounts
  <2>2. /\ g[x[1]].lifecycle = "active" /\ g[x[1]].accounts[x[2]] = "active"
        /\ g[x[1]].wallet = groups[x[1]].wallet
    BY <1>2, <1>3, <2>1
  <2> QED
    BY <2>1, <2>2 DEF Active, Accounts, Address
<1>15. \A other \in Ids : g[other] # NoGroup => ValidGroup(g[other])
  BY <1>3, <1>8 DEF Control, Valid
<1>16. Valid(g, home)
  BY <1>11, <1>12, <1>13, <1>14, <1>15, GrowHome DEF Valid
<1> QED
  BY <1>7, <1>16, OneGroupAccepted DEF g, n

\* The address that stays selected is of an account that stays active.
LEMMA SurvivorStays ==
  ASSUME Control, NEW p \in Procs, NEW g,
         \A x \in Active(groups) \ Removed(p) :
           x \in Active(g) /\ Address(g, x) = Address(groups, x)
  PROVE  Survivor(p) \in AddressesOf(g, Active(g)) \cup {NoAddress}
<1> DEFINE S == Active(groups) \ Removed(p)
<1>1. AddressesOf(groups, S) \subseteq AddressesOf(g, Active(g))
  BY DEF AddressesOf
<1>2. S \subseteq Accounts(groups)
  BY DEF Active
<1>3. FirstAddress(groups, S) \in AddressesOf(groups, S) \cup {NoAddress}
  BY <1>2, FirstAddressIs, ControlFacts
<1>4. ASSUME home \notin AddressesOf(groups, Removed(p)), home # NoAddress
      PROVE  home \in AddressesOf(groups, S)
  <2>1. PICK x \in Active(groups) : home = Address(groups, x)
    BY <1>4 DEF Control, Valid, AddressesOf
  <2> QED
    BY <1>4, <2>1 DEF AddressesOf
<1> QED
  BY <1>1, <1>3, <1>4 DEF Survivor

LEMMA BeginGroupAccepted ==
  ASSUME Control, NEW p \in Procs, op[p].at = "begin", Whole(p),
         groups[op[p].id].lifecycle = "active"
  PROVE  Accepted([groups EXCEPT ![op[p].id] = MarkDeleting(groups[op[p].id], {})], Survivor(p))
<1> DEFINE id == op[p].id
           w == groups[id]
           n == MarkDeleting(w, {})
           g == [groups EXCEPT ![id] = n]
<1>1. id \in Ids /\ w \in Group
  BY AtWork
<1>2. /\ n.wallet = w.wallet /\ n.next = w.next /\ n.lifecycle = "deleting"
      /\ n.accounts = w.accounts
  BY <1>1, MarkDeletingIs
<1>3. g[id] = n /\ \A other \in Ids \ {id} : g[other] = groups[other]
  BY <1>1, ControlFacts DEF TypeOK
<1>4. w # NoGroup /\ w.wallet \in Wallet
  BY <1>1, Registered
<1>5. ValidGroup(w)
  BY <1>1, <1>4 DEF Control, Valid
<1> HIDE DEF n, g
<1>6. n # NoGroup
  BY <1>2, NoGroupTyped
<1>7. ValidChange(w, n)
  BY <1>2, <1>4, <1>6 DEF ValidChange
<1>8. ValidGroup(n)
  BY <1>2, <1>5 DEF ValidGroup
<1>9. \A other \in Ids : g[other] # NoGroup => ValidGroup(g[other])
  BY <1>3, <1>8 DEF Control, Valid
<1>10. ASSUME NEW x \in Active(groups), x \notin Removed(p)
       PROVE  x \in Active(g) /\ Address(g, x) = Address(groups, x)
  <2>1. x[1] \in Ids /\ x[1] # id
    BY <1>10 DEF Active, Accounts, Removed, AccountsIn
  <2>2. g[x[1]] = groups[x[1]]
    BY <1>3, <2>1
  <2> QED
    BY <1>10, <2>2 DEF Active, Accounts, Address
<1>11. Survivor(p) \in AddressesOf(g, Active(g)) \cup {NoAddress}
  BY <1>10, SurvivorStays
<1>12. \A other \in Ids :
         g[other].wallet = groups[other].wallet /\ g[other].accounts = groups[other].accounts
  BY <1>2, <1>3
<1>13. Valid(g, Survivor(p))
  BY <1>9, <1>11, <1>12, ShrinkValid
<1> QED
  BY <1>1, <1>7, <1>13, OneGroupAccepted DEF g, n

LEMMA BeginAccountAccepted ==
  ASSUME Control, NEW p \in Procs, op[p].at = "begin", ~Whole(p),
         groups[op[p].id].lifecycle = "active",
         Removed(p) # {}, Removed(p) \subseteq Active(groups),
         {i \in Indexes \ op[p].pick : groups[op[p].id].accounts[i] = "active"} # {}
  PROVE  Accepted([groups EXCEPT ![op[p].id] = MarkDeleting(groups[op[p].id], op[p].pick)],
                  Survivor(p))
<1> DEFINE id == op[p].id
           w == groups[id]
           n == MarkDeleting(w, op[p].pick)
           g == [groups EXCEPT ![id] = n]
<1>1. id \in Ids /\ w \in Group /\ op[p].pick \in SUBSET Indexes
  BY AtWork
<1>2. PICK i \in Indexes : op[p].pick = {i}
  BY AtWork DEF Whole
<1>3. /\ n.wallet = w.wallet /\ n.next = w.next /\ n.lifecycle = "active"
      /\ \A j \in Indexes : n.accounts[j] = IF j = i THEN "deleting" ELSE w.accounts[j]
  BY <1>1, <1>2, MarkDeletingIs
<1>4. g[id] = n /\ \A other \in Ids \ {id} : g[other] = groups[other]
  BY <1>1, ControlFacts DEF TypeOK
<1>5. w.wallet.kind = "seed"
  BY DEF Whole
<1>6. w # NoGroup /\ ValidGroup(w) /\ \A j \in Indexes : w.accounts[j] # "none" => j < w.next
  BY <1>1, <1>5, SeedGroup
<1>7. w.accounts[i] = "active"
  <2>1. PICK x \in Removed(p) : x[1] = id /\ x[2] = i /\ x \in Active(groups)
    BY <1>2 DEF Removed, AccountsIn
  <2> QED
    BY <2>1 DEF Active
<1>8. PICK k \in Indexes : k # i /\ w.accounts[k] = "active"
  BY <1>2
<1> HIDE DEF n, g
<1>9. n # NoGroup /\ n.wallet.kind = "seed"
  BY <1>3, <1>5, NoGroupTyped
<1>10. ValidSeedChange(w, n)
  <2> DEFINE changed == {j \in Indexes : w.accounts[j] # n.accounts[j]}
  <2>1. changed = {i}
    BY <1>3, <1>7
  <2>2. i \in changed /\ w.accounts[i] = "active" /\ n.accounts[i] = "deleting"
    BY <1>3, <1>7, <2>1
  <2> QED
    BY <1>3, <2>1, <2>2 DEF ValidSeedChange
<1>11. ValidChange(w, n)
  BY <1>3, <1>5, <1>6, <1>9, <1>10 DEF ValidChange
<1>12. ValidGroup(n)
  <2> DEFINE present == {j \in Indexes : n.accounts[j] # "none"}
  <2>1. \A j \in present : j < n.next
    BY <1>3, <1>6, <1>7
  <2>2. k \in present /\ n.accounts[k] = "active"
    BY <1>3, <1>8
  <2> QED
    BY <1>9, <2>1, <2>2 DEF ValidGroup
<1>13. \A other \in Ids : g[other] # NoGroup => ValidGroup(g[other])
  BY <1>4, <1>12 DEF Control, Valid
<1>14. ASSUME NEW x \in Active(groups), x \notin Removed(p)
       PROVE  x \in Active(g) /\ Address(g, x) = Address(groups, x)
  <2>1. /\ x \in Ids \X Indexes /\ x[1] \in Ids /\ x[2] \in Indexes
        /\ x \in Accounts(groups)
        /\ groups[x[1]].lifecycle = "active" /\ groups[x[1]].accounts[x[2]] = "active"
    BY <1>14 DEF Active, Accounts
  <2>2. x[1] = id => x[2] # i
    BY <1>2, <1>14, <2>1 DEF Removed, AccountsIn
  <2>3. /\ g[x[1]].lifecycle = "active" /\ g[x[1]].accounts[x[2]] = "active"
        /\ g[x[1]].wallet = groups[x[1]].wallet
    BY <1>3, <1>4, <2>1, <2>2
  <2> QED
    BY <2>1, <2>3 DEF Active, Accounts, Address
<1>15. Survivor(p) \in AddressesOf(g, Active(g)) \cup {NoAddress}
  BY <1>14, SurvivorStays
<1>16. \A other \in Ids : /\ g[other].wallet = groups[other].wallet
                          /\ \A j \in Indexes : g[other].accounts[j] # "none" =>
                               groups[other].accounts[j] # "none"
  BY <1>3, <1>4, <1>7
<1>17. Valid(g, Survivor(p))
  BY <1>13, <1>15, <1>16, ShrinkValid
<1> QED
  BY <1>1, <1>11, <1>17, OneGroupAccepted DEF g, n

LEMMA FinishAccepted ==
  ASSUME Control, OneDeletion, NEW p \in Procs, op[p].at = "finish"
  PROVE  Accepted([groups EXCEPT ![op[p].id] =
                     IF Whole(p) THEN NoGroup ELSE Without(groups[op[p].id], op[p].pick)], home)
<1> DEFINE id == op[p].id
           w == groups[id]
           n == IF Whole(p) THEN NoGroup ELSE Without(w, op[p].pick)
           g == [groups EXCEPT ![id] = n]
<1>1. /\ id \in Ids /\ w \in Group /\ op[p].pick \in SUBSET Indexes
      /\ op[p].at \in LateSteps
  BY AtWork DEF LateSteps
<1>2. IF Whole(p) THEN w.lifecycle = "deleting"
      ELSE w.lifecycle = "active" /\ \A i \in op[p].pick : w.accounts[i] = "deleting"
  BY <1>1, ControlFacts DEF Begun
<1>3. w # NoGroup /\ ValidGroup(w)
  <2>1. w # NoGroup
    BY <1>1, <1>2, Registered
  <2> QED
    BY <1>1, <2>1 DEF Control, Valid
<1>4. g[id] = n /\ \A other \in Ids \ {id} : g[other] = groups[other]
  BY <1>1, ControlFacts DEF TypeOK
<1>5. n = NoGroup \/ /\ n.wallet = w.wallet
                     /\ \A i \in Indexes : n.accounts[i] # "none" => w.accounts[i] # "none"
  BY <1>1, WithoutIs
<1>6. ValidChange(w, n) /\ (n # NoGroup => ValidGroup(n))
      /\ \A i \in Indexes : w.lifecycle = "active" /\ w.accounts[i] = "active" =>
           n.lifecycle = "active" /\ n.accounts[i] = "active" /\ n.wallet = w.wallet
  <2>1. CASE Whole(p)
    BY <1>2, <1>3, <2>1 DEF ValidChange
  <2>2. ASSUME ~Whole(p)
        PROVE  ValidChange(w, n) /\ (n # NoGroup => ValidGroup(n))
               /\ \A i \in Indexes : w.lifecycle = "active" /\ w.accounts[i] = "active" =>
                    n.lifecycle = "active" /\ n.accounts[i] = "active" /\ n.wallet = w.wallet
    <3>1. PICK i \in Indexes : op[p].pick = {i}
      BY <1>1, <2>2, AtWork DEF Whole
    <3>2. /\ n.wallet = w.wallet /\ n.next = w.next /\ n.lifecycle = "active"
          /\ \A j \in Indexes : n.accounts[j] = IF j = i THEN "none" ELSE w.accounts[j]
      BY <1>1, <1>2, <2>2, <3>1, WithoutIs
    <3>3. w.accounts[i] = "deleting" /\ w.wallet.kind = "seed" /\ w.lifecycle = "active"
      BY <1>2, <2>2, <3>1 DEF Whole
    <3>4. PICK k \in Indexes : w.accounts[k] = "active"
      BY <1>3, <3>3 DEF ValidGroup
    <3>5. Deletions(w) = {i}
      BY <1>1, <3>3 DEF OneDeletion, Deletions
    <3> HIDE DEF n
    <3>6. n # NoGroup
      BY <3>2, NoGroupTyped
    <3>7. ValidSeedChange(w, n)
      <4> DEFINE changed == {j \in Indexes : w.accounts[j] # n.accounts[j]}
      <4>1. changed = {i}
        BY <3>2, <3>3
      <4>2. i \in changed /\ n.accounts[i] = "none"
        BY <3>2, <4>1
      <4> QED
        BY <3>2, <3>5, <4>1, <4>2 DEF ValidSeedChange
    <3>8. ValidChange(w, n)
      BY <1>3, <3>2, <3>3, <3>6, <3>7 DEF ValidChange
    <3>9. ValidGroup(n)
      <4>1. \A j \in {l \in Indexes : n.accounts[l] # "none"} : j < n.next
        BY <1>3, <3>2, <3>3 DEF ValidGroup
      <4>2. n.accounts[k] = "active" /\ k \in {l \in Indexes : n.accounts[l] # "none"}
        BY <3>2, <3>3, <3>4
      <4> QED
        BY <3>2, <3>3, <4>1, <4>2 DEF ValidGroup
    <3> QED
      BY <3>2, <3>3, <3>8, <3>9
  <2> QED
    BY <2>1, <2>2
<1> HIDE DEF n, g
<1>7. \A other \in Ids : g[other] # NoGroup => ValidGroup(g[other])
  BY <1>4, <1>6 DEF Control, Valid
<1>8. ASSUME NEW x \in Active(groups)
      PROVE  x \in Active(g) /\ Address(g, x) = Address(groups, x)
  <2>1. /\ x \in Ids \X Indexes /\ x[1] \in Ids /\ x[2] \in Indexes
        /\ groups[x[1]].lifecycle = "active" /\ groups[x[1]].accounts[x[2]] = "active"
    BY <1>8 DEF Active, Accounts
  <2>2. /\ g[x[1]].lifecycle = "active" /\ g[x[1]].accounts[x[2]] = "active"
        /\ g[x[1]].wallet = groups[x[1]].wallet
    BY <1>4, <1>6, <2>1
  <2> QED
    BY <2>1, <2>2 DEF Active, Accounts, Address
<1>9. \A other \in Ids :
        g[other] = NoGroup \/ /\ g[other].wallet = groups[other].wallet
                              /\ \A i \in Indexes : g[other].accounts[i] # "none" =>
                                   groups[other].accounts[i] # "none"
  BY <1>4, <1>5
<1>10. Valid(g, home)
  BY <1>7, <1>8, <1>9, GrowHome, ShrinkValid
<1> QED
  BY <1>1, <1>6, <1>10, OneGroupAccepted DEF g, n

-----------------------------------------------------------------------------
(* An adoption goes through every removal that is left.                      *)

PendingIn(g) ==
  {x \in Ids \X (Indexes \cup {-1}) :
     IF x[2] = -1 THEN g[x[1]].lifecycle = "deleting" ELSE g[x[1]].accounts[x[2]] = "deleting"}

LEMMA PendingIs == RemovalsPending = PendingIn(groups) /\ RemovalsPending' = PendingIn(groups')
<1>1. -1 \notin Indexes
  BY IndexFacts
<1> QED
  BY <1>1 DEF RemovalsPending, PendingIn, Accounts

\* What was in deletion stays so or goes.
SpentNext == \A x \in Ids \X (Indexes \cup {-1}) : Spent(x) => Spent(x)'

\* A group that was there is gone, or goes on with more accounts or fewer active ones.
Descends(w, n) ==
  /\ w # NoGroup
  /\ \/ n = NoGroup
     \/ /\ n.wallet = w.wallet /\ w.next <= n.next
        /\ n.lifecycle = "active" => w.lifecycle = "active"
        /\ \A i \in Indexes : i < w.next /\ n.accounts[i] = "active" => w.accounts[i] = "active"

\* An import is of a new group.
ImportsNew ==
  op'[App].at \in {"save", "register"} =>
    \/ op[App].at \in {"save", "register"} /\ op'[App].id = op[App].id
    \/ op'[App].id > created

LEMMA StaysSpent ==
  ASSUME Control, created' \in Nat, created <= created', ImportsNew,
         \A id \in Ids :
           \/ groups'[id] = groups[id] \/ Descends(groups[id], groups'[id])
           \/ op[App].at = "register" /\ op[App].id = id,
         \A id \in Ids : groups'[id] \in Group
  PROVE  SpentNext
<1>1. ASSUME NEW x \in Ids \X (Indexes \cup {-1}), Spent(x) PROVE Spent(x)'
  <2>1. x[1] \in Ids /\ x[2] \in Indexes \cup {-1} /\ x[1] \in Nat /\ created \in Nat
    <3>1. x[1] \in Ids /\ x[2] \in Indexes \cup {-1}
      OBVIOUS
    <3>2. created \in Nat
      BY LimitAssumption DEF Control, TypeOK
    <3> QED
      BY <3>1, <3>2, IndexFacts
  <2>2. x[1] <= created /\ ~(op[App].at \in {"save", "register"} /\ op[App].id = x[1])
    BY <1>1 DEF Spent
  <2>3. x[1] <= created'
    BY <2>1, <2>2
  <2>4. ~(op'[App].at \in {"save", "register"} /\ op'[App].id = x[1])
    BY <2>1, <2>2 DEF ImportsNew
  <2> DEFINE w == groups[x[1]]
             n == groups'[x[1]]
  <2>5. n = w \/ Descends(w, n)
    BY <2>1, <2>2
  <2>6. x[2] = -1 => n.lifecycle # "active"
    BY <1>1, <2>5, NoGroupTyped DEF Spent, Descends
  <2>7. ASSUME x[2] # -1
        PROVE  n = NoGroup \/ (n.wallet.kind = "seed" /\ x[2] < n.next /\ n.accounts[x[2]] # "active")
    <3>1. x[2] \in Indexes /\ x[2] \in Nat
      BY <2>1, <2>7, IndexFacts
    <3>2. w = NoGroup \/ (w.wallet.kind = "seed" /\ x[2] < w.next /\ w.accounts[x[2]] # "active")
      BY <1>1, <2>7 DEF Spent
    <3>3. w.next \in Nat /\ n.next \in Nat
      BY <2>1, IndexFacts, ControlFacts DEF Group
    <3> QED
      BY <2>5, <3>1, <3>2, <3>3 DEF Descends
  <2> QED
    BY <2>3, <2>4, <2>6, <2>7 DEF Spent
<1> QED
  BY <1>1 DEF SpentNext

LEMMA ImportStays ==
  ASSUME Control, NEW p \in Procs, \A q \in Procs \ {p} : op'[q] = op[q],
         \/ op'[p].at \notin {"save", "register"}
         \/ op[p].at \in {"save", "register"} /\ op'[p].id = op[p].id
  PROVE  ImportsNew
<1>1. p = App \/ op'[App] = op[App]
  BY ControlFacts
<1> QED
  BY <1>1 DEF ImportsNew

\* What an update of one group does.
LEMMA GroupGoes ==
  ASSUME Control, NEW p \in Procs, NEW id \in Ids, NEW n \in Group, NEW h, NEW continued,
         Update(p, [groups EXCEPT ![id] = n], h, continued)
  PROVE  /\ created' = created /\ shown' = shown
         /\ groups'[id] \in {groups[id], n}
         /\ \A other \in Ids \ {id} : groups'[other] = groups[other]
         /\ \A other \in Ids : groups'[other] \in Group
         /\ \/ groups'[id] = n /\ op' = continued
            \/ op' = At(p, "thrown")
            \/ op' = At(p, "refused") /\ ~Accepted([groups EXCEPT ![id] = n], h)
<1> DEFINE g == [groups EXCEPT ![id] = n]
<1>1. g[id] = n /\ \A other \in Ids \ {id} : g[other] = groups[other]
  BY ControlFacts DEF TypeOK
<1> HIDE DEF g
<1>2. /\ UNCHANGED <<secrets, accountState, claims, view, created, unregistered>>
      /\ \/ Accepted(g, h) /\ groups' = g /\ (op' = continued \/ op' = At(p, "thrown"))
         \/ groups' = groups /\ (op' = At(p, "thrown") \/ (~Accepted(g, h) /\ op' = At(p, "refused")))
  BY UpdateIs, ControlFacts DEF g
<1>3. \A other \in Ids \ {id} : groups'[other] = groups[other]
  BY <1>1, <1>2
<1>4. groups'[id] \in {groups[id], n}
  BY <1>1, <1>2
<1>5. \A other \in Ids : groups'[other] \in Group
  BY <1>3, <1>4, ControlFacts
<1> QED
  BY <1>1, <1>2, <1>3, <1>4, <1>5 DEF view, g

LEMMA UpdatedAt ==
  ASSUME Control, NEW p \in Procs, NEW s \in Steps, op' = At(p, s)
  PROVE  /\ \A q \in Procs \ {p} : op'[q] = op[q]
         /\ op'[p].at = s /\ op'[p].kind = op[p].kind /\ op'[p].id = op[p].id
         /\ op'[p].pick = op[p].pick /\ op'[p].todo = op[p].todo /\ op'[p].next = op[p].next
  BY StepIs, ControlFacts

\* A process that works on is about the same removals.
WorksOn(p) ==
  /\ op'[p].kind = op[p].kind /\ op'[p].id = op[p].id /\ op'[p].pick = op[p].pick
  /\ op'[p].todo = op[p].todo /\ op'[p].next = op[p].next

LEMMA ResumesStays ==
  ASSUME Control, SpentNext, NEW p \in Procs, Resumes(p), WorksOn(p),
         op'[p].at \in RemovalSteps => op[p].at \in RemovalSteps
  PROVE  Resumes(p)'
<1>1. ASSUME op[p].kind = "adopt" PROVE Resumes(p)'
  <2>1. op[p].todo \subseteq Ids \X (Indexes \cup {-1})
    BY ControlFacts DEF Operation
  <2>2. op[p].next \in {0, 1} /\ \A x \in op[p].todo : Spent(x) /\ (x[2] = -1 <=> op[p].next = 0)
    BY <1>1 DEF Resumes
  <2>3. \A x \in op[p].todo : Spent(x)'
    BY <2>1, <2>2 DEF SpentNext
  <2>4. ASSUME op'[p].at \in RemovalSteps
        PROVE  (/\ op[p].pick = {} <=> op[p].next = 0
                /\ op[p].pick = {} => Spent(<<op[p].id, -1>>)
                /\ \A i \in op[p].pick : Spent(<<op[p].id, i>>))'
    <3>1. op[p].at \in RemovalSteps
      BY <2>4
    <3>2. op[p].id \in Ids /\ op[p].pick \subseteq Indexes
      BY <3>1, ControlFacts DEF InStep, Operation
    <3>3. /\ op[p].pick = {} <=> op[p].next = 0
          /\ op[p].pick = {} => Spent(<<op[p].id, -1>>)
          /\ \A i \in op[p].pick : Spent(<<op[p].id, i>>)
      BY <1>1, <3>1 DEF Resumes
    <3>4. <<op[p].id, -1>> \in Ids \X (Indexes \cup {-1})
      BY <3>2
    <3>5. \A i \in op[p].pick : <<op[p].id, i>> \in Ids \X (Indexes \cup {-1})
      BY <3>2
    <3>6. ASSUME op[p].pick = {} PROVE Spent(<<op[p].id, -1>>)'
      <4>1. PICK x \in Ids \X (Indexes \cup {-1}) : x = <<op[p].id, -1>>
        BY <3>4
      <4>2. Spent(x)'
        BY <3>3, <3>6, <4>1 DEF SpentNext
      <4>3. x = <<op'[p].id, -1>>
        BY <4>1 DEF WorksOn
      <4> QED
        BY <4>2, <4>3 DEF Spent
    <3>7. ASSUME NEW i \in op[p].pick PROVE Spent(<<op[p].id, i>>)'
      <4>1. PICK x \in Ids \X (Indexes \cup {-1}) : x = <<op[p].id, i>>
        BY <3>5
      <4>2. Spent(x)'
        BY <3>3, <3>7, <4>1 DEF SpentNext
      <4>3. x = <<op'[p].id, i>>
        BY <4>1 DEF WorksOn
      <4> QED
        BY <4>2, <4>3 DEF Spent
    <3> QED
      BY <3>3, <3>6, <3>7 DEF WorksOn
  <2> QED
    BY <2>2, <2>3, <2>4 DEF Resumes, WorksOn
<1>2. CASE op[p].kind # "adopt"
  BY <1>2 DEF Resumes, WorksOn
<1> QED
  BY <1>1, <1>2

\* Nothing is added to what has to be resumed.
NoneAdded == PendingIn(groups') \subseteq PendingIn(groups)

LEMMA FewerPending ==
  ASSUME Control, NEW id \in Ids, \A other \in Ids \ {id} : groups'[other] = groups[other],
         groups'[id].lifecycle = "deleting" => groups[id].lifecycle = "deleting",
         \A i \in Indexes : groups'[id].accounts[i] = "deleting" => groups[id].accounts[i] = "deleting"
  PROVE  NoneAdded
  BY IndexFacts DEF NoneAdded, PendingIn

LEMMA OneDeletionStays ==
  ASSUME OneDeletion, NoneAdded
  PROVE  OneDeletion'
<1>1. ASSUME NEW id \in Ids, NEW i \in Indexes, groups'[id].accounts[i] = "deleting"
      PROVE  groups[id].accounts[i] = "deleting"
  <2>1. i # -1
    BY IndexFacts
  <2>2. <<id, i>> \in PendingIn(groups')
    BY <1>1, <2>1 DEF PendingIn
  <2>3. <<id, i>> \in PendingIn(groups)
    BY <2>2 DEF NoneAdded
  <2> QED
    BY <2>1, <2>3 DEF PendingIn
<1>2. \A id \in Ids : Deletions(groups'[id]) \subseteq Deletions(groups[id])
  BY <1>1 DEF Deletions
<1> QED
  BY <1>2 DEF OneDeletion

LEMMA OrderlyIs ==
  ASSUME Control, Orderly, NEW p \in Procs, \A q \in Procs \ {p} : op'[q] = op[q],
         SpentNext, NoneAdded, Resumes(p)', p = App => Swept', p # App => shown' = shown
  PROVE  Orderly'
<1>1. OneDeletion'
  BY OneDeletionStays DEF Orderly
<1>2. ASSUME NEW q \in Procs PROVE Resumes(q)'
  <2>1. CASE q # p
    BY <2>1, ResumesStays DEF Orderly, WorksOn
  <2> QED
    BY <2>1
<1>3. Swept'
  <2>1. ASSUME p # App PROVE Swept'
    <3>1. op'[App] = op[App] /\ shown' = shown
      BY <2>1, ControlFacts
    <3>2. RemovalsPending' \subseteq RemovalsPending
      BY PendingIs DEF NoneAdded
    <3>3. GroupsPending' \subseteq GroupsPending
      BY <3>2 DEF GroupsPending
    <3>4. Awaited' = Awaited
      BY <3>1 DEF Awaited
    <3>5. Swept
      BY DEF Orderly
    <3> QED
      BY <3>1, <3>2, <3>3, <3>4, <3>5 DEF Swept
  <2> QED
    BY <2>1
<1> QED
  BY <1>1, <1>2, <1>3 DEF Orderly

\* A step that begins an operation, or ends it.
LEMMA FreshOrderly ==
  ASSUME Control, Orderly, NEW p \in Procs, \A q \in Procs \ {p} : op'[q] = op[q],
         SpentNext, NoneAdded, op'[p].kind # "adopt" \/ op'[p] = Adopting,
         p # App => shown' = shown,
         p = App /\ op'[p].kind = "remove" => RemovalsPending = {},
         p = App /\ op'[p].kind \notin {"adopt", "remove"} /\ shown' # {} => RemovalsPending = {}
  PROVE  Orderly'
<1>2. Resumes(p)'
  <2>1. Adopting.next = 0 /\ Adopting.todo = {} /\ Adopting.at \notin RemovalSteps
    BY IdleIs DEF RemovalSteps, LateSteps
  <2> QED
    BY <2>1 DEF Resumes
<1>3. ASSUME p = App PROVE Swept'
  <2>1. RemovalsPending = {} => RemovalsPending' = {}
    BY PendingIs DEF NoneAdded
  <2>2. Adopting.at \notin {"resume", "returned", "accounts", "validate"} \cup RemovalSteps
    BY IdleIs DEF RemovalSteps, LateSteps
  <2> QED
    BY <1>3, <2>1, <2>2, IdleIs DEF Swept
<1> QED
  BY <1>2, <1>3, OrderlyIs

\* A step on that lets no removal out of sight.
LEMMA OnOrderly ==
  ASSUME Control, Orderly, NEW p \in Procs, \A q \in Procs \ {p} : op'[q] = op[q], WorksOn(p),
         SpentNext, NoneAdded, shown' = shown,
         op'[p].at \in RemovalSteps => op[p].at \in RemovalSteps,
         op'[p].at \in {"claim", "begin"} => op[p].at \in {"claim", "begin"},
         \/ op'[p].at \in Failures \cup {"groups"} \/ op[p].kind \notin {"adopt", "remove"}
         \/ op[p].at \in RemovalSteps /\ op'[p].at \in RemovalSteps
         \/ op[p].at = "returned" /\ op'[p].at = "resume"
  PROVE  Orderly'
<1>1. Resumes(p)'
  BY ResumesStays DEF Orderly
<1>2. ASSUME p = App PROVE Swept'
  <2>1. RemovalsPending' \subseteq RemovalsPending
    BY PendingIs DEF NoneAdded
  <2>2. GroupsPending' \subseteq GroupsPending
    BY <2>1 DEF GroupsPending
  <2>3. Swept
    BY DEF Orderly
  <2>4. CASE op'[p].at \in Failures \cup {"groups"}
    BY <1>2, <2>1, <2>3, <2>4 DEF Swept, WorksOn, Failures, RemovalSteps, LateSteps
  <2>5. CASE op[p].kind \notin {"adopt", "remove"}
    BY <1>2, <2>1, <2>3, <2>5 DEF Swept, WorksOn
  <2>6. ASSUME op[p].at \in RemovalSteps, op'[p].at \in RemovalSteps PROVE Swept'
    <3>1. Awaited' = Awaited
      BY <1>2, <2>6 DEF Awaited, WorksOn
    <3>2. op[p].at \notin {"accounts", "validate"} /\ op'[p].at \notin {"accounts", "validate"}
      BY <2>6 DEF RemovalSteps, LateSteps
    <3> QED
      BY <1>2, <2>1, <2>2, <2>3, <2>6, <3>1, <3>2 DEF Swept, WorksOn
  <2>7. ASSUME op[p].at = "returned", op'[p].at = "resume" PROVE Swept'
    <3>1. op[p].at \notin RemovalSteps /\ op'[p].at \notin RemovalSteps
      BY <2>7 DEF RemovalSteps, LateSteps
    <3>2. Awaited' = Awaited
      BY <1>2, <3>1 DEF Awaited, WorksOn
    <3> QED
      BY <1>2, <2>1, <2>2, <2>3, <2>7, <3>1, <3>2 DEF Swept, WorksOn
  <2> QED
    BY <2>4, <2>5, <2>6, <2>7
<1> QED
  BY <1>1, <1>2, OrderlyIs

LEMMA QuietNext ==
  ASSUME Control, NEW p \in Procs, \A q \in Procs \ {p} : op'[q] = op[q],
         groups' = groups, created' = created,
         \/ op'[p].at \notin {"save", "register"}
         \/ op[p].at \in {"save", "register"} /\ op'[p].id = op[p].id
  PROVE  SpentNext /\ NoneAdded
<1>1. created \in Nat
  BY LimitAssumption DEF Control, TypeOK
<1>2. ImportsNew
  BY ImportStays
<1>3. SpentNext
  BY <1>1, <1>2, StaysSpent, ControlFacts
<1> QED
  BY <1>3 DEF NoneAdded

LEMMA StartImportOrderly ==
  ASSUME Control, Orderly, NEW w \in Wallet, StartImport(w)
  PROVE  Orderly'
<1>1. created \in Nat /\ (created' = created \/ created' = created + 1)
  BY LimitAssumption DEF StartImport, Control, TypeOK
<1> DEFINE o == [Idle EXCEPT !.kind = "import", !.id = created + 1, !.wallet = w,
                             !.at = IF w.kind = "watchOnly" THEN "register" ELSE "save"]
<1>2. o.kind = "import" /\ o.id = created + 1
  BY DEF Idle
<1>3. /\ \A q \in Procs \ {App} : op'[q] = op[q]
      /\ op'[App] = Adopting \/ op'[App] = o
  <2> HIDE DEF o
  <2>1. op' = [op EXCEPT ![App] = Adopting] \/ op' = [op EXCEPT ![App] = o]
    BY DEF StartImport, o
  <2> QED
    BY <2>1, StepAlone, ControlFacts
<1>4. op[App] = Idle /\ groups' = groups /\ shown' = shown
  BY DEF StartImport, registry, view
<1> HIDE DEF o
<1>5. ImportsNew
  BY <1>1, <1>2, <1>3, IdleIs DEF ImportsNew
<1>6. created' \in Nat /\ created <= created'
  BY <1>1
<1>7. SpentNext
  BY <1>4, <1>5, <1>6, StaysSpent, ControlFacts
<1>8. shown # {} => RemovalsPending = {}
  BY <1>4, IdleIs DEF Orderly, Swept
<1>9. NoneAdded
  BY <1>4 DEF NoneAdded
<1> QED
  BY <1>2, <1>3, <1>4, <1>7, <1>8, <1>9, IdleIs, FreshOrderly, ControlFacts

\* While the app shows a wallet and removes nothing, nothing is left to resume.
LEMMA ShownIsSwept ==
  ASSUME Control, Orderly, op[App].kind \notin {"adopt", "remove"}
  PROVE  shown # {} => RemovalsPending = {}
  BY DEF Orderly, Swept

LEMMA StartsOrderly ==
  ASSUME Control, Orderly, NEW p \in Procs, NEW id, NEW pick,
         \/ p = App /\ (\E x \in Ids \X Indexes : StartSelect(x))
         \/ p = App /\ id \in Ids /\ (StartDerive(id, pick) \/ StartRemove(id, pick))
         \/ StartAdoption(p) \/ Crash(p) \/ (p = App /\ Relaunch),
         \A q \in Procs \ {p} : op'[q] = op[q], SpentNext, NoneAdded
  PROVE  Orderly'
<1>1. ASSUME p = App, NEW x \in Ids \X Indexes, StartSelect(x) PROVE Orderly'
  <2> DEFINE o == [Idle EXCEPT !.kind = "select", !.at = "select", !.id = x[1], !.pick = {x[2]}]
  <2>1. op' = [op EXCEPT ![p] = o] /\ o.kind = "select"
    BY <1>1 DEF StartSelect, Idle
  <2> HIDE DEF o
  <2>2. op'[p].kind = "select"
    BY <2>1, StepAlone, ControlFacts
  <2>3. shown' = shown /\ op[App].kind = "none"
    BY <1>1, IdleIs DEF StartSelect, view
  <2> QED
    BY <1>1, <2>2, <2>3, ShownIsSwept, FreshOrderly
<1>2. ASSUME p = App, id \in Ids, StartDerive(id, pick) PROVE Orderly'
  <2> DEFINE o == [Idle EXCEPT !.kind = "derive", !.at = "claim", !.id = id, !.pick = pick]
  <2>1. op' = [op EXCEPT ![p] = o] /\ o.kind = "derive"
    BY <1>2 DEF StartDerive, Idle
  <2> HIDE DEF o
  <2>2. op'[p].kind = "derive"
    BY <2>1, StepAlone, ControlFacts
  <2>3. op[App].kind \notin {"adopt", "remove"}
    <3>1. CASE op[App] = Idle
      BY <3>1, IdleIs
    <3>2. CASE op[App].at = "discover"
      BY <3>2, ControlFacts DEF InStep, OnPath, RemovalSteps, LateSteps, Failures
    <3> QED
      BY <1>2, <3>1, <3>2 DEF StartDerive
  <2>4. shown' = shown
    BY <1>2 DEF StartDerive, view
  <2> QED
    BY <1>2, <2>2, <2>3, <2>4, ShownIsSwept, FreshOrderly
<1>3. ASSUME p = App, id \in Ids, StartRemove(id, pick) PROVE Orderly'
  <2> DEFINE o == [Idle EXCEPT !.kind = "remove", !.at = "claim", !.id = id, !.pick = pick]
  <2>1. op' = [op EXCEPT ![p] = o] /\ o.kind = "remove"
    BY <1>3 DEF StartRemove, Idle
  <2> HIDE DEF o
  <2>2. op'[p].kind = "remove"
    BY <2>1, StepAlone, ControlFacts
  <2>3. shown # {} /\ op[App].kind = "none"
    BY <1>3, IdleIs DEF StartRemove
  <2> QED
    BY <1>3, <2>2, <2>3, ShownIsSwept, FreshOrderly
<1>4. ASSUME StartAdoption(p) PROVE Orderly'
  <2>1. p # App /\ op'[p] = Adopting /\ shown' = shown
    BY <1>4, StepAlone, ControlFacts DEF StartAdoption, view
  <2> QED
    BY <2>1, IdleIs, FreshOrderly
<1>5. ASSUME Crash(p) \/ (p = App /\ Relaunch) PROVE Orderly'
  <2>1. Restarted(p)
    BY <1>5 DEF Crash, Relaunch
  <2>2. op'[p] = IF p = App THEN Adopting ELSE Idle
    BY <2>1, ControlFacts DEF Restarted
  <2>3. p # App => shown' = shown
    BY <2>1 DEF Restarted, ShowNothing, view
  <2> QED
    BY <2>2, <2>3, IdleIs, FreshOrderly
<1> QED
  BY <1>1, <1>2, <1>3, <1>4, <1>5

\* An operation that ends: it failed, or its adoption is done.
LEMMA EndsOrderly ==
  ASSUME Control, Orderly, NEW p \in Procs, Catch(p) \/ (Validate(p) /\ Ready),
         \A q \in Procs \ {p} : op'[q] = op[q], SpentNext, NoneAdded
  PROVE  Orderly'
<1>1. ASSUME Catch(p) PROVE Orderly'
  <2>1. op'[p] = IF op[p].kind \in {"adopt", "select"} THEN Idle ELSE Adopting
    BY <1>1, ControlFacts DEF Catch
  <2>2. IF op[p].kind = "adopt" THEN p = App => shown' = {} ELSE shown' = shown
    BY <1>1 DEF Catch, ShowNothing, view
  <2>3. p # App => shown' = shown
    BY <1>1 DEF Catch, ShowNothing, view
  <2>4. p = App /\ op[p].kind = "select" /\ shown' # {} => RemovalsPending = {}
    BY <2>2, ShownIsSwept
  <2> QED
    BY <2>1, <2>2, <2>3, <2>4, IdleIs, FreshOrderly
<1>2. ASSUME Validate(p), Ready PROVE Orderly'
  <2>1. op[p].at = "validate" /\ op'[p] = Idle /\ (p # App => shown' = shown)
    BY <1>2, ControlFacts DEF Validate, view
  <2>2. op[p].kind = "adopt"
    BY <2>1, ControlFacts DEF InStep, OnPath, RemovalSteps, LateSteps, Failures
  <2>3. p = App => RemovalsPending = {}
    BY <2>1, <2>2 DEF Orderly, Swept
  <2> QED
    BY <2>1, <2>3, IdleIs, FreshOrderly
<1> QED
  BY <1>1, <1>2

\* A step to a failure, or on within a removal.
LEMMA SkipOrderly ==
  ASSUME Control, Orderly, NEW p \in Procs, NEW s \in Steps, op' = At(p, s),
         SpentNext, NoneAdded, shown' = shown,
         s \in RemovalSteps => op[p].at \in RemovalSteps,
         s \in {"claim", "begin"} => op[p].at \in {"claim", "begin"},
         \/ s \in Failures \cup {"groups"} \/ op[p].kind \notin {"adopt", "remove"}
         \/ op[p].at \in RemovalSteps /\ s \in RemovalSteps
         \/ op[p].at = "returned" /\ s = "resume"
  PROVE  Orderly'
<1>1. /\ \A q \in Procs \ {p} : op'[q] = op[q]
      /\ op'[p].at = s /\ WorksOn(p)
  BY UpdatedAt DEF WorksOn
<1> QED
  BY <1>1, OnOrderly

LEMMA GoesOnOrderly ==
  ASSUME Control, Orderly, NEW p \in Procs,
         ClaimGroup(p) \/ ClaimAdoption(p) \/ Fail(p) \/ Leave(p) \/ ReadSeed(p) \/ Return(p)
           \/ (Validate(p) /\ ~Ready),
         \A q \in Procs \ {p} : op'[q] = op[q], SpentNext, NoneAdded
  PROVE  Orderly'
<1>1. ASSUME ClaimGroup(p) PROVE Orderly'
  <2>1. op[p].at = "claim" /\ shown' = shown
        /\ op' = At(p, IF op[p].kind = "derive" THEN "read" ELSE "begin")
    BY <1>1 DEF ClaimGroup, view
  <2>2. CASE op[p].kind = "derive"
    BY <2>1, <2>2, SkipOrderly DEF Steps, RemovalSteps, LateSteps
  <2>3. CASE op[p].kind # "derive"
    BY <2>1, <2>3, SkipOrderly DEF Steps, RemovalSteps
  <2> QED
    BY <2>2, <2>3
<1>2. ASSUME ClaimAdoption(p) PROVE Orderly'
  <2>1. op' = At(p, "groups") /\ shown' = shown
    BY <1>2 DEF ClaimAdoption, view
  <2> QED
    BY <2>1, SkipOrderly DEF Steps, RemovalSteps, LateSteps
<1>3. ASSUME op' = At(p, "thrown"), shown' = shown PROVE Orderly'
  BY <1>3, SkipOrderly DEF Steps, RemovalSteps, LateSteps, Failures
<1>4. ASSUME Fail(p) \/ Skip(p, "thrown") \/ (Validate(p) /\ ~Ready) PROVE Orderly'
  BY <1>3, <1>4 DEF Fail, Skip, Validate, view
<1>5. ASSUME Leave(p) PROVE Orderly'
  <2>1. op[p].at = "discover" /\ op' = At(p, "returned") /\ shown' = shown
    BY <1>5 DEF Leave, Skip, view
  <2>2. op[p].kind \notin {"adopt", "remove"}
    BY <2>1, ControlFacts DEF InStep, OnPath, RemovalSteps, LateSteps, Failures
  <2> QED
    BY <2>1, <2>2, SkipOrderly DEF Steps, RemovalSteps, LateSteps
<1>6. ASSUME ReadSeed(p), ~Skip(p, "thrown") PROVE Orderly'
  <2>1. op[p].at = "read" /\ shown' = shown
        /\ op' = [op EXCEPT ![p].at = "derive", ![p].next = groups[op[p].id].next]
    BY <1>6 DEF ReadSeed, view
  <2>2. op[p].kind = "derive"
    BY <2>1, ControlFacts DEF InStep, OnPath, RemovalSteps, LateSteps, Failures
  <2>3. PICK r \in Operation : r = op[p]
    BY ControlFacts
  <2> DEFINE o == [r EXCEPT !.at = "derive", !.next = groups[op[p].id].next]
  <2>4. op' = [op EXCEPT ![p] = o]
    BY <2>1, <2>3, ControlFacts
  <2>5. o.kind = "derive"
    BY <2>2, <2>3 DEF Operation
  <2> HIDE DEF o
  <2>6. op'[p].kind = "derive"
    BY <2>4, <2>5, StepAlone, ControlFacts
  <2> QED
    BY <2>1, <2>2, <2>6, ShownIsSwept, FreshOrderly
<1>7. ASSUME Return(p) PROVE Orderly'
  <2>1. op[p].at = "returned" /\ shown' = shown
    BY <1>7 DEF Return, view
  <2>2. CASE op[p].kind = "adopt"
    BY <1>7, <2>1, <2>2, SkipOrderly DEF Return, Steps, RemovalSteps, LateSteps
  <2>3. CASE op[p].kind # "adopt"
    <3>1. op'[p] = Adopting
      BY <1>7, <2>3, ControlFacts DEF Return
    <3> QED
      BY <2>1, <3>1, IdleIs, FreshOrderly
  <2> QED
    BY <2>2, <2>3
<1> QED
  BY <1>1, <1>2, <1>4, <1>5, <1>6, <1>7

LEMMA ListedIsSpent ==
  ASSUME Control, NEW x \in Ids \X (Indexes \cup {-1}),
         \/ x[2] = -1 /\ groups[x[1]].lifecycle = "deleting"
         \/ x \in Accounts(groups) \ Active(groups) /\ groups[x[1]].lifecycle = "active"
  PROVE  Spent(x)
<1> DEFINE w == groups[x[1]]
<1>1. x[1] \in Ids /\ w # NoGroup /\ w.wallet \in Wallet
  BY Registered
<1>2. x[1] <= created
  <2>1. created \in Nat
    BY LimitAssumption DEF Control, TypeOK
  <2>2. x[1] \in Nat
    BY <1>1, IndexFacts
  <2> QED
    BY <1>1, <2>1, <2>2 DEF Control, Unused
<1>3. ~(op[App].at \in {"save", "register"} /\ op[App].id = x[1])
  <2>1. op[App].at \in {"save", "register"} => op[App].kind = "import"
    BY ControlFacts DEF InStep, OnPath, RemovalSteps, LateSteps, Failures
  <2> QED
    BY <1>1, <2>1 DEF Control, Importing
<1>4. ASSUME x \in Accounts(groups), x \notin Active(groups), w.lifecycle = "active"
      PROVE  x[2] \in Indexes /\ w.wallet.kind = "seed" /\ x[2] < w.next /\ w.accounts[x[2]] # "active"
  <2>1. x[2] \in Indexes /\ w.accounts[x[2]] # "none" /\ w.accounts[x[2]] # "active"
    BY <1>4 DEF Accounts, Active
  <2>2. ValidGroup(w)
    BY <1>1 DEF Control, Valid
  <2>3. w.wallet.kind = "seed"
    <3>1. ASSUME w.wallet.kind # "seed" PROVE FALSE
      <4>1. {i \in Indexes : w.accounts[i] # "none"} = {0} /\ w.accounts[0] = "active"
        BY <2>2, <3>1 DEF ValidGroup
      <4>2. x[2] \in {i \in Indexes : w.accounts[i] # "none"}
        BY <2>1
      <4> QED
        BY <2>1, <4>1, <4>2
    <3> QED
      BY <3>1
  <2> QED
    BY <1>1, <2>1, <2>3, SeedGroup
<1>5. -1 \notin Indexes
  BY IndexFacts
<1> QED
  BY <1>2, <1>3, <1>4, <1>5 DEF Spent

LEMMA ListOrderly ==
  ASSUME Control, Orderly, NEW p \in Procs, ListRemovals(p),
         \A q \in Procs \ {p} : op'[q] = op[q], SpentNext, NoneAdded
  PROVE  Orderly'
<1> DEFINE marked == {id \in Ids : groups[id].lifecycle = "deleting"} \X {-1}
           left == {x \in Accounts(groups) \ Active(groups) : groups[x[1]].lifecycle = "active"}
           todo == IF op[p].at = "groups" THEN marked ELSE left
           n == IF op[p].at = "groups" THEN 0 ELSE 1
<1>1. op[p].at \in {"groups", "accounts"} /\ shown' = shown /\ groups' = groups
  BY DEF ListRemovals, view, registry
<1>2. op[p].kind = "adopt"
  BY <1>1, ControlFacts DEF InStep, OnPath, RemovalSteps, LateSteps, Failures
<1>3. -1 \notin Indexes
  BY IndexFacts
<1>4. marked \subseteq Ids \X (Indexes \cup {-1}) /\ left \subseteq Ids \X (Indexes \cup {-1})
  BY DEF Accounts
<1>5. /\ op'[p].kind = "adopt" /\ op'[p].at = "resume" /\ op'[p].todo = todo /\ op'[p].next = n
  <2>1. PICK r \in Operation : r = op[p]
    BY ControlFacts
  <2> DEFINE o == [r EXCEPT !.at = "resume", !.todo = todo, !.next = n]
  <2>2. op' = [op EXCEPT ![p] = o]
    BY <2>1, ControlFacts DEF ListRemovals
  <2> HIDE DEF todo, n
  <2>3. o.kind = "adopt" /\ o.at = "resume" /\ o.todo = todo /\ o.next = n
    BY <1>2, <2>1 DEF Operation
  <2> HIDE DEF o
  <2> QED
    BY <2>2, <2>3, StepAlone, ControlFacts
<1>6. n \in {0, 1} /\ \A x \in todo : x[2] = -1 <=> n = 0
  BY <1>3 DEF Accounts
<1>7. ASSUME NEW x \in todo PROVE Spent(x)'
  <2>1. PICK y \in Ids \X (Indexes \cup {-1}) : x = y
    BY <1>4
  <2>2. \/ y[2] = -1 /\ groups[y[1]].lifecycle = "deleting"
        \/ y \in Accounts(groups) \ Active(groups) /\ groups[y[1]].lifecycle = "active"
    BY <2>1
  <2>3. Spent(y)
    BY <2>2, ListedIsSpent
  <2>4. Spent(y)'
    BY <2>3 DEF SpentNext
  <2> QED
    BY <2>1, <2>4
<1>8. Resumes(p)'
  <2> HIDE DEF todo, n
  <2>1. op'[p].at \notin RemovalSteps
    BY <1>5 DEF RemovalSteps, LateSteps
  <2> QED
    BY <1>5, <1>6, <1>7, <2>1 DEF Resumes
<1>9. ASSUME p = App PROVE Swept'
  <2>1. RemovalsPending' = PendingIn(groups) /\ RemovalsPending = PendingIn(groups)
    BY <1>1, PendingIs
  <2>2. GroupsPending' = GroupsPending /\ GroupsPending = marked
    BY <1>3, <2>1 DEF GroupsPending, PendingIn
  <2>3. op[p].at = "accounts" => GroupsPending = {}
    BY <1>2, <1>9 DEF Orderly, Swept
  <2>4. ASSUME op[p].at = "accounts", NEW x \in RemovalsPending PROVE x \in left
    <3>1. x \notin marked
      BY <2>2, <2>3, <2>4
    <3>2. x \in Ids \X Indexes /\ groups[x[1]].accounts[x[2]] = "deleting"
      BY <2>1, <2>4, <3>1 DEF PendingIn
    <3>3. x \in Accounts(groups) /\ x \notin Active(groups) /\ x[1] \in Ids
      BY <3>2 DEF Accounts, Active
    <3>4. groups[x[1]].lifecycle \notin {"none", "deleting"}
      <4>1. groups[x[1]] # NoGroup
        BY <3>3, AccountsAreRegistered, ControlFacts
      <4>2. groups[x[1]].lifecycle # "none"
        BY <3>3, <4>1 DEF Control, Formed
      <4>3. groups[x[1]].lifecycle # "deleting"
        <5>1. marked = {}
          BY <2>2, <2>3, <2>4
        <5>2. groups[x[1]].lifecycle = "deleting" => <<x[1], -1>> \in marked
          BY <3>3
        <5> QED
          BY <5>1, <5>2
      <4> QED
        BY <4>2, <4>3
    <3>5. groups[x[1]].lifecycle = "active"
      BY <3>3, <3>4, ControlFacts DEF Group
    <3> QED
      BY <3>3, <3>5
  <2>5. Awaited' = todo
    BY <1>5, <1>9 DEF Awaited, RemovalSteps, LateSteps
  <2>6. IF n = 0 THEN GroupsPending' \subseteq todo ELSE RemovalsPending' \subseteq todo
    BY <1>1, <2>1, <2>2, <2>4
  <2> HIDE DEF todo, n
  <2> QED
    BY <1>5, <1>9, <2>5, <2>6 DEF Swept
<1> QED
  BY <1>1, <1>8, <1>9, OrderlyIs

LEMMA ResumeOrderly ==
  ASSUME Control, Orderly, NEW p \in Procs, ResumeRemoval(p),
         \A q \in Procs \ {p} : op'[q] = op[q], SpentNext, NoneAdded
  PROVE  Orderly'
<1>1. op[p].at = "resume" /\ shown' = shown /\ groups' = groups
  BY DEF ResumeRemoval, view, registry
<1>2. op[p].kind = "adopt" /\ op[p].at \notin RemovalSteps
  BY <1>1, ControlFacts DEF InStep, OnPath, RemovalSteps, LateSteps, Failures
<1>3. RemovalsPending' = RemovalsPending /\ GroupsPending' = GroupsPending
  BY <1>1, PendingIs DEF GroupsPending
<1>4. /\ op[p].next \in {0, 1}
      /\ \A x \in op[p].todo : Spent(x) /\ (x[2] = -1 <=> op[p].next = 0)
  BY <1>2 DEF Orderly, Resumes
<1>5. p = App => /\ Awaited = op[p].todo
                 /\ IF op[p].next = 0 THEN GroupsPending \subseteq op[p].todo
                    ELSE RemovalsPending \subseteq op[p].todo
  <2>1. p = App => Awaited = op[p].todo
    BY <1>2 DEF Awaited
  <2> QED
    BY <1>1, <1>2, <2>1 DEF Orderly, Swept
<1>6. ASSUME op[p].todo = {} PROVE Orderly'
  <2> DEFINE s == IF op[p].next = 0 THEN "accounts" ELSE "validate"
  <2>1. op' = At(p, s) /\ s \in Steps /\ s \notin RemovalSteps
    BY <1>6 DEF ResumeRemoval, Steps, RemovalSteps, LateSteps
  <2>2. op'[p].at = s /\ WorksOn(p)
    <3> HIDE DEF s
    <3> QED
      BY <2>1, UpdatedAt DEF WorksOn
  <2>3. Resumes(p)'
    BY <2>1, <2>2, ResumesStays DEF Orderly
  <2>4. p = App => Swept'
    BY <1>2, <1>3, <1>4, <1>5, <1>6, <2>1, <2>2 DEF Swept, WorksOn
  <2> QED
    BY <1>1, <2>3, <2>4, OrderlyIs
<1>7. ASSUME op[p].todo # {} PROVE Orderly'
  <2>1. PICK x : x = First(op[p].todo)
    OBVIOUS
  <2> DEFINE pick == {x[2]} \ {-1}
  <2>2. /\ x \in op[p].todo /\ x[1] \in Ids /\ x = <<x[1], x[2]>>
        /\ (x[2] = -1 /\ pick = {}) \/ (x[2] \in Indexes /\ pick = {x[2]})
    BY <1>1, <1>7, <2>1, NextRemoval
  <2> HIDE DEF pick
  <2>3. /\ op'[p].kind = "adopt" /\ op'[p].at = "claim" /\ op'[p].id = x[1]
        /\ op'[p].todo = op[p].todo \ {x} /\ op'[p].pick = pick /\ op'[p].next = op[p].next
    <3>1. op' = [op EXCEPT ![p] = [op[p] EXCEPT !.at = "claim", !.id = x[1],
                                     !.todo = op[p].todo \ {x}, !.pick = pick]]
      BY <1>7, <2>1, ControlFacts DEF ResumeRemoval, pick
    <3>2. PICK r \in Operation : r = op[p]
      BY ControlFacts
    <3> DEFINE o == [r EXCEPT !.at = "claim", !.id = x[1], !.todo = r.todo \ {x}, !.pick = pick]
    <3>3. /\ o.kind = "adopt" /\ o.at = "claim" /\ o.id = x[1]
          /\ o.todo = op[p].todo \ {x} /\ o.pick = pick /\ o.next = op[p].next
      BY <1>2, <3>2 DEF Operation
    <3>4. op' = [op EXCEPT ![p] = o]
      BY <3>1, <3>2
    <3> HIDE DEF o
    <3> QED
      BY <3>3, <3>4, StepAlone, ControlFacts
  <2>4. op[p].todo \subseteq Ids \X (Indexes \cup {-1})
    BY ControlFacts DEF Operation
  <2>5. \A y \in op[p].todo : Spent(y)'
    BY <1>4, <2>4 DEF SpentNext
  <2>6. -1 \notin Indexes
    BY IndexFacts
  <2>7. (op'[p].pick = {} <=> op'[p].next = 0)
    BY <1>4, <2>2, <2>3, <2>6
  <2>8. op'[p].pick = {} => x = <<op'[p].id, -1>>
    BY <2>2, <2>3
  <2>9. \A i \in op'[p].pick : x = <<op'[p].id, i>>
    BY <2>2, <2>3
  <2>10. Resumes(p)'
    <3>1. Spent(x)'
      BY <2>2, <2>5
    <3>2. op'[p].pick = {} => Spent(<<op[p].id, -1>>)'
      BY <2>8, <3>1 DEF Spent
    <3>3. ASSUME NEW i \in op'[p].pick PROVE Spent(<<op[p].id, i>>)'
      BY <2>9, <3>1, <3>3 DEF Spent
    <3> QED
      BY <1>4, <2>3, <2>5, <2>7, <3>2, <3>3 DEF Resumes
  <2>11. ASSUME p = App PROVE Swept'
    <3>1. Awaited' = op[p].todo
      <4>1. Awaited' = (op[p].todo \ {x}) \cup
              IF pick = {} THEN {<<x[1], -1>>} ELSE {x[1]} \X pick
        BY <2>3, <2>11 DEF Awaited, RemovalSteps
      <4>2. (IF pick = {} THEN {<<x[1], -1>>} ELSE {x[1]} \X pick) = {x}
        BY <2>2
      <4> QED
        BY <2>2, <4>1, <4>2
    <3> QED
      BY <1>3, <1>5, <2>3, <2>11, <3>1 DEF Swept, RemovalSteps
  <2> QED
    BY <1>1, <2>10, <2>11, OrderlyIs
<1> QED
  BY <1>6, <1>7

\* An operation that neither adopts nor removes.
LEMMA AsideOrderly ==
  ASSUME Control, Orderly, NEW p \in Procs, \A q \in Procs \ {p} : op'[q] = op[q],
         SpentNext, NoneAdded, shown' = shown,
         op[p].kind \notin {"adopt", "remove"}, op'[p].kind \notin {"adopt", "remove"}
  PROVE  Orderly'
  BY ShownIsSwept, FreshOrderly

\* The updates leave every operation but the one that makes them where it is.
Goes(p) == /\ \A q \in Procs \ {p} : op'[q] = op[q]
           /\ SpentNext /\ NoneAdded /\ shown' = shown

LEMMA QuietGoes ==
  ASSUME Control, NEW p \in Procs, NEW s \in Steps, Skip(p, s), s \notin {"save", "register"}
  PROVE  Goes(p) /\ op'[p].at = s /\ WorksOn(p)
<1>1. /\ \A q \in Procs \ {p} : op'[q] = op[q]
      /\ op'[p].at = s /\ WorksOn(p) /\ groups' = groups /\ created' = created /\ shown' = shown
  BY SkipIs DEF WorksOn, OthersWait
<1> QED
  BY <1>1, QuietNext DEF Goes

\* An update of one group that an operation holds.
LEMMA UpdateGoesOn ==
  ASSUME Control, NEW p \in Procs, NEW id \in Ids, NEW n \in Group, NEW h, NEW s \in Steps,
         Update(p, [groups EXCEPT ![id] = n], h, At(p, s)), s \notin {"save", "register"},
         Descends(groups[id], n)
  PROVE  /\ \A q \in Procs \ {p} : op'[q] = op[q]
         /\ SpentNext /\ shown' = shown /\ WorksOn(p)
         /\ groups'[id] \in {groups[id], n}
         /\ \A other \in Ids \ {id} : groups'[other] = groups[other]
         /\ \/ groups'[id] = n /\ op' = At(p, s)
            \/ op' = At(p, "thrown")
            \/ op' = At(p, "refused") /\ ~Accepted([groups EXCEPT ![id] = n], h)
<1>1. /\ created' = created /\ shown' = shown
      /\ groups'[id] \in {groups[id], n}
      /\ \A other \in Ids \ {id} : groups'[other] = groups[other]
      /\ \A other \in Ids : groups'[other] \in Group
      /\ \/ groups'[id] = n /\ op' = At(p, s)
         \/ op' = At(p, "thrown")
         \/ op' = At(p, "refused") /\ ~Accepted([groups EXCEPT ![id] = n], h)
  BY GroupGoes
<1>2. PICK t \in {s, "thrown", "refused"} : op' = At(p, t)
  BY <1>1
<1>3. t \in Steps /\ t \notin {"save", "register"}
  BY <1>2 DEF Steps
<1>4. /\ \A q \in Procs \ {p} : op'[q] = op[q]
      /\ op'[p].at = t /\ WorksOn(p)
  BY <1>2, <1>3, UpdatedAt DEF WorksOn
<1>5. created \in Nat
  BY LimitAssumption DEF Control, TypeOK
<1>6. ImportsNew
  BY <1>3, <1>4, ImportStays
<1>7. SpentNext
  BY <1>1, <1>5, <1>6, StaysSpent
<1> QED
  BY <1>1, <1>4, <1>7

LEMMA RegisterOrderly ==
  ASSUME Control, Orderly, NEW p \in Procs, Register(p)
  PROVE  Orderly' /\ op'[p].at # "refused" /\ \A q \in Procs \ {p} : op'[q] = op[q]
<1> DEFINE id == op[p].id
           n == NewGroup(op[p].wallet)
<1>1. op[p].at = "register" /\ op[p].kind = "import" /\ p = App /\ id \in Ids
  BY ControlFacts DEF Register, InStep, OnPath, RemovalSteps, LateSteps, Failures
<1>2. /\ op[p].wallet \in Wallet /\ groups[id] = NoGroup
      /\ \A other \in Ids \ {id} : groups[other].wallet # op[p].wallet
  BY <1>1 DEF Control, Importing
<1>3. /\ n \in Group /\ n.lifecycle = "active"
      /\ \A i \in Indexes : n.accounts[i] # "deleting"
  BY <1>2, NewGroupIs
<1>4. ASSUME Skip(p, "thrown")
      PROVE  Orderly' /\ op'[p].at # "refused" /\ \A q \in Procs \ {p} : op'[q] = op[q]
  <2>1. Goes(p) /\ op'[p].at = "thrown" /\ WorksOn(p)
    BY <1>4, QuietGoes DEF Steps
  <2> QED
    BY <1>1, <2>1, AsideOrderly DEF Goes, WorksOn
<1>5. ASSUME ~Skip(p, "thrown")
      PROVE  Orderly' /\ op'[p].at # "refused" /\ \A q \in Procs \ {p} : op'[q] = op[q]
  <2> DEFINE at == IF hasWallet THEN Imported(p) ELSE "select"
  <2>1. PICK r \in Operation : r = op[p]
    BY ControlFacts
  <2>2. at \in {"select", "discover", "returned"}
    BY DEF Imported
  <2> HIDE DEF at
  <2> DEFINE o == [r EXCEPT !.inserted = FALSE, !.kind = "imported", !.at = at]
  <2>3. o.kind = "imported" /\ o.at = at
    BY DEF Operation
  <2>4. Update(p, [groups EXCEPT ![id] = n], home, [op EXCEPT ![p] = o])
    <3>1. Update(p, [groups EXCEPT ![id] = n], home,
                 [op EXCEPT ![p].inserted = FALSE, ![p].kind = "imported", ![p].at = at])
      BY <1>5 DEF Register, at
    <3>2. [op EXCEPT ![p].inserted = FALSE, ![p].kind = "imported", ![p].at = at]
            = [op EXCEPT ![p] = o]
      BY <2>1, ControlFacts
    <3> QED
      BY <3>1, <3>2
  <2>5. ~Contains(groups, FirstOf(op[p].wallet))
    BY <1>5 DEF Register
  <2> HIDE DEF n, o
  <2>6. /\ created' = created /\ shown' = shown
        /\ groups'[id] \in {groups[id], n}
        /\ \A other \in Ids \ {id} : groups'[other] = groups[other]
        /\ \A other \in Ids : groups'[other] \in Group
        /\ \/ op' = [op EXCEPT ![p] = o]
           \/ op' = At(p, "thrown")
           \/ op' = At(p, "refused") /\ ~Accepted([groups EXCEPT ![id] = n], home)
    BY <1>1, <1>3, <2>4, GroupGoes
  <2>7. \A other \in Ids : groups[other].wallet # op[p].wallet
    BY <1>2, NoGroupTyped, WalletKinds
  <2>8. Accepted([groups EXCEPT ![id] = n], home)
    BY <1>1, <1>2, <2>5, <2>7, RegisterAccepted DEF n
  <2>9. op' = [op EXCEPT ![p] = o] \/ op' = At(p, "thrown")
    BY <2>6, <2>8
  <2>10. /\ \A q \in Procs \ {p} : op'[q] = op[q]
         /\ op'[p].kind \in {"import", "imported"} /\ op'[p].at \notin {"save", "register", "refused"}
    <3>1. CASE op' = [op EXCEPT ![p] = o]
      BY <2>2, <2>3, <3>1, StepAlone, ControlFacts
    <3>2. CASE op' = At(p, "thrown")
      BY <1>1, <3>2, UpdatedAt DEF Steps
    <3> QED
      BY <2>9, <3>1, <3>2
  <2>11. created \in Nat
    BY LimitAssumption DEF Control, TypeOK
  <2>12. SpentNext
    BY <1>1, <2>6, <2>10, <2>11, ImportStays, StaysSpent
  <2>13. NoneAdded
    BY <1>1, <1>3, <2>6, FewerPending
  <2> QED
    BY <1>1, <2>6, <2>10, <2>12, <2>13, AsideOrderly
<1> QED
  BY <1>4, <1>5

LEMMA SelectOrderly ==
  ASSUME Control, Orderly, NEW p \in Procs, Select(p)
  PROVE  Orderly' /\ op'[p].at # "refused" /\ \A q \in Procs \ {p} : op'[q] = op[q]
<1> DEFINE x == <<op[p].id, IF op[p].kind = "imported" THEN 0 ELSE CHOOSE i \in op[p].pick : TRUE>>
           s == IF op[p].kind = "imported" THEN Imported(p) ELSE "returned"
<1>1. op[p].at = "select" /\ op[p].kind \notin {"adopt", "remove"}
  BY ControlFacts DEF Select, InStep, OnPath, RemovalSteps, LateSteps, Failures
<1>2. s \in {"discover", "returned"}
  BY DEF Imported
<1>3. \/ Skip(p, "thrown") \/ Skip(p, s)
      \/ x \in Active(groups) /\ Update(p, groups, Address(groups, x), At(p, s))
  BY DEF Select
<1> HIDE DEF x, s
<1>4. /\ groups' = groups /\ created' = created /\ shown' = shown
      /\ op' = At(p, "thrown") \/ op' = At(p, s)
  <2>1. CASE Skip(p, "thrown") \/ Skip(p, s)
    BY <2>1 DEF Skip, registry, view, counters
  <2>2. CASE x \in Active(groups) /\ Update(p, groups, Address(groups, x), At(p, s))
    BY <2>2, SelectAccepted, UpdateIs, ControlFacts DEF view
  <2> QED
    BY <1>3, <2>1, <2>2
<1>5. PICK t \in {"thrown", "discover", "returned"} : op' = At(p, t)
  BY <1>2, <1>4
<1>6. /\ \A q \in Procs \ {p} : op'[q] = op[q]
      /\ op'[p].at = t /\ op'[p].kind = op[p].kind
  BY <1>5, UpdatedAt DEF Steps
<1>7. SpentNext /\ NoneAdded
  BY <1>4, <1>6, QuietNext
<1> QED
  BY <1>1, <1>4, <1>6, <1>7, AsideOrderly

LEMMA DeriveOrderly ==
  ASSUME Control, Orderly, NEW p \in Procs, Derive(p)
  PROVE  Orderly' /\ op'[p].at # "refused" /\ \A q \in Procs \ {p} : op'[q] = op[q]
<1> DEFINE id == op[p].id
           w == groups[id]
           n == AddAccounts(w, op[p].pick)
<1>1. op[p].at = "derive" /\ op[p].kind = "derive" /\ id \in Ids
  BY ControlFacts DEF Derive, InStep, OnPath, RemovalSteps, LateSteps, Failures
<1>2. w.wallet.kind = "seed" /\ op[p].pick # {} /\ \A i \in op[p].pick : i >= op[p].next
  BY <1>1, ControlFacts DEF Deriving, Picks
<1>3. op[p].pick \in SUBSET Indexes
  BY ControlFacts DEF Operation
<1>4. ASSUME Skip(p, "thrown")
      PROVE  Orderly' /\ op'[p].at # "refused" /\ \A q \in Procs \ {p} : op'[q] = op[q]
  <2>1. Goes(p) /\ op'[p].at = "thrown" /\ WorksOn(p)
    BY <1>4, QuietGoes DEF Steps
  <2> QED
    BY <1>1, <2>1, AsideOrderly DEF Goes, WorksOn
<1>5. ASSUME ~Skip(p, "thrown")
      PROVE  Orderly' /\ op'[p].at # "refused" /\ \A q \in Procs \ {p} : op'[q] = op[q]
  <2>1. /\ w.lifecycle = "active" /\ w.next = op[p].next
        /\ \A i \in op[p].pick : ~Contains(groups, Derived[w.wallet.root][i])
        /\ Update(p, [groups EXCEPT ![id] = n], home, At(p, "returned"))
    BY <1>5 DEF Derive
  <2>2. Accepted([groups EXCEPT ![id] = n], home)
    BY <1>1, <1>2, <1>3, <2>1, DeriveAccepted
  <2>3. /\ w \in Group /\ w # NoGroup /\ w.next \in Nat
    BY <1>1, <1>2, SeedGroup
  <2>4. /\ n \in Group /\ n.wallet = w.wallet /\ n.lifecycle = w.lifecycle
        /\ n.next - 1 \in op[p].pick
        /\ \A i \in Indexes : n.accounts[i] = IF i \in op[p].pick THEN "active" ELSE w.accounts[i]
    BY <1>2, <1>3, <2>3, AddAccountsIs
  <2> HIDE DEF n
  <2>5. Descends(w, n)
    <3>1. n.next \in Nat /\ n.next - 1 \in Nat /\ n.next - 1 >= w.next
      BY <1>2, <1>3, <2>1, <2>4, IndexFacts DEF Group
    <3>2. w.next <= n.next
      BY <2>3, <3>1
    <3>3. ASSUME NEW i \in Indexes, i < w.next, n.accounts[i] = "active" PROVE w.accounts[i] = "active"
      <4>1. i \notin op[p].pick
        BY <1>2, <2>1, <2>3, <3>3, IndexFacts
      <4> QED
        BY <2>4, <3>3, <4>1
    <3> QED
      BY <2>3, <2>4, <3>2, <3>3 DEF Descends
  <2>6. /\ \A q \in Procs \ {p} : op'[q] = op[q]
        /\ SpentNext /\ shown' = shown /\ WorksOn(p)
        /\ groups'[id] \in {w, n}
        /\ \A other \in Ids \ {id} : groups'[other] = groups[other]
        /\ op' = At(p, "returned") \/ op' = At(p, "thrown")
    BY <1>1, <2>1, <2>2, <2>4, <2>5, UpdateGoesOn DEF Steps
  <2>7. NoneAdded
    BY <1>1, <2>4, <2>6, FewerPending
  <2>8. op'[p].at # "refused"
    BY <2>6, UpdatedAt DEF Steps
  <2> QED
    BY <1>1, <2>6, <2>7, <2>8, AsideOrderly DEF WorksOn
<1> QED
  BY <1>4, <1>5

\* A removal goes back to its adoption when what it was to remove is gone.
LEMMA ReturnsOrderly ==
  ASSUME Control, Orderly, NEW p \in Procs, op[p].at \in {"begin"} \cup LateSteps,
         op' = At(p, "returned"), SpentNext, NoneAdded, shown' = shown,
         op[p].pick = {} => groups'[op[p].id].lifecycle # "deleting",
         \A i \in op[p].pick : groups'[op[p].id].accounts[i] # "deleting"
  PROVE  Orderly'
<1>1. /\ \A q \in Procs \ {p} : op'[q] = op[q]
      /\ op'[p].at = "returned" /\ WorksOn(p)
  BY UpdatedAt DEF WorksOn, Steps
<1>2. op'[p].at \notin RemovalSteps /\ op[p].at \in RemovalSteps
  BY <1>1 DEF RemovalSteps, LateSteps
<1>3. Resumes(p)'
  BY <1>1, <1>2, ResumesStays DEF Orderly
<1>4. op[p].id \in Ids /\ op[p].pick \in SUBSET Indexes
      /\ (op[p].pick = {} \/ \E i \in Indexes : op[p].pick = {i})
  BY AtWork
<1>5. RemovalsPending' \subseteq RemovalsPending /\ RemovalsPending' = PendingIn(groups')
  BY PendingIs DEF NoneAdded
<1>6. GroupsPending' \subseteq GroupsPending /\ GroupsPending' = {x \in PendingIn(groups') : x[2] = -1}
  BY <1>5 DEF GroupsPending
<1>7. op[p].pick = {} => <<op[p].id, -1>> \notin RemovalsPending'
  BY <1>5 DEF PendingIn
<1>8. \A i \in op[p].pick : <<op[p].id, i>> \notin RemovalsPending'
  <2>1. -1 \notin Indexes
    BY IndexFacts
  <2> QED
    BY <1>4, <1>5, <2>1 DEF PendingIn
<1>9. ASSUME p = App, op[p].kind = "adopt" PROVE Swept'
  <2>1. Awaited' = op[p].todo
    BY <1>1, <1>2, <1>9 DEF Awaited, WorksOn
  <2>2. Awaited = op[p].todo \cup
          IF op[p].pick = {} THEN {<<op[p].id, -1>>} ELSE {op[p].id} \X op[p].pick
    BY <1>2, <1>9 DEF Awaited
  <2>3. op[p].pick = {} <=> op[p].next = 0
    BY <1>2, <1>9 DEF Orderly, Resumes
  <2>4. IF op[p].next = 0 THEN GroupsPending \subseteq Awaited ELSE RemovalsPending \subseteq Awaited
    BY <1>2, <1>9 DEF Orderly, Swept
  <2>5. CASE op[p].next = 0
    <3>1. Awaited = op[p].todo \cup {<<op[p].id, -1>>}
      BY <2>2, <2>3, <2>5
    <3>2. GroupsPending' \subseteq op[p].todo
      BY <1>5, <1>6, <1>7, <2>3, <2>4, <2>5, <3>1
    <3> QED
      BY <1>1, <1>9, <2>1, <2>5, <3>2 DEF Swept, WorksOn
  <2>6. CASE op[p].next # 0
    <3>1. Awaited = op[p].todo \cup ({op[p].id} \X op[p].pick)
      BY <2>2, <2>3, <2>6
    <3>2. RemovalsPending' \subseteq op[p].todo
      BY <1>5, <1>8, <2>4, <2>6, <3>1
    <3> QED
      BY <1>1, <1>9, <2>1, <2>6, <3>2 DEF Swept, WorksOn
  <2> QED
    BY <2>5, <2>6
<1>10. ASSUME p = App, op[p].kind = "remove" PROVE Swept'
  BY <1>1, <1>10 DEF Swept, WorksOn
<1>11. op[p].kind \in {"adopt", "remove"}
  BY AtWork
<1> QED
  BY <1>1, <1>3, <1>9, <1>10, <1>11, OrderlyIs

\* An adoption begins no removal: what it resumes was begun before.
LEMMA ResumedIsBegun ==
  ASSUME Control, Orderly, NEW p \in Procs, op[p].at = "begin", op[p].kind = "adopt",
         groups[op[p].id].lifecycle = "active"
  PROVE  ~Whole(p) /\ \A i \in op[p].pick : groups[op[p].id].accounts[i] # "active"
<1>1. op[p].id \in Ids /\ op[p].pick \in SUBSET Indexes /\ -1 \notin Indexes
  BY AtWork, IndexFacts
<1>2. /\ op[p].pick = {} => Spent(<<op[p].id, -1>>)
      /\ \A i \in op[p].pick : Spent(<<op[p].id, i>>)
  BY DEF Orderly, Resumes, RemovalSteps
<1>3. op[p].pick # {}
  BY <1>2 DEF Spent
<1>4. \A i \in op[p].pick : /\ groups[op[p].id].wallet.kind = "seed"
                            /\ groups[op[p].id].accounts[i] # "active"
  BY <1>1, <1>2, NoGroupTyped DEF Spent
<1> QED
  BY <1>3, <1>4 DEF Whole

\* The app begins a removal when none is left.
LEMMA BeginsOrderly ==
  ASSUME Control, Orderly, NEW p \in Procs, op[p].at = "begin", op[p].kind = "remove",
         NEW pick \in {{}, op[p].pick}, NEW h, groups[op[p].id].lifecycle = "active",
         Update(p, [groups EXCEPT ![op[p].id] = MarkDeleting(groups[op[p].id], pick)], h,
                At(p, "terminalize")),
         Accepted([groups EXCEPT ![op[p].id] = MarkDeleting(groups[op[p].id], pick)], h)
  PROVE  Orderly' /\ op'[p].at # "refused" /\ \A q \in Procs \ {p} : op'[q] = op[q]
<1> DEFINE id == op[p].id
           w == groups[id]
           n == MarkDeleting(w, pick)
<1>1. /\ id \in Ids /\ w \in Group /\ pick \in SUBSET Indexes
      /\ pick = {} \/ \E i \in Indexes : pick = {i}
  BY AtWork
<1>2. /\ n \in Group /\ n.wallet = w.wallet /\ n.next = w.next
      /\ pick = {} => n.lifecycle = "deleting" /\ n.accounts = w.accounts
      /\ pick # {} => /\ n.lifecycle = w.lifecycle
                      /\ \A i \in Indexes : n.accounts[i] = IF i \in pick THEN "deleting" ELSE w.accounts[i]
  BY <1>1, MarkDeletingIs
<1>3. w # NoGroup /\ w.next \in Nat
  BY <1>1, NoGroupTyped, IndexFacts DEF Group
<1> HIDE DEF n
<1>4. Descends(w, n)
  BY <1>2, <1>3 DEF Descends
<1>5. /\ \A q \in Procs \ {p} : op'[q] = op[q]
      /\ SpentNext /\ shown' = shown /\ WorksOn(p)
      /\ groups'[id] \in {w, n}
      /\ \A other \in Ids \ {id} : groups'[other] = groups[other]
      /\ op' = At(p, "terminalize") \/ op' = At(p, "thrown")
  BY <1>1, <1>2, <1>4, UpdateGoesOn DEF Steps, n
<1>6. op'[p].at \in {"terminalize", "thrown"}
  BY <1>5, UpdatedAt DEF Steps
<1>7. p = App /\ op'[p].kind = "remove"
  BY <1>5, ControlFacts DEF InStep, WorksOn
<1>8. PendingIn(groups) = {}
  BY <1>7, PendingIs DEF Orderly, Swept
<1>9. \A other \in Ids, i \in Indexes : groups[other].accounts[i] # "deleting"
  <2>1. ASSUME NEW other \in Ids, NEW i \in Indexes, groups[other].accounts[i] = "deleting"
        PROVE  FALSE
    <3>1. i # -1
      BY IndexFacts
    <3>2. <<other, i>> \in PendingIn(groups)
      BY <2>1, <3>1 DEF PendingIn
    <3> QED
      BY <1>8, <3>2
  <2> QED
    BY <2>1
<1>10. OneDeletion'
  <2>1. \A i, j \in Indexes : n.accounts[i] = "deleting" /\ n.accounts[j] = "deleting" => i = j
    BY <1>1, <1>2, <1>9
  <2>2. \A other \in Ids, i, j \in Indexes :
          groups'[other].accounts[i] = "deleting" /\ groups'[other].accounts[j] = "deleting" => i = j
    BY <1>1, <1>5, <1>9, <2>1
  <2> QED
    BY <2>2 DEF OneDeletion, Deletions
<1>11. \A q \in Procs : Resumes(q)'
  <2>1. ASSUME NEW q \in Procs, q # p PROVE Resumes(q)'
    BY <1>5, <2>1, ResumesStays DEF Orderly, WorksOn
  <2>2. Resumes(p)'
    BY <1>7 DEF Resumes
  <2> QED
    BY <2>1, <2>2
<1>12. Swept'
  BY <1>6, <1>7 DEF Swept
<1> QED
  BY <1>5, <1>6, <1>10, <1>11, <1>12 DEF Orderly

LEMMA RemovalSkips ==
  ASSUME Control, Orderly, NEW p \in Procs, op[p].at \in {"begin"} \cup LateSteps,
         NEW s \in {"thrown"} \cup LateSteps, Skip(p, s)
  PROVE  Orderly' /\ op'[p].at # "refused" /\ \A q \in Procs \ {p} : op'[q] = op[q]
<1>1. s \in Steps /\ s \notin {"save", "register", "refused", "claim", "begin"}
  BY DEF Steps, LateSteps
<1>2. Goes(p) /\ op'[p].at = s /\ op' = At(p, s)
  BY <1>1, QuietGoes DEF Skip
<1>3. op[p].at \in RemovalSteps /\ (s \in Failures \/ s \in RemovalSteps)
  BY DEF RemovalSteps, Failures
<1> QED
  BY <1>1, <1>2, <1>3, SkipOrderly DEF Goes

LEMMA BeginGroupOrderly ==
  ASSUME Control, Orderly, NEW p \in Procs, BeginGroupRemoval(p)
  PROVE  Orderly' /\ op'[p].at # "refused" /\ \A q \in Procs \ {p} : op'[q] = op[q]
<1> DEFINE w == groups[op[p].id]
           Good == Orderly' /\ op'[p].at # "refused" /\ \A q \in Procs \ {p} : op'[q] = op[q]
<1>1. op[p].at = "begin" /\ Whole(p) /\ op[p].kind \in {"remove", "adopt"} /\ op[p].id \in Ids
      /\ op[p].pick \in SUBSET Indexes
  BY AtWork DEF BeginGroupRemoval
<1>2. ASSUME Skip(p, "thrown") \/ Skip(p, "terminalize") PROVE Good
  <2> HIDE DEF Good
  <2>1. "terminalize" \in LateSteps
    BY DEF LateSteps
  <2> QED
    BY <1>1, <1>2, <2>1, RemovalSkips DEF Good
<1>3. ASSUME w = NoGroup, op[p].pick = {}, Skip(p, "returned") PROVE Good
  <2>1. Goes(p) /\ op'[p].at = "returned" /\ op' = At(p, "returned") /\ groups' = groups
    BY <1>3, QuietGoes DEF Skip, registry, Steps
  <2>2. groups'[op[p].id].lifecycle # "deleting"
    BY <1>3, <2>1, NoGroupTyped
  <2> QED
    BY <1>1, <1>3, <2>1, <2>2, ReturnsOrderly DEF Goes
<1>4. ASSUME w.lifecycle = "active",
             Update(p, [groups EXCEPT ![op[p].id] = MarkDeleting(w, {})], Survivor(p),
                    At(p, "terminalize"))
      PROVE  Good
  <2>1. op[p].kind = "remove"
    BY <1>1, <1>4, ResumedIsBegun
  <2> QED
    BY <1>1, <1>4, <2>1, BeginsOrderly, BeginGroupAccepted
<1> QED
  BY <1>2, <1>3, <1>4 DEF BeginGroupRemoval

LEMMA BeginAccountOrderly ==
  ASSUME Control, Orderly, NEW p \in Procs, BeginAccountRemoval(p)
  PROVE  Orderly' /\ op'[p].at # "refused" /\ \A q \in Procs \ {p} : op'[q] = op[q]
<1> DEFINE w == groups[op[p].id]
           others == {i \in Indexes \ op[p].pick : w.accounts[i] = "active"}
           Good == Orderly' /\ op'[p].at # "refused" /\ \A q \in Procs \ {p} : op'[q] = op[q]
<1>1. op[p].at = "begin" /\ ~Whole(p) /\ op[p].kind \in {"remove", "adopt"}
  BY AtWork DEF BeginAccountRemoval
<1>2. ASSUME Skip(p, "thrown") \/ Skip(p, "terminalize") PROVE Good
  <2> HIDE DEF Good
  <2>1. "terminalize" \in LateSteps
    BY DEF LateSteps
  <2> QED
    BY <1>1, <1>2, <2>1, RemovalSkips DEF Good
<1>3. ASSUME w.lifecycle = "active", Removed(p) # {}, Removed(p) \subseteq Active(groups), others # {},
             Update(p, [groups EXCEPT ![op[p].id] = MarkDeleting(w, op[p].pick)], Survivor(p),
                    At(p, "terminalize"))
      PROVE  Good
  <2>1. PICK x \in Removed(p) : x \in Active(groups) /\ x[1] = op[p].id /\ x[2] \in op[p].pick
    BY <1>1, <1>3 DEF Removed, AccountsIn
  <2>2. w.accounts[x[2]] = "active"
    BY <2>1 DEF Active
  <2>3. op[p].kind = "remove"
    BY <1>1, <1>3, <2>1, <2>2, ResumedIsBegun
  <2> QED
    BY <1>1, <1>3, <2>3, BeginsOrderly, BeginAccountAccepted
<1> QED
  BY <1>2, <1>3 DEF BeginAccountRemoval

LEMMA FinishOrderly ==
  ASSUME Control, Orderly, NEW p \in Procs, FinishRemoval(p)
  PROVE  Orderly' /\ op'[p].at # "refused" /\ \A q \in Procs \ {p} : op'[q] = op[q]
<1> DEFINE id == op[p].id
           w == groups[id]
           n == IF Whole(p) THEN NoGroup ELSE Without(w, op[p].pick)
<1>1. /\ op[p].at = "finish" /\ op[p].at \in LateSteps
      /\ Update(p, [groups EXCEPT ![id] = n], home, At(p, "returned"))
  BY FinishIs DEF LateSteps
<1>2. /\ id \in Ids /\ w \in Group /\ op[p].pick \in SUBSET Indexes
  BY <1>1, AtWork
<1>3. IF Whole(p) THEN w.lifecycle = "deleting" ELSE w.lifecycle = "active"
  BY <1>1, ControlFacts DEF Begun
<1>4. w # NoGroup /\ w.next \in Nat
  BY <1>2, <1>3, NoGroupTyped, IndexFacts DEF Group
<1>5. Accepted([groups EXCEPT ![id] = n], home)
  BY <1>1, FinishAccepted DEF Orderly
<1>6. n \in Group /\ (n = NoGroup \/ (n.wallet = w.wallet /\ n.next = w.next /\ n.lifecycle = "active"))
      /\ (op[p].pick = {} => n = NoGroup)
      /\ \A i \in Indexes : n.accounts[i] = "none" \/ (n.accounts[i] = w.accounts[i] /\ i \notin op[p].pick)
  <2>1. CASE Whole(p)
    BY <2>1, NoGroupTyped DEF NoGroup
  <2>2. CASE ~Whole(p)
    BY <1>2, <1>3, <2>2, WithoutIs DEF Whole
  <2> QED
    BY <2>1, <2>2
<1> HIDE DEF n
<1>7. Descends(w, n)
  <2>1. n = NoGroup \/ w.lifecycle = "active"
    BY <1>3 DEF n
  <2> QED
    BY <1>4, <1>6, <2>1 DEF Descends
<1>8. /\ \A q \in Procs \ {p} : op'[q] = op[q]
      /\ SpentNext /\ shown' = shown /\ WorksOn(p)
      /\ groups'[id] \in {w, n}
      /\ \A other \in Ids \ {id} : groups'[other] = groups[other]
      /\ (groups'[id] = n /\ op' = At(p, "returned")) \/ op' = At(p, "thrown")
  BY <1>1, <1>2, <1>5, <1>6, <1>7, UpdateGoesOn DEF Steps
<1>9. NoneAdded
  <2>1. n.lifecycle # "deleting"
    BY <1>6, NoGroupTyped
  <2>2. \A i \in Indexes : n.accounts[i] = "deleting" => w.accounts[i] = "deleting"
    BY <1>6
  <2> QED
    BY <1>2, <1>8, <2>1, <2>2, FewerPending
<1>10. CASE op' = At(p, "thrown")
  <2>1. op'[p].at = "thrown"
    BY <1>10, UpdatedAt DEF Steps
  <2> QED
    BY <1>8, <1>9, <2>1, OnOrderly DEF Failures, RemovalSteps, LateSteps
<1>11. CASE groups'[id] = n /\ op' = At(p, "returned")
  <2>1. op'[p].at = "returned"
    BY <1>11, UpdatedAt DEF Steps
  <2>2. op[p].pick = {} => groups'[id].lifecycle # "deleting"
    BY <1>6, <1>11, NoGroupTyped
  <2>3. \A i \in op[p].pick : groups'[id].accounts[i] # "deleting"
    BY <1>2, <1>6, <1>11
  <2> QED
    BY <1>1, <1>8, <1>9, <1>11, <2>1, <2>2, <2>3, ReturnsOrderly
<1> QED
  BY <1>8, <1>10, <1>11

LEMMA StoresOrderly ==
  ASSUME Control, Orderly, NEW p \in Procs,
         Discard(p) \/ SaveSecret(p) \/ Terminalize(p) \/ DeleteSecret(p)
           \/ RemoveConnections(p) \/ RemoveBalances(p),
         op[p].at # "refused"
  PROVE  Orderly' /\ op'[p].at # "refused" /\ \A q \in Procs \ {p} : op'[q] = op[q]
<1> DEFINE Good == Orderly' /\ op'[p].at # "refused" /\ \A q \in Procs \ {p} : op'[q] = op[q]
<1>1. ASSUME Discard(p) \/ SaveSecret(p) PROVE Good
  <2>1. op[p].kind = "import"
    BY <1>1, ControlFacts DEF Discard, SaveSecret, InStep, OnPath, RemovalSteps, LateSteps, Failures
  <2>2. PICK r \in Operation : r = op[p]
    BY ControlFacts
  <2> DEFINE b == op[p].wallet.kind = "seed" \/ op[p].wallet.root \notin keys
             o == [r EXCEPT !.inserted = FALSE]
             s == [r EXCEPT !.at = "register", !.inserted = b]
  <2>3. /\ o.kind = "import" /\ o.at = r.at /\ o.id = r.id
        /\ s.kind = "import" /\ s.at = "register" /\ s.id = r.id
    BY <2>1, <2>2 DEF Operation
  <2>4. Discard(p) => op' = [op EXCEPT ![p] = o]
    BY <2>2, ControlFacts DEF Discard
  <2>5. SaveSecret(p) => op' = [op EXCEPT ![p] = s]
    <3>1. SaveSecret(p) => op' = [op EXCEPT ![p].at = "register", ![p].inserted = b]
      BY DEF SaveSecret
    <3> HIDE DEF b
    <3> QED
      BY <2>2, <3>1, ControlFacts
  <2> HIDE DEF o, s
  <2>6. op[p].at \in {"thrown", "refused", "save"} /\ (SaveSecret(p) => op[p].at = "save")
    BY <1>1 DEF Discard, SaveSecret
  <2>7. /\ \A q \in Procs \ {p} : op'[q] = op[q]
        /\ op'[p].kind = "import" /\ op'[p].at # "refused"
        /\ \/ op'[p].at \notin {"save", "register"}
           \/ op[p].at \in {"save", "register"} /\ op'[p].id = op[p].id
    <3>1. CASE Discard(p)
      BY <2>2, <2>3, <2>4, <2>6, <3>1, StepAlone, ControlFacts
    <3>2. CASE SaveSecret(p)
      BY <2>2, <2>3, <2>5, <2>6, <3>2, StepAlone, ControlFacts
    <3> QED
      BY <1>1, <3>1, <3>2
  <2>8. groups' = groups /\ created' = created /\ shown' = shown
    BY <1>1 DEF Discard, SaveSecret, registry, counters, view
  <2> QED
    BY <2>1, <2>7, <2>8, QuietNext, AsideOrderly
<1>2. ASSUME Terminalize(p) \/ DeleteSecret(p) \/ RemoveConnections(p) \/ RemoveBalances(p)
      PROVE  Good
  <2>1. /\ op[p].at \in {"terminalize", "secret", "connections", "balances"}
        /\ groups' = groups /\ created' = created /\ shown' = shown
    BY <1>2 DEF Terminalize, DeleteSecret, RemoveConnections, RemoveBalances, Skip, registry,
         counters, view
  <2>2. PICK s \in {"thrown", "secret", "connections", "balances", "finish"} : op' = At(p, s)
    BY <1>2 DEF Terminalize, DeleteSecret, RemoveConnections, RemoveBalances, Skip
  <2>3. /\ \A q \in Procs \ {p} : op'[q] = op[q]
        /\ op'[p].at = s /\ s \in Steps
    BY <2>2, UpdatedAt DEF Steps
  <2>4. SpentNext /\ NoneAdded
    BY <2>1, <2>3, QuietNext
  <2>5. op[p].at \in RemovalSteps /\ (s \in Failures \/ s \in RemovalSteps)
    BY <2>1, <2>2 DEF RemovalSteps, LateSteps, Failures
  <2>6. s \notin {"claim", "begin"}
    OBVIOUS
  <2>7. Orderly'
    BY <2>1, <2>2, <2>3, <2>4, <2>5, <2>6, SkipOrderly
  <2> QED
    BY <2>3, <2>7
<1> QED
  BY <1>1, <1>2

LEMMA FreeOrderly ==
  ASSUME Control, Orderly, NEW p \in Procs, FreeStepOf(p)
  PROVE  Orderly' /\ op'[p].at # "refused" /\ \A q \in Procs \ {p} : op'[q] = op[q]
<1>1. /\ \A q \in Procs \ {p} : op'[q] = op[q]
      /\ groups' = groups /\ created' = created
      /\ op'[p].at \notin {"save", "register", "refused"}
  BY FreeSteps DEF OthersWait, registry
<1>2. SpentNext /\ NoneAdded
  BY <1>1, QuietNext
<1>3. Orderly'
  <2>1. \/ p = App /\ (\E x \in Ids \X Indexes : StartSelect(x))
        \/ \E id \in Ids, pick \in SUBSET Indexes : p = App /\ (StartDerive(id, pick) \/ StartRemove(id, pick))
        \/ StartAdoption(p) \/ Crash(p) \/ (p = App /\ Relaunch)
        \/ Catch(p) \/ Validate(p) \/ ListRemovals(p) \/ ResumeRemoval(p)
        \/ ClaimGroup(p) \/ ClaimAdoption(p) \/ Fail(p) \/ Leave(p) \/ ReadSeed(p) \/ Return(p)
    BY DEF FreeStepOf
  <2>2. CASE Catch(p) \/ (Validate(p) /\ Ready)
    BY <1>1, <1>2, <2>2, EndsOrderly
  <2>3. CASE ListRemovals(p)
    BY <1>1, <1>2, <2>3, ListOrderly
  <2>4. CASE ResumeRemoval(p)
    BY <1>1, <1>2, <2>4, ResumeOrderly
  <2>5. CASE ClaimGroup(p) \/ ClaimAdoption(p) \/ Fail(p) \/ Leave(p) \/ ReadSeed(p) \/ Return(p)
               \/ (Validate(p) /\ ~Ready)
    BY <1>1, <1>2, <2>5, GoesOnOrderly
  <2>6. CASE \E id \in Ids, pick \in SUBSET Indexes :
               p = App /\ (StartDerive(id, pick) \/ StartRemove(id, pick))
    BY <1>1, <1>2, <2>6, StartsOrderly
  <2>7. CASE \/ p = App /\ (\E x \in Ids \X Indexes : StartSelect(x))
             \/ StartAdoption(p) \/ Crash(p) \/ (p = App /\ Relaunch)
    BY <1>1, <1>2, <2>7, StartsOrderly
  <2> QED
    BY <2>1, <2>2, <2>3, <2>4, <2>5, <2>6, <2>7
<1> QED
  BY <1>1, <1>3

LEMMA OutsideOrderly ==
  ASSUME Control, Orderly, NEW a \in Addresses, Connect(a) \/ StoreBalance(a)
  PROVE  Orderly' /\ op' = op
<1>1. groups' = groups /\ created' = created /\ op' = op /\ shown' = shown
  BY DEF Connect, StoreBalance, registry, counters, view
<1>2. App \in Procs /\ \A q \in Procs \ {App} : op'[q] = op[q]
  BY <1>1, ControlFacts
<1>3. op[App].at \in {"save", "register"} => op'[App].id = op[App].id
  BY <1>1
<1>4. SpentNext /\ NoneAdded
  BY <1>1, <1>2, <1>3, QuietNext
<1>5. Resumes(App)' /\ Swept'
  <2>1. Resumes(App)'
    BY <1>1, <1>4, <1>2, ResumesStays DEF Orderly, WorksOn
  <2>2. RemovalsPending' = RemovalsPending /\ GroupsPending' = GroupsPending /\ Awaited' = Awaited
    BY <1>1, PendingIs DEF GroupsPending, Awaited
  <2> QED
    BY <1>1, <2>1, <2>2 DEF Orderly, Swept
<1> QED
  BY <1>1, <1>2, <1>4, <1>5, OrderlyIs

LEMMA NextOrderly ==
  ASSUME Control, Orderly, NeverRefused, Next
  PROVE  Orderly' /\ NeverRefused'
<1>1. ASSUME NEW p \in Procs,
             Orderly' /\ op'[p].at # "refused" /\ \A q \in Procs \ {p} : op'[q] = op[q]
      PROVE  Orderly' /\ NeverRefused'
  BY <1>1 DEF NeverRefused
<1>2. ASSUME NEW p \in Procs, FreeStepOf(p) PROVE Orderly' /\ NeverRefused'
  BY <1>1, <1>2, FreeOrderly
<1>3. ASSUME NEW w \in Wallet, StartImport(w) PROVE Orderly' /\ NeverRefused'
  <2> DEFINE o == [Idle EXCEPT !.kind = "import", !.id = created + 1, !.wallet = w,
                               !.at = IF w.kind = "watchOnly" THEN "register" ELSE "save"]
  <2>1. o.at # "refused"
    BY DEF Idle
  <2> HIDE DEF o
  <2>2. op' = [op EXCEPT ![App] = Adopting] \/ op' = [op EXCEPT ![App] = o]
    BY <1>3 DEF StartImport, o
  <2>3. op'[App].at # "refused" /\ \A q \in Procs \ {App} : op'[q] = op[q]
    BY <2>1, <2>2, StepAlone, ControlFacts, IdleIs
  <2> QED
    BY <1>1, <1>3, <2>3, StartImportOrderly, ControlFacts
<1>4. ASSUME Start PROVE Orderly' /\ NeverRefused'
  <2>1. (\E w \in Wallet : StartImport(w)) \/ FreeStepOf(App) \/ \E p \in Extensions : FreeStepOf(p)
    BY <1>4 DEF Start, FreeStepOf
  <2> QED
    BY <1>2, <1>3, <2>1, ControlFacts DEF Procs
<1>5. ASSUME NEW p \in Procs, Wait(p) \/ Fail(p) \/ Crash(p) PROVE Orderly' /\ NeverRefused'
  <2>1. ClaimGroup(p) \/ ClaimAdoption(p) \/ Fail(p) \/ Crash(p)
    BY <1>5 DEF Wait
  <2>2. FreeStepOf(p)
    BY <2>1 DEF FreeStepOf
  <2> QED
    BY <1>2, <2>2
<1>6. ASSUME NEW p \in Procs, Continue(p) PROVE Orderly' /\ NeverRefused'
  <2>1. \/ FreeStepOf(p)
        \/ Discard(p) \/ SaveSecret(p) \/ Terminalize(p) \/ DeleteSecret(p)
        \/ RemoveConnections(p) \/ RemoveBalances(p)
        \/ Register(p) \/ Select(p) \/ Derive(p) \/ BeginGroupRemoval(p) \/ BeginAccountRemoval(p)
        \/ FinishRemoval(p)
    BY <1>6 DEF Continue, FreeStepOf
  <2>2. op[p].at # "refused"
    BY DEF NeverRefused
  <2>3. CASE \/ Discard(p) \/ SaveSecret(p) \/ Terminalize(p) \/ DeleteSecret(p)
             \/ RemoveConnections(p) \/ RemoveBalances(p)
    BY <1>1, <2>2, <2>3, StoresOrderly
  <2> QED
    BY <1>1, <1>2, <2>1, <2>3, RegisterOrderly, SelectOrderly, DeriveOrderly, BeginGroupOrderly,
       BeginAccountOrderly, FinishOrderly
<1>7. ASSUME Relaunch PROVE Orderly' /\ NeverRefused'
  BY <1>2, <1>7, ControlFacts DEF FreeStepOf
<1>8. ASSUME NEW a \in Addresses, Connect(a) \/ StoreBalance(a) PROVE Orderly' /\ NeverRefused'
  BY <1>8, OutsideOrderly DEF NeverRefused
<1> QED
  BY <1>4, <1>5, <1>6, <1>7, <1>8 DEF Next

LEMMA InitOrderly == ASSUME Init PROVE Orderly /\ NeverRefused
<1>1. \A p \in Procs : op[p] = IF p = App THEN Adopting ELSE Idle
  BY DEF Init
<1>2. App \in Procs
  BY DEF Procs
<1>3. OneDeletion
  BY IndexFacts DEF Init, OneDeletion, Deletions, NoGroup
<1>4. \A p \in Procs : Resumes(p)
  BY <1>1, IdleIs DEF Resumes, RemovalSteps, LateSteps
<1>5. Swept
  BY <1>1, <1>2, IdleIs DEF Swept, RemovalSteps, LateSteps
<1>6. NeverRefused
  BY <1>1, IdleIs DEF NeverRefused
<1> QED
  BY <1>3, <1>4, <1>5, <1>6 DEF Orderly

\* The manager never proposes a registry that the store refuses: every update that the code of
\* WalletGroupManager.swift makes passes validate and validateTransition
\* (WalletRegistry.swift), so that no operation is stuck on one and every removal that was
\* begun can be finished by any adoption.
THEOREM ProposalsAreAccepted == Spec => []NeverRefused
<1>1. Init => Orderly /\ NeverRefused
  BY InitOrderly
<1>2. Control /\ Orderly /\ NeverRefused /\ [Next]_vars => Orderly' /\ NeverRefused'
  <2>1. ASSUME Control, Orderly, NeverRefused, UNCHANGED vars PROVE Orderly' /\ NeverRefused'
    <3>1. groups' = groups /\ shown' = shown /\ op' = op /\ created' = created
      BY <2>1 DEF vars, registry, view, counters
    <3>2. Orderly'
      BY <2>1, <3>1 DEF Orderly, OneDeletion, Deletions, Swept, RemovalsPending, GroupsPending,
           Awaited, Resumes, Spent, Accounts
    <3> QED
      BY <2>1, <3>1, <3>2 DEF NeverRefused
  <2> QED
    BY <2>1, NextOrderly
<1>3. Spec => [](Orderly /\ NeverRefused)
  BY <1>1, <1>2, ControlHolds, PTL DEF Spec
<1> QED
  BY <1>3, PTL

-----------------------------------------------------------------------------
(* The life of a group as the rest of the wallet sees it.                    *)

Imports == {"save", "register"}
ActiveGroups == {id \in Ids : groups[id].lifecycle = "active"}

WithSecret(id) ==
  \/ id \in seeds /\ (groups[id] # NoGroup \/ IsImported(id))
  \/ groups[id].wallet.kind = "privateKey" /\ groups[id].wallet.root \in keys

Named(id) ==
  \E i \in Indexes :
    /\ groups[id].accounts[i] # "none"
    /\ Address(groups, <<id, i>>) \in connected \cup {default} \cup cached

\* Nothing but the names of groups changes, and only active groups get one.
Relates ==
  /\ \A id \in Ids : Phase(id)' = Phase(id) /\ (WithSecret(id)' <=> WithSecret(id))
  /\ \A id \in Ids \ ActiveGroups : Named(id)' => Named(id)

\* One group goes on with its life.
Moves(id) ==
  /\ \A other \in Ids \ {id} : /\ Phase(other)' = Phase(other)
                               /\ WithSecret(other)' <=> WithSecret(other)
  /\ \A other \in Ids : Named(other)' <=> Named(other)
  /\ \/ Phase(id) = "new" /\ Phase(id)' = "new" /\ WithSecret(id)'
     \/ Phase(id) = "new" /\ Phase(id)' = "active" /\ (WithSecret(id) => WithSecret(id)')
     \/ Phase(id) = "new" /\ Phase(id)' = "gone" /\ ~WithSecret(id)'
     \/ Phase(id) \in {"active", "deleting"} /\ Phase(id)' = Phase(id) /\ ~WithSecret(id)'
     \/ Phase(id) = "active" /\ Phase(id)' = "deleting" /\ (WithSecret(id)' <=> WithSecret(id))
     \/ /\ Phase(id) = "deleting" /\ Phase(id)' = "gone"
        /\ ~Named(id) /\ ~WithSecret(id) /\ ~WithSecret(id)'

LEMMA SecretsAre ==
  /\ GroupsWithSecret = {id \in Ids : WithSecret(id)}
  /\ GroupsWithSecret' = {id \in Ids : WithSecret(id)'}
  BY DEF GroupsWithSecret, WithSecret

LEMMA NamesAre ==
  /\ GroupsNamed = {id \in Ids : Named(id)}
  /\ GroupsNamed' = {id \in Ids : Named(id)'}
  BY DEF GroupsNamed, Named

LEMMA RelatesIs == ASSUME Control, Relates PROVE Authority!Next
<1> DEFINE phase == [id \in Ids |-> Phase(id)]
<1>1. phase' = phase /\ GroupsWithSecret' = GroupsWithSecret
  BY SecretsAre DEF Relates
<1>2. \A id \in ActiveGroups : Phase(id) = "active"
  BY NoGroupTyped DEF ActiveGroups, Phase
<1>3. GroupsNamed' \subseteq GroupsNamed \cup {id \in Ids : phase[id] = "active"}
  BY <1>2, NamesAre DEF Relates
<1>4. Authority!Relate
  BY <1>1, <1>3 DEF Authority!Relate, Authority!Active
<1> QED
  BY <1>4 DEF Authority!Next

LEMMA MovesIs == ASSUME NEW id \in Ids, Moves(id) PROVE Authority!Next
<1> DEFINE phase == [other \in Ids |-> Phase(other)]
<1>1. phase' = [phase EXCEPT ![id] = Phase(id)']
  BY DEF Moves
<1>2. GroupsNamed' = GroupsNamed /\ (id \in GroupsNamed <=> Named(id))
  BY NamesAre DEF Moves
<1>3. /\ WithSecret(id)' => GroupsWithSecret' = GroupsWithSecret \cup {id}
      /\ ~WithSecret(id)' => GroupsWithSecret' = GroupsWithSecret \ {id}
      /\ (WithSecret(id)' <=> WithSecret(id)) => GroupsWithSecret' = GroupsWithSecret
      /\ id \in GroupsWithSecret <=> WithSecret(id)
  BY SecretsAre DEF Moves
<1>4. phase[id] = Phase(id) /\ (Phase(id)' = Phase(id) => phase' = phase)
  BY <1>1
<1> HIDE DEF phase
<1>5. CASE Phase(id) = "new" /\ Phase(id)' = "new" /\ WithSecret(id)'
  <2>1. Authority!Save(id)
    BY <1>2, <1>3, <1>4, <1>5 DEF Authority!Save, phase
  <2> QED
    BY <2>1 DEF Authority!Next
<1>6. CASE Phase(id) = "new" /\ Phase(id)' = "active" /\ (WithSecret(id) => WithSecret(id)')
  <2>1. GroupsWithSecret' \in {GroupsWithSecret, GroupsWithSecret \cup {id}}
    BY <1>3, <1>6
  <2>2. Authority!Register(id)
    BY <1>1, <1>2, <1>4, <1>6, <2>1 DEF Authority!Register, Authority!To, phase
  <2> QED
    BY <2>2 DEF Authority!Next, Authority!Register, Authority!To
<1>7. CASE Phase(id) = "new" /\ Phase(id)' = "gone" /\ ~WithSecret(id)'
  <2>1. Authority!Abandon(id)
    BY <1>1, <1>2, <1>3, <1>4, <1>7 DEF Authority!Abandon, Authority!To, phase
  <2> QED
    BY <2>1 DEF Authority!Next, Authority!Abandon, Authority!To
<1>8. CASE Phase(id) = "active" /\ Phase(id)' = "active" /\ ~WithSecret(id)'
  <2>1. Authority!TakeBack(id)
    BY <1>2, <1>3, <1>4, <1>8 DEF Authority!TakeBack, phase
  <2> QED
    BY <2>1 DEF Authority!Next
<1>9. CASE Phase(id) = "deleting" /\ Phase(id)' = "deleting" /\ ~WithSecret(id)'
  <2>1. Authority!Forget(id)
    BY <1>2, <1>3, <1>4, <1>9 DEF Authority!Forget, phase
  <2> QED
    BY <2>1 DEF Authority!Next
<1>10. CASE Phase(id) = "active" /\ Phase(id)' = "deleting" /\ (WithSecret(id)' <=> WithSecret(id))
  <2>1. Authority!Begin(id)
    BY <1>1, <1>2, <1>3, <1>4, <1>10 DEF Authority!Begin, Authority!To, phase
  <2> QED
    BY <2>1 DEF Authority!Next, Authority!Begin, Authority!To
<1>11. CASE /\ Phase(id) = "deleting" /\ Phase(id)' = "gone"
            /\ ~Named(id) /\ ~WithSecret(id) /\ ~WithSecret(id)'
  <2>1. Authority!Finish(id)
    BY <1>1, <1>2, <1>3, <1>4, <1>11 DEF Authority!Finish, Authority!To, phase
  <2> QED
    BY <2>1 DEF Authority!Next, Authority!Finish, Authority!To
<1> QED
  BY <1>5, <1>6, <1>7, <1>8, <1>9, <1>10, <1>11 DEF Moves

LEMMA LifeIs ==
  ASSUME Control, NEW id \in Ids
  PROVE  /\ groups[id] # NoGroup => Phase(id) = groups[id].lifecycle /\ id <= created
         /\ groups[id] = NoGroup => /\ Phase(id) = "new" <=> id > created \/ IsImported(id)
                                    /\ Phase(id) \in {"new", "gone"}
                                    /\ WithSecret(id) <=> id \in seeds /\ IsImported(id)
                                    /\ ~Named(id)
         /\ IsImported(id) => groups[id] = NoGroup /\ id <= created
<1>1. id > created => groups[id] = NoGroup
  BY DEF Control, Unused
<1>2. id \in Nat /\ created \in Nat
  BY IndexFacts, LimitAssumption DEF Control, TypeOK
<1>3. IsImported(id) => groups[id] = NoGroup /\ id <= created
  <2>1. ASSUME IsImported(id) PROVE op[App].at \in {"save", "register"} /\ op[App].id = id /\ InStep(App)
    BY <2>1, ControlFacts DEF IsImported
  <2>2. IsImported(id) => op[App].kind = "import"
    BY <2>1 DEF InStep, OnPath, RemovalSteps, LateSteps, Failures
  <2> QED
    BY <2>1, <2>2 DEF Control, Importing
<1>4. groups[id] = NoGroup => ~Named(id) /\ groups[id].wallet.kind # "privateKey"
  BY DEF Named, NoGroup, NoWallet
<1> QED
  BY <1>1, <1>2, <1>3, <1>4 DEF Phase, WithSecret

\* A step that is about no import keeps what is imported.
LEMMA ImportedStays ==
  ASSUME Control, NEW p \in Procs, \A q \in Procs \ {p} : op'[q] = op[q],
         \/ op[p].at \notin Imports /\ op'[p].at \notin Imports
         \/ op[p].at \in Imports /\ op'[p].at \in Imports /\ op'[p].id = op[p].id
  PROVE  \A id \in Ids : IsImported(id)' <=> IsImported(id)
<1>1. App = p \/ op'[App] = op[App]
  BY ControlFacts
<1> QED
  BY <1>1 DEF IsImported, Imports

\* A group that is left alone lives on as it did.
LEMMA GroupLivesOn ==
  ASSUME NEW id \in Ids, groups'[id] = groups[id], created' = created,
         id \in seeds' <=> id \in seeds,
         groups[id].wallet.kind = "privateKey" =>
           (groups[id].wallet.root \in keys' <=> groups[id].wallet.root \in keys),
         IsImported(id)' <=> IsImported(id)
  PROVE  Phase(id)' = Phase(id) /\ (WithSecret(id)' <=> WithSecret(id))
  BY DEF Phase, WithSecret

LEMMA SameNames ==
  ASSUME NEW id \in Ids, groups'[id].wallet = groups[id].wallet, UNCHANGED accountState,
         \A i \in Indexes : groups'[id].accounts[i] = "none" <=> groups[id].accounts[i] = "none"
  PROVE  Named(id)' <=> Named(id)
  BY DEF Named, Address, accountState

LEMMA NewNames ==
  ASSUME NEW id \in Ids, groups'[id].wallet = groups[id].wallet, UNCHANGED accountState,
         \A i \in Indexes : groups[id].accounts[i] = "none" => groups'[id].accounts[i] = "none"
  PROVE  Named(id)' => Named(id)
  BY DEF Named, Address, accountState

\* A step that changes no group, no secret and nothing that is stored of accounts.
LEMMA QuietRelates ==
  ASSUME groups' = groups, created' = created, UNCHANGED <<secrets, accountState>>,
         \A id \in Ids : IsImported(id)' <=> IsImported(id)
  PROVE  Relates
<1>1. UNCHANGED accountState /\ seeds' = seeds /\ keys' = keys
  BY DEF secrets
<1> QED
  BY <1>1, GroupLivesOn, SameNames DEF Relates

\* The app leaves an import that it has not registered.
LEMMA Abandons ==
  ASSUME Control, groups' = groups, created' = created, UNCHANGED <<secrets, accountState>>,
         op[App].at \in Imports, op'[App].at \notin Imports
  PROVE  Authority!Next
<1>1. PICK id \in Ids : id = op[App].id
  BY ControlFacts DEF Imports, InStep, OnPath, RemovalSteps, LateSteps, Failures
<1>2. /\ \A other \in Ids : ~IsImported(other)'
      /\ IsImported(id) /\ \A other \in Ids \ {id} : ~IsImported(other)
  BY <1>1 DEF IsImported, Imports
<1>3. UNCHANGED accountState /\ seeds' = seeds /\ keys' = keys
  BY DEF secrets
<1>4. \A other \in Ids \ {id} : Phase(other)' = Phase(other) /\ (WithSecret(other)' <=> WithSecret(other))
  BY <1>2, <1>3, GroupLivesOn
<1>5. \A other \in Ids : Named(other)' <=> Named(other)
  BY <1>3, SameNames
<1>6. groups[id] = NoGroup /\ id <= created /\ Phase(id) = "new"
  BY <1>1, <1>2, LifeIs
<1>7. id \in Nat /\ created \in Nat
  BY <1>1, IndexFacts, LimitAssumption DEF Control, TypeOK
<1>8. Phase(id)' = "gone" /\ ~WithSecret(id)'
  <2>1. groups'[id] = NoGroup /\ ~(id > created') /\ ~IsImported(id)'
    BY <1>1, <1>2, <1>6, <1>7
  <2>2. groups'[id].wallet.kind # "privateKey"
    BY <2>1 DEF NoGroup, NoWallet
  <2> QED
    BY <2>1, <2>2 DEF Phase, WithSecret
<1>9. Moves(id)
  BY <1>4, <1>5, <1>6, <1>8 DEF Moves
<1> QED
  BY <1>1, <1>9, MovesIs

\* What changes only where a process is.
LEMMA QuietImplements ==
  ASSUME Control, NEW p \in Procs, \A q \in Procs \ {p} : op'[q] = op[q],
         groups' = groups, created' = created, UNCHANGED <<secrets, accountState>>,
         op'[p].at \notin Imports
  PROVE  Authority!Next
<1>1. CASE op[p].at \in Imports
  <2>1. p = App
    BY <1>1, ControlFacts DEF Imports, InStep, OnPath, RemovalSteps, LateSteps, Failures
  <2> QED
    BY <1>1, <2>1, Abandons
<1>2. CASE op[p].at \notin Imports
  <2>1. \A id \in Ids : IsImported(id)' <=> IsImported(id)
    BY <1>2, ImportedStays
  <2> QED
    BY <2>1, QuietRelates, RelatesIs
<1> QED
  BY <1>1, <1>2

LEMMA FreeImplements ==
  ASSUME Control, NEW p \in Procs, FreeStepOf(p)
  PROVE  Authority!Next
<1>1. /\ \A q \in Procs \ {p} : op'[q] = op[q]
      /\ groups' = groups /\ created' = created /\ UNCHANGED <<secrets, accountState>>
      /\ op'[p].at \notin Imports
  BY FreeSteps DEF OthersWait, registry, Imports
<1> QED
  BY <1>1, QuietImplements

LEMMA SkipImplements ==
  ASSUME Control, NEW p \in Procs, NEW s \in Steps, Skip(p, s), s \notin Imports
  PROVE  Authority!Next
<1>1. /\ \A q \in Procs \ {p} : op'[q] = op[q]
      /\ groups' = groups /\ created' = created /\ UNCHANGED <<secrets, accountState>>
      /\ op'[p].at \notin Imports
  BY SkipIs DEF OthersWait
<1> QED
  BY <1>1, QuietImplements

-----------------------------------------------------------------------------
(* Import.                                                                   *)

LEMMA StartImportImplements ==
  ASSUME Control, NEW w \in Wallet, StartImport(w)
  PROVE  Authority!Next
<1> DEFINE o == [Idle EXCEPT !.kind = "import", !.id = created + 1, !.wallet = w,
                             !.at = IF w.kind = "watchOnly" THEN "register" ELSE "save"]
<1>1. /\ op[App] = Idle /\ groups' = groups /\ created < MaxGroups /\ UNCHANGED accountState
      /\ seeds' = seeds /\ keys' = keys /\ App \in Procs
      /\ \/ op' = [op EXCEPT ![App] = Adopting] /\ created' = created
         \/ op' = [op EXCEPT ![App] = o] /\ created' = created + 1
  BY ControlFacts DEF StartImport, registry, secrets
<1>2. o.id = created + 1 /\ o.at \in Imports
  BY DEF Idle, Imports
<1> HIDE DEF o
<1>3. \A id \in Ids : ~IsImported(id)
  BY <1>1, IdleIs DEF IsImported
<1>4. CASE op' = [op EXCEPT ![App] = Adopting] /\ created' = created
  <2>1. op'[App] = Adopting /\ \A q \in Procs \ {App} : op'[q] = op[q]
    BY <1>1, <1>4, StepAlone, ControlFacts
  <2>2. op'[App].at \notin Imports
    BY <2>1, IdleIs DEF Imports
  <2>3. UNCHANGED <<secrets, accountState>>
    BY <1>1 DEF secrets
  <2> QED
    BY <1>1, <1>4, <2>1, <2>2, <2>3, QuietImplements
<1>5. CASE op' = [op EXCEPT ![App] = o] /\ created' = created + 1
  <2>1. op'[App] = o
    BY <1>1, <1>5, StepAlone, ControlFacts
  <2>2. \A id \in Ids : IsImported(id)' <=> id = created + 1
    BY <1>2, <2>1 DEF IsImported, Imports
  <2>3. ASSUME NEW id \in Ids PROVE Phase(id)' = Phase(id) /\ (WithSecret(id)' <=> WithSecret(id))
    <3>1. id \in Nat /\ created \in Nat
      BY IndexFacts, LimitAssumption DEF Control, TypeOK
    <3>2. (id > created' \/ IsImported(id)') <=> (id > created \/ IsImported(id))
      BY <1>3, <1>5, <2>2, <3>1
    <3>3. IsImported(id)' => groups[id] = NoGroup /\ id \notin seeds
      BY <2>2, <3>1 DEF Control, Unused
    <3> QED
      BY <1>1, <1>3, <3>2, <3>3 DEF Phase, WithSecret
  <2>4. \A id \in Ids : Named(id)' <=> Named(id)
    BY <1>1, SameNames
  <2>5. Relates
    BY <2>3, <2>4 DEF Relates
  <2> QED
    BY <2>5, RelatesIs
<1> QED
  BY <1>1, <1>4, <1>5

LEMMA SaveSecretImplements ==
  ASSUME Control, NEW p \in Procs, SaveSecret(p)
  PROVE  Authority!Next
<1> DEFINE w == op[p].wallet
<1>0. PICK id \in Ids : id = op[p].id
  BY ControlFacts DEF SaveSecret, InStep, OnPath, RemovalSteps, LateSteps, Failures
<1>1. /\ op[p].at = "save" /\ p = App /\ op[p].kind = "import"
      /\ groups' = groups /\ created' = created /\ UNCHANGED accountState
      /\ IF w.kind = "seed" THEN seeds' = seeds \cup {id} /\ keys' = keys
                            ELSE keys' = keys \cup {w.root} /\ seeds' = seeds
  BY <1>0, ControlFacts DEF SaveSecret, registry, counters, InStep, OnPath, RemovalSteps, LateSteps, Failures
<1>2. /\ \A q \in Procs \ {p} : op'[q] = op[q]
      /\ op'[p].at = "register" /\ op'[p].id = op[p].id
  BY ControlFacts DEF SaveSecret, Operation
<1>3. /\ w \in Wallet /\ groups[id] = NoGroup /\ w.kind # "watchOnly"
      /\ \A other \in Ids \ {id} : groups[other].wallet # w
  BY <1>0, <1>1 DEF Control, Importing
<1>4. \A other \in Ids : IsImported(other)' <=> IsImported(other)
  BY <1>1, <1>2, ImportedStays DEF Imports
<1>5. IsImported(id)
  BY <1>0, <1>1 DEF IsImported
<1> HIDE DEF w
<1>6. \A other \in Ids : Named(other)' <=> Named(other)
  BY <1>1, SameNames
<1>7. CASE w.kind = "seed"
  <2>1. \A other \in Ids \ {id} : Phase(other)' = Phase(other) /\ (WithSecret(other)' <=> WithSecret(other))
    BY <1>1, <1>4, <1>7, GroupLivesOn
  <2>2. Phase(id) = "new" /\ Phase(id)' = "new"
    BY <1>1, <1>3, <1>4, <1>5 DEF Phase
  <2>3. WithSecret(id)'
    BY <1>1, <1>4, <1>5, <1>7 DEF WithSecret
  <2>4. Moves(id)
    BY <1>6, <2>1, <2>2, <2>3 DEF Moves
  <2> QED
    BY <1>1, <2>4, MovesIs
<1>8. CASE w.kind = "privateKey"
  <2>1. ASSUME NEW other \in Ids, groups[other].wallet.kind = "privateKey"
        PROVE  groups[other].wallet.root # w.root
    <3>1. groups[other] # NoGroup
      BY <2>1 DEF NoGroup, NoWallet
    <3>2. groups[other].wallet \in Wallet /\ groups[other].wallet # w
      BY <1>3, <3>1, ControlFacts DEF WellFormed
    <3> QED
      BY <1>3, <1>8, <2>1, <3>2, SameWallet
  <2>2. \A other \in Ids : Phase(other)' = Phase(other) /\ (WithSecret(other)' <=> WithSecret(other))
    BY <1>1, <1>4, <1>8, <2>1, GroupLivesOn
  <2>3. Relates
    BY <1>6, <2>2 DEF Relates
  <2> QED
    BY <2>3, RelatesIs
<1> QED
  BY <1>3, <1>7, <1>8, WalletKinds

\* An update that had an effect, or not, is of one group and of nothing else.
LEMMA UpdateMoves ==
  ASSUME Control, NEW p \in Procs, NEW id \in Ids, NEW n \in Group, NEW h, NEW o,
         Update(p, [groups EXCEPT ![id] = n], h, [op EXCEPT ![p] = o]), o.at \notin Imports
  PROVE  \/ Authority!Next
         \/ /\ groups'[id] = n /\ created' = created /\ UNCHANGED accountState
            /\ seeds' = seeds /\ keys' = keys /\ op'[p].at \notin Imports
            /\ \A q \in Procs \ {p} : op'[q] = op[q]
            /\ \A other \in Ids \ {id} : groups'[other] = groups[other]
<1>1. /\ created' = created /\ groups'[id] \in {groups[id], n}
      /\ \A other \in Ids \ {id} : groups'[other] = groups[other]
      /\ \/ op' = [op EXCEPT ![p] = o]
         \/ op' = At(p, "thrown")
         \/ op' = At(p, "refused")
  BY GroupGoes
<1>2. UNCHANGED <<secrets, accountState>> /\ seeds' = seeds /\ keys' = keys
  BY UpdateIs, ControlFacts DEF secrets
<1>3. /\ \A q \in Procs \ {p} : op'[q] = op[q]
      /\ op'[p].at \notin Imports
  <2>1. CASE op' = [op EXCEPT ![p] = o]
    BY <2>1, StepAlone, ControlFacts
  <2>2. ASSUME NEW t \in {"thrown", "refused"}, op' = At(p, t)
        PROVE  op'[p].at = t /\ \A q \in Procs \ {p} : op'[q] = op[q]
    BY <2>2, StepIs, ControlFacts DEF Steps
  <2> QED
    BY <1>1, <2>1, <2>2 DEF Imports
<1>4. CASE groups'[id] = groups[id]
  <2>1. groups' = groups
    <3>1. groups \in [Ids -> Group]
      BY DEF Control, TypeOK
    <3>2. groups' = [groups EXCEPT ![id] = n] \/ groups' = groups
      BY UpdateGoes
    <3> QED
      BY <1>4, <3>1, <3>2
  <2> QED
    BY <1>1, <1>2, <1>3, <2>1, QuietImplements
<1> QED
  BY <1>1, <1>2, <1>3, <1>4

\* The other groups live on while one is changed.
LEMMA OthersLiveOn ==
  ASSUME NEW id \in Ids, created' = created, seeds' = seeds, keys' = keys, UNCHANGED accountState,
         \A other \in Ids \ {id} : groups'[other] = groups[other],
         \A other \in Ids \ {id} : IsImported(other)' <=> IsImported(other)
  PROVE  \A other \in Ids \ {id} : /\ Phase(other)' = Phase(other)
                                   /\ WithSecret(other)' <=> WithSecret(other)
                                   /\ Named(other)' <=> Named(other)
  BY GroupLivesOn, SameNames

LEMMA RegisterImplements ==
  ASSUME Control, Kept, NEW p \in Procs, Register(p)
  PROVE  Authority!Next
<1>0. PICK id \in Ids : id = op[p].id
  BY ControlFacts DEF Register, InStep, OnPath, RemovalSteps, LateSteps, Failures
<1>1. PICK w : w = op[p].wallet
  OBVIOUS
<1>2. op[p].at = "register" /\ op[p].kind = "import" /\ p = App
  BY ControlFacts DEF Register, InStep, OnPath, RemovalSteps, LateSteps, Failures
<1>3. /\ w \in Wallet /\ groups[id] = NoGroup /\ IsImported(id)
      /\ \A other \in Ids \ {id} : ~IsImported(other)
  BY <1>0, <1>1, <1>2 DEF Control, Importing, IsImported
<1>4. CASE Contains(groups, FirstOf(w))
  <2>1. Skip(p, "thrown") /\ "thrown" \in Steps \ Imports
    BY <1>1, <1>4 DEF Register, Steps, Imports
  <2> QED
    BY <2>1, SkipImplements
<1>5. CASE ~Contains(groups, FirstOf(w))
  <2> DEFINE n == NewGroup(w)
             s == IF hasWallet THEN Imported(p) ELSE "select"
             o == [op[p] EXCEPT !.inserted = FALSE, !.kind = "imported", !.at = s]
  <2>1. s \in {"select", "discover", "returned"}
    BY DEF Imported
  <2>2. Update(p, [groups EXCEPT ![id] = n], home,
               [op EXCEPT ![p].inserted = FALSE, ![p].kind = "imported", ![p].at = s])
    BY <1>0, <1>1, <1>5 DEF Register
  <2>3. /\ n \in Group /\ n # NoGroup /\ n.wallet = w /\ n.lifecycle = "active"
        /\ \A i \in Indexes : n.accounts[i] # "none" => i = 0
    BY <1>3, NewGroupIs
  <2> HIDE DEF s, n
  <2>4. [op EXCEPT ![p].inserted = FALSE, ![p].kind = "imported", ![p].at = s] = [op EXCEPT ![p] = o]
    BY ControlFacts
  <2>5. o.at = s
    BY ControlFacts DEF Operation
  <2> HIDE DEF o
  <2>6. Update(p, [groups EXCEPT ![id] = n], home, [op EXCEPT ![p] = o]) /\ o.at \notin Imports
    BY <2>1, <2>2, <2>4, <2>5 DEF Imports
  <2>7. ASSUME ~Authority!Next PROVE Moves(id)
    <3>1. /\ groups'[id] = n /\ created' = created /\ UNCHANGED accountState
          /\ seeds' = seeds /\ keys' = keys /\ op'[p].at \notin Imports
          /\ \A other \in Ids \ {id} : groups'[other] = groups[other]
      BY <2>3, <2>6, <2>7, UpdateMoves
    <3>2. \A other \in Ids : ~IsImported(other)'
      BY <1>2, <3>1 DEF IsImported, Imports
    <3>3. \A other \in Ids \ {id} : /\ Phase(other)' = Phase(other)
                                    /\ WithSecret(other)' <=> WithSecret(other)
                                    /\ Named(other)' <=> Named(other)
      BY <1>3, <3>1, <3>2, OthersLiveOn
    <3>4. Phase(id) = "new" /\ Phase(id)' = "active" /\ ~Named(id)
      BY <1>3, <2>3, <3>1, LifeIs DEF Phase
    <3>5. WithSecret(id) => WithSecret(id)'
      BY <1>3, <2>3, <3>1, LifeIs DEF WithSecret
    <3>6. ~Named(id)'
      <4>1. ASSUME NEW i \in Indexes, n.accounts[i] # "none"
            PROVE  Address(groups', <<id, i>>) = FirstOf(w)
        BY <2>3, <3>1, <4>1 DEF Address, FirstOf
      <4>2. FirstOf(w) \notin AddressesOf(groups, Accounts(groups)) /\ FirstOf(w) # NoAddress
        BY <1>3, <1>5, WalletKinds, AddressAssumption DEF Contains
      <4>3. FirstOf(w) \notin connected \cup {default} \cup cached
        BY <4>2 DEF Kept, Owned, AddressesOf
      <4> QED
        BY <3>1, <4>1, <4>3 DEF Named, accountState
    <3> QED
      BY <3>3, <3>4, <3>5, <3>6 DEF Moves
  <2> QED
    BY <2>7, MovesIs
<1> QED
  BY <1>4, <1>5

LEMMA DiscardImplements ==
  ASSUME Control, NEW p \in Procs, Discard(p)
  PROVE  Authority!Next
<1>0. PICK id \in Ids : id = op[p].id
  BY ControlFacts DEF Discard, InStep
<1>1. PICK w : w = op[p].wallet
  OBVIOUS
<1>2. /\ op[p].kind = "import" /\ op[p].at \notin Imports /\ op[p].inserted /\ p = App
      /\ groups' = groups /\ created' = created /\ UNCHANGED accountState
      /\ \/ seeds' = seeds \ {id} /\ keys' = keys
         \/ w.kind # "seed" /\ seeds' = seeds /\ keys' = keys \ {w.root}
         \/ seeds' = seeds /\ keys' = keys
  BY <1>0, <1>1, ControlFacts DEF Discard, InStep, Imports, registry, secrets
<1>3. /\ w \in Wallet /\ w.kind # "watchOnly"
      /\ \A other \in Ids \ {id} : groups[other].wallet # w
  BY <1>0, <1>1, <1>2 DEF Control, Importing
<1>4. op'[p].at = op[p].at
  BY ControlFacts DEF Discard
<1>5. \A other \in Ids : ~IsImported(other) /\ ~IsImported(other)'
  BY <1>2, <1>4 DEF IsImported, Imports
<1>6. ASSUME NEW other \in Ids \ {id}
      PROVE  Phase(other)' = Phase(other) /\ (WithSecret(other)' <=> WithSecret(other))
  <2>1. ASSUME groups[other].wallet.kind = "privateKey", w.kind # "seed"
        PROVE  groups[other].wallet.root # w.root
    <3>1. groups[other] # NoGroup
      BY <2>1 DEF NoGroup, NoWallet
    <3>2. groups[other].wallet \in Wallet /\ w.kind = "privateKey"
      BY <1>3, <2>1, <3>1, WalletKinds, ControlFacts DEF WellFormed
    <3> QED
      BY <1>3, <2>1, <3>2, SameWallet
  <2> QED
    BY <1>2, <1>5, <2>1, GroupLivesOn
<1>7. \A other \in Ids : Named(other)' <=> Named(other)
  BY <1>2, SameNames
<1>8. Phase(id)' = Phase(id) /\ (WithSecret(id)' => WithSecret(id))
  BY <1>2, <1>5 DEF Phase, WithSecret
<1>9. CASE WithSecret(id)' <=> WithSecret(id)
  <2>1. Relates
    BY <1>6, <1>7, <1>8, <1>9 DEF Relates
  <2> QED
    BY <2>1, RelatesIs
<1>10. CASE ~WithSecret(id)' /\ WithSecret(id)
  <2>1. groups[id] # NoGroup
    BY <1>5, <1>10, LifeIs
  <2>2. Phase(id) \in {"active", "deleting"}
    BY <2>1, LifeIs, ControlFacts DEF WellFormed, Group
  <2>3. Moves(id)
    BY <1>6, <1>7, <1>8, <1>10, <2>2 DEF Moves
  <2> QED
    BY <2>3, MovesIs
<1> QED
  BY <1>8, <1>9, <1>10

LEMMA SelectImplements ==
  ASSUME Control, NEW p \in Procs, Select(p)
  PROVE  Authority!Next
<1>1. \E s \in {"thrown", "returned", "discover"} :
        Skip(p, s) \/ \E h : Update(p, groups, h, At(p, s))
  <2>1. Imported(p) \in {"discover", "returned"}
    BY DEF Imported
  <2> QED
    BY <2>1 DEF Select
<1>2. PICK s \in {"thrown", "returned", "discover"} :
        Skip(p, s) \/ \E h : Update(p, groups, h, At(p, s))
  BY <1>1
<1>3. s \in Steps \ Imports
  BY DEF Steps, Imports
<1>4. CASE Skip(p, s)
  BY <1>3, <1>4, SkipImplements
<1>5. ASSUME NEW h, Update(p, groups, h, At(p, s)) PROVE Authority!Next
  <2>1. /\ groups' = groups /\ created' = created /\ UNCHANGED <<secrets, accountState>>
        /\ op' = At(p, s) \/ op' = At(p, "thrown") \/ op' = At(p, "refused")
    BY <1>5, UpdateIs, ControlFacts
  <2>2. PICK t \in {s, "thrown", "refused"} : op' = At(p, t)
    BY <2>1
  <2>3. t \in Steps \ Imports
    BY <1>3, <2>2 DEF Steps, Imports
  <2>4. op'[p].at = t /\ \A q \in Procs \ {p} : op'[q] = op[q]
    BY <2>2, <2>3, StepIs, ControlFacts
  <2> QED
    BY <2>1, <2>3, <2>4, QuietImplements
<1> QED
  BY <1>2, <1>4, <1>5

\* A group that stays what it was, with other accounts.
LEMMA RegroupImplements ==
  ASSUME Control, NEW p \in Procs, NEW id \in Ids, NEW n \in Group, NEW h, NEW s \in Steps \ Imports,
         Update(p, [groups EXCEPT ![id] = n], h, At(p, s)), op[p].at \notin Imports,
         n.wallet = groups[id].wallet, n.lifecycle = groups[id].lifecycle,
         groups[id].lifecycle # "none",
         \/ groups[id].lifecycle = "active"
         \/ \A i \in Indexes : groups[id].accounts[i] = "none" => n.accounts[i] = "none"
  PROVE  Authority!Next
<1>1. PICK o \in Operation : At(p, s) = [op EXCEPT ![p] = o] /\ o.at = s
  BY AtIs
<1>2. Update(p, [groups EXCEPT ![id] = n], h, [op EXCEPT ![p] = o]) /\ o.at \notin Imports
  BY <1>1
<1>3. ASSUME ~Authority!Next PROVE Relates
  <2>1. /\ groups'[id] = n /\ created' = created /\ UNCHANGED accountState
        /\ seeds' = seeds /\ keys' = keys /\ op'[p].at \notin Imports
        /\ \A q \in Procs \ {p} : op'[q] = op[q]
        /\ \A other \in Ids \ {id} : groups'[other] = groups[other]
    BY <1>2, <1>3, UpdateMoves
  <2>2. \A other \in Ids : IsImported(other)' <=> IsImported(other)
    BY <2>1, ImportedStays
  <2>3. \A other \in Ids \ {id} : /\ Phase(other)' = Phase(other)
                                  /\ WithSecret(other)' <=> WithSecret(other)
                                  /\ Named(other)' <=> Named(other)
    BY <2>1, <2>2, OthersLiveOn
  <2>4. groups[id] # NoGroup /\ n # NoGroup
    BY NoGroupTyped
  <2>5. Phase(id)' = Phase(id) /\ (WithSecret(id)' <=> WithSecret(id))
    BY <2>1, <2>2, <2>4 DEF Phase, WithSecret
  <2>6. id \notin ActiveGroups => (Named(id)' => Named(id))
    BY <2>1, NewNames DEF ActiveGroups
  <2> QED
    BY <2>3, <2>5, <2>6 DEF Relates
<1> QED
  BY <1>3, RelatesIs

LEMMA DeriveImplements ==
  ASSUME Control, NEW p \in Procs, Derive(p)
  PROVE  Authority!Next
<1> DEFINE w == groups[op[p].id]
           n == AddAccounts(w, op[p].pick)
<1>1. op[p].at = "derive" /\ op[p].kind = "derive" /\ op[p].id \in Ids
  BY ControlFacts DEF Derive, InStep, OnPath, RemovalSteps, LateSteps, Failures
<1>2. op[p].pick # {}
  BY <1>1, ControlFacts DEF Picks
<1>3. w \in Group /\ op[p].pick \in SUBSET Indexes
  BY <1>1, ControlFacts DEF Operation
<1>4. n \in Group /\ n.wallet = w.wallet /\ n.lifecycle = w.lifecycle
  BY <1>2, <1>3, AddAccountsIs
<1>5. {"thrown", "returned"} \subseteq Steps \ Imports /\ op[p].at \notin Imports
  BY <1>1 DEF Steps, Imports
<1>6. CASE Skip(p, "thrown")
  BY <1>5, <1>6, SkipImplements
<1>7. CASE w.lifecycle = "active" /\ Update(p, [groups EXCEPT ![op[p].id] = n], home, At(p, "returned"))
  <2> HIDE DEF n
  <2> QED
    BY <1>1, <1>4, <1>5, <1>7, RegroupImplements
<1> QED
  BY <1>6, <1>7 DEF Derive

-----------------------------------------------------------------------------
(* Removal.                                                                  *)

LEMMA BeginImplements ==
  ASSUME Control, NEW p \in Procs, BeginGroupRemoval(p) \/ BeginAccountRemoval(p)
  PROVE  Authority!Next
<1>1. op[p].at = "begin"
  BY DEF BeginGroupRemoval, BeginAccountRemoval
<1>2. PICK id \in Ids : id = op[p].id
  BY <1>1, AtWork
<1>3. groups[id] \in Group /\ op[p].pick \in SUBSET Indexes
  BY <1>1, <1>2, AtWork
<1>4. {"thrown", "returned", "terminalize"} \subseteq Steps \ Imports /\ op[p].at \notin Imports
  BY <1>1 DEF Steps, Imports
<1>5. PICK s \in {"thrown", "returned", "terminalize"}, pick \in {{}, op[p].pick} :
        \/ Skip(p, s)
        \/ /\ groups[id].lifecycle = "active"
           /\ Update(p, [groups EXCEPT ![id] = MarkDeleting(groups[id], pick)], Survivor(p), At(p, s))
  <2>1. CASE BeginGroupRemoval(p)
    BY <1>2, <2>1 DEF BeginGroupRemoval
  <2>2. CASE BeginAccountRemoval(p)
    BY <1>2, <2>2 DEF BeginAccountRemoval
  <2> QED
    BY <2>1, <2>2
<1>6. CASE Skip(p, s)
  BY <1>4, <1>6, SkipImplements
<1>7. pick \in SUBSET Indexes
  BY <1>3
<1>8. PICK n : n = MarkDeleting(groups[id], pick)
  OBVIOUS
<1>9. ASSUME groups[id].lifecycle = "active", Update(p, [groups EXCEPT ![id] = n], Survivor(p), At(p, s))
      PROVE  Authority!Next
  <2>1. CASE pick # {}
    <3>1. /\ n \in Group /\ n.wallet = groups[id].wallet /\ n.lifecycle = groups[id].lifecycle
      BY <1>3, <1>7, <1>8, <2>1, MarkDeletingIs
    <3> QED
      BY <1>4, <1>9, <3>1, RegroupImplements
  <2>2. CASE pick = {}
    <3>1. /\ n \in Group /\ n.wallet = groups[id].wallet /\ n.lifecycle = "deleting"
          /\ n.accounts = groups[id].accounts
      BY <1>3, <1>7, <1>8, <2>2, MarkDeletingIs
    <3>2. PICK o \in Operation : At(p, s) = [op EXCEPT ![p] = o] /\ o.at = s
      BY <1>4, AtIs
    <3>3. Update(p, [groups EXCEPT ![id] = n], Survivor(p), [op EXCEPT ![p] = o]) /\ o.at \notin Imports
      BY <1>4, <1>9, <3>2
    <3>4. ASSUME ~Authority!Next PROVE Moves(id)
      <4>1. /\ groups'[id] = n /\ created' = created /\ UNCHANGED accountState
            /\ seeds' = seeds /\ keys' = keys /\ op'[p].at \notin Imports
            /\ \A q \in Procs \ {p} : op'[q] = op[q]
            /\ \A other \in Ids \ {id} : groups'[other] = groups[other]
        BY <3>1, <3>3, <3>4, UpdateMoves
      <4>2. \A other \in Ids : IsImported(other)' <=> IsImported(other)
        BY <1>4, <4>1, ImportedStays
      <4>3. \A other \in Ids \ {id} : /\ Phase(other)' = Phase(other)
                                      /\ WithSecret(other)' <=> WithSecret(other)
                                      /\ Named(other)' <=> Named(other)
        BY <4>1, <4>2, OthersLiveOn
      <4>4. groups[id] # NoGroup /\ n # NoGroup
        BY <1>9, <3>1, NoGroupTyped
      <4>5. Phase(id) = "active" /\ Phase(id)' = "deleting" /\ (WithSecret(id)' <=> WithSecret(id))
        BY <1>9, <3>1, <4>1, <4>2, <4>4 DEF Phase, WithSecret
      <4>6. Named(id)' <=> Named(id)
        BY <3>1, <4>1, SameNames
      <4> QED
        BY <4>3, <4>5, <4>6 DEF Moves
    <3> QED
      BY <3>4, MovesIs
  <2> QED
    BY <2>1, <2>2
<1> QED
  BY <1>5, <1>6, <1>8, <1>9

LEMMA DeleteSecretImplements ==
  ASSUME Control, Kept, NEW p \in Procs, DeleteSecret(p)
  PROVE  Authority!Next
<1>1. op[p].at = "secret" /\ op[p].at \in LateSteps
  BY DEF DeleteSecret, LateSteps
<1>2. PICK id \in Ids : id = op[p].id
  BY <1>1, AtWork
<1>3. PICK w : w = groups[id].wallet
  OBVIOUS
<1>4. /\ groups' = groups /\ created' = created /\ UNCHANGED accountState
      /\ seeds' = seeds \ {id} /\ op' = At(p, "connections")
      /\ keys' = IF w.kind = "privateKey" THEN keys \ {w.root} ELSE keys
  BY <1>2, <1>3 DEF DeleteSecret, registry, counters
<1>5. groups[id].lifecycle = "deleting"
  BY <1>1, <1>2, ControlFacts DEF Kept, Cleared, Begun
<1>6. op'[p].at = "connections" /\ \A q \in Procs \ {p} : op'[q] = op[q]
  BY <1>4, StepIs, ControlFacts DEF Steps
<1>7. \A other \in Ids : IsImported(other)' <=> IsImported(other)
  BY <1>1, <1>6, ImportedStays DEF Imports
<1>8. ASSUME NEW other \in Ids \ {id}
      PROVE  Phase(other)' = Phase(other) /\ (WithSecret(other)' <=> WithSecret(other))
  <2>1. groups[other].wallet.kind = "privateKey" /\ w.kind = "privateKey" => groups[other].wallet.root # w.root
    BY <1>3, OneKey
  <2> QED
    BY <1>4, <1>7, <2>1, GroupLivesOn
<1>9. \A other \in Ids : Named(other)' <=> Named(other)
  BY <1>4, SameNames
<1>10. Phase(id) = "deleting" /\ Phase(id)' = "deleting" /\ ~WithSecret(id)'
  BY <1>3, <1>4, <1>5, NoGroupTyped DEF Phase, WithSecret
<1>11. Moves(id)
  BY <1>8, <1>9, <1>10 DEF Moves
<1> QED
  BY <1>11, MovesIs

\* Only the address of an active account is ever stored.
LEMMA StoresImplement ==
  ASSUME Control, groups' = groups, created' = created, seeds' = seeds, keys' = keys,
         \A id \in Ids : IsImported(id)' <=> IsImported(id),
         connected' \cup {default'} \cup cached' \subseteq
           connected \cup {default, NoAddress} \cup cached \cup AddressesOf(groups, Active(groups))
  PROVE  Authority!Next
<1>1. \A id \in Ids : Phase(id)' = Phase(id) /\ (WithSecret(id)' <=> WithSecret(id))
  BY GroupLivesOn
<1>2. ASSUME NEW id \in Ids \ ActiveGroups, Named(id)' PROVE Named(id)
  <2>1. PICK i \in Indexes : /\ groups[id].accounts[i] # "none"
                             /\ Address(groups, <<id, i>>) \in connected' \cup {default'} \cup cached'
    BY <1>2 DEF Named, Address
  <2>2. <<id, i>> \in Accounts(groups)
    BY <2>1 DEF Accounts
  <2>3. Address(groups, <<id, i>>) # NoAddress
    BY <2>2, AccountsAreRegistered, AddressAssumption, ControlFacts
  <2>4. ASSUME NEW x \in Active(groups), Address(groups, x) = Address(groups, <<id, i>>) PROVE FALSE
    <3>1. x = <<id, i>>
      BY <2>2, <2>4, OneAccount DEF Control, Active
    <3> QED
      BY <1>2, <2>4, <3>1 DEF Active, ActiveGroups
  <2>5. Address(groups, <<id, i>>) \in connected \cup {default} \cup cached
    BY <2>1, <2>3, <2>4 DEF AddressesOf
  <2> QED
    BY <2>1, <2>5 DEF Named
<1>3. Relates
  BY <1>1, <1>2 DEF Relates
<1> QED
  BY <1>3, RelatesIs

LEMMA RemoveStoresImplements ==
  ASSUME Control, NEW p \in Procs, RemoveConnections(p) \/ RemoveBalances(p)
  PROVE  Authority!Next
<1>1. CASE Skip(p, "thrown")
  BY <1>1, SkipImplements DEF Steps, Imports
<1>2. ASSUME ~Skip(p, "thrown") PROVE Authority!Next
  <2>1. PICK s \in {"balances", "finish"} : op' = At(p, s)
    BY <1>2 DEF RemoveConnections, RemoveBalances
  <2>2. /\ groups' = groups /\ created' = created /\ seeds' = seeds /\ keys' = keys
        /\ op[p].at \in {"connections", "balances"}
    BY <1>2 DEF RemoveConnections, RemoveBalances, registry, secrets, counters
  <2>3. op'[p].at = s /\ \A q \in Procs \ {p} : op'[q] = op[q]
    BY <2>1, StepIs, ControlFacts DEF Steps
  <2>4. \A id \in Ids : IsImported(id)' <=> IsImported(id)
    BY <2>2, <2>3, ImportedStays DEF Imports
  <2>5. AddressesOf(groups, Eligible(groups)) \subseteq AddressesOf(groups, Active(groups))
    BY DEF AddressesOf, Eligible
  <2>6. connected' \cup {default'} \cup cached' \subseteq
          connected \cup {default, NoAddress} \cup cached \cup AddressesOf(groups, Active(groups))
    <3>1. CASE RemoveConnections(p)
      BY <1>2, <2>5, <3>1 DEF RemoveConnections
    <3>2. CASE RemoveBalances(p)
      BY <3>2 DEF RemoveBalances
    <3> QED
      BY <3>1, <3>2
  <2> QED
    BY <2>2, <2>4, <2>6, StoresImplement
<1> QED
  BY <1>1, <1>2

LEMMA OutsideImplements ==
  ASSUME Control, NEW a \in Addresses, Connect(a) \/ StoreBalance(a)
  PROVE  Authority!Next
<1>1. /\ op' = op /\ groups' = groups /\ created' = created /\ seeds' = seeds /\ keys' = keys
  BY DEF Connect, StoreBalance, registry, secrets, counters
<1>2. AddressesOf(groups, Eligible(groups)) \subseteq AddressesOf(groups, Active(groups))
  BY DEF AddressesOf, Eligible
<1>3. connected' \cup {default'} \cup cached' \subseteq
        connected \cup {default, NoAddress} \cup cached \cup AddressesOf(groups, Active(groups))
  BY <1>2 DEF Connect, StoreBalance
<1>4. \A id \in Ids : IsImported(id)' <=> IsImported(id)
  BY <1>1 DEF IsImported
<1> QED
  BY <1>1, <1>3, <1>4, StoresImplement

LEMMA FinishImplements ==
  ASSUME Control, Kept, NEW p \in Procs, FinishRemoval(p)
  PROVE  Authority!Next
<1>1. op[p].at = "finish" /\ op[p].at \in LateSteps /\ op[p].at \notin Imports
  BY DEF FinishRemoval, LateSteps, Imports
<1>2. PICK id \in Ids : id = op[p].id
  BY <1>1, AtWork
<1>3. PICK n : n = IF Whole(p) THEN NoGroup ELSE Without(groups[id], op[p].pick)
  OBVIOUS
<1>4. Update(p, [groups EXCEPT ![id] = n], home, At(p, "returned"))
  BY <1>2, <1>3, FinishIs
<1>5. groups[id] \in Group /\ op[p].pick \in SUBSET Indexes /\ "returned" \in Steps \ Imports
  BY <1>1, <1>2, AtWork DEF Steps, Imports
<1>6. CASE ~Whole(p)
  <2>1. /\ n \in Group /\ n.wallet = groups[id].wallet /\ n.lifecycle = groups[id].lifecycle
    BY <1>3, <1>5, <1>6, WithoutIs
  <2>2. groups[id].lifecycle = "active"
    BY <1>1, <1>2, <1>6, ControlFacts DEF Begun
  <2> QED
    BY <1>1, <1>4, <1>5, <2>1, <2>2, RegroupImplements
<1>7. CASE Whole(p)
  <2>1. n = NoGroup /\ n \in Group
    BY <1>3, <1>7, NoGroupTyped
  <2>2. PICK o \in Operation : At(p, "returned") = [op EXCEPT ![p] = o] /\ o.at = "returned"
    BY <1>5, AtIs
  <2>3. Update(p, [groups EXCEPT ![id] = n], home, [op EXCEPT ![p] = o]) /\ o.at \notin Imports
    BY <1>4, <1>5, <2>2
  <2>4. groups[id].lifecycle = "deleting" /\ NoSecret(id) /\ Leaving(p) \cap (connected \cup {default} \cup cached) = {}
    BY <1>1, <1>2, <1>7, ControlFacts DEF Begun, Kept, Cleared
  <2>5. groups[id] # NoGroup /\ Phase(id) = "deleting" /\ id <= created /\ ~IsImported(id)
    BY <2>4, LifeIs, NoGroupTyped
  <2>6. ~Named(id)
    <3>1. ASSUME NEW i \in Indexes, groups[id].accounts[i] # "none"
          PROVE  Address(groups, <<id, i>>) \in Leaving(p)
      <4>1. <<id, i>> \in Removed(p)
        BY <1>2, <1>7, <3>1 DEF Removed, AccountsIn, Accounts
      <4> QED
        BY <4>1 DEF Leaving, AddressesOf
    <3> QED
      BY <2>4, <3>1 DEF Named
  <2>7. ~WithSecret(id)
    BY <2>4 DEF NoSecret, WithSecret
  <2>8. ASSUME ~Authority!Next PROVE Moves(id)
    <3>1. /\ groups'[id] = NoGroup /\ created' = created /\ UNCHANGED accountState
          /\ seeds' = seeds /\ keys' = keys /\ op'[p].at \notin Imports
          /\ \A q \in Procs \ {p} : op'[q] = op[q]
          /\ \A other \in Ids \ {id} : groups'[other] = groups[other]
      BY <2>1, <2>3, <2>8, UpdateMoves
    <3>2. \A other \in Ids : IsImported(other)' <=> IsImported(other)
      BY <1>1, <3>1, ImportedStays
    <3>3. \A other \in Ids \ {id} : /\ Phase(other)' = Phase(other)
                                    /\ WithSecret(other)' <=> WithSecret(other)
                                    /\ Named(other)' <=> Named(other)
      BY <3>1, <3>2, OthersLiveOn
    <3>4. ~(id > created') /\ ~IsImported(id)'
      <4>1. id \in Nat /\ created \in Nat
        BY IndexFacts, LimitAssumption DEF Control, TypeOK
      <4> QED
        BY <2>5, <3>1, <3>2, <4>1
    <3>5. groups'[id].wallet.kind # "privateKey" /\ \A i \in Indexes : groups'[id].accounts[i] = "none"
      BY <3>1 DEF NoGroup, NoWallet
    <3>6. Phase(id)' = "gone"
      BY <3>1, <3>4 DEF Phase
    <3>7. ~WithSecret(id)' /\ ~Named(id)'
      BY <3>1, <3>4, <3>5 DEF WithSecret, Named
    <3> QED
      BY <2>5, <2>6, <2>7, <3>3, <3>6, <3>7 DEF Moves
  <2> QED
    BY <2>8, MovesIs
<1> QED
  BY <1>6, <1>7

LEMMA NextImplements == ASSUME Control, Kept, Next PROVE Authority!Next
<1>1. ASSUME NEW p \in Procs, FreeStepOf(p) PROVE Authority!Next
  BY <1>1, FreeImplements
<1>2. ASSUME Start PROVE Authority!Next
  <2>1. ASSUME NEW w \in Wallet, StartImport(w) PROVE Authority!Next
    BY <2>1, StartImportImplements
  <2>2. (\E w \in Wallet : StartImport(w)) \/ FreeStepOf(App) \/ \E p \in Extensions : FreeStepOf(p)
    BY <1>2 DEF Start, FreeStepOf
  <2> QED
    BY <1>1, <2>1, <2>2, ControlFacts DEF Procs
<1>3. ASSUME NEW p \in Procs, Wait(p) \/ Fail(p) \/ Crash(p) PROVE Authority!Next
  <2>1. ClaimGroup(p) \/ ClaimAdoption(p) \/ Fail(p) \/ Crash(p)
    BY <1>3 DEF Wait
  <2>2. FreeStepOf(p)
    BY <2>1 DEF FreeStepOf
  <2> QED
    BY <1>1, <2>2
<1>4. ASSUME NEW p \in Procs, Terminalize(p) PROVE Authority!Next
  <2>1. PICK s \in {"secret", "connections"} : Skip(p, s)
    BY <1>4 DEF Terminalize
  <2> QED
    BY <2>1, SkipImplements DEF Steps, Imports
<1>5. ASSUME NEW p \in Procs, Continue(p) PROVE Authority!Next
  <2>1. \/ FreeStepOf(p)
        \/ Discard(p) \/ SaveSecret(p) \/ Terminalize(p) \/ DeleteSecret(p)
        \/ RemoveConnections(p) \/ RemoveBalances(p)
        \/ Register(p) \/ Select(p) \/ Derive(p) \/ BeginGroupRemoval(p) \/ BeginAccountRemoval(p)
        \/ FinishRemoval(p)
    BY <1>5 DEF Continue, FreeStepOf
  <2> QED
    BY <1>1, <1>4, <2>1, DiscardImplements, SaveSecretImplements, RegisterImplements,
       SelectImplements, DeriveImplements, BeginImplements, DeleteSecretImplements,
       RemoveStoresImplements, FinishImplements
<1>6. ASSUME Relaunch PROVE Authority!Next
  BY <1>1, <1>6, ControlFacts DEF FreeStepOf
<1> QED
  BY <1>2, <1>3, <1>5, <1>6, OutsideImplements DEF Next

\* However imports, derivations and removals of the app are interrupted and resumed by other
\* processes, only an active group is connected or gets a balance, a removal only takes away, and
\* a group is gone for ever, with nothing left of it: what the abstract GroupAuthority promises
\* (WalletGroupManager.swift, WalletRegistryAdoption.swift).
THEOREM LifeIsAuthoritative == Spec => Implements
<1>1. ASSUME Init PROVE Authority!Init
  <2>1. /\ groups = [id \in Ids |-> NoGroup] /\ created = 0 /\ seeds = {} /\ App \in Procs
        /\ op = [p \in Procs |-> IF p = App THEN Adopting ELSE Idle]
    BY <1>1 DEF Init, Procs
  <2>2. \A id \in Ids : id \in Nat /\ id # 0
    BY IndexFacts
  <2>3. \A id \in Ids : Phase(id) = "new"
    BY <2>1, <2>2 DEF Phase
  <2>4. \A id \in Ids : ~Named(id)
    BY <2>1 DEF Named, NoGroup
  <2>5. GroupsNamed = {} /\ GroupsWithSecret \subseteq Ids
    BY <2>4, NamesAre, SecretsAre
  <2> QED
    BY <2>3, <2>5 DEF Authority!Init
<1>2. ASSUME UNCHANGED vars PROVE UNCHANGED Authority!vars
  <2>1. /\ groups' = groups /\ created' = created /\ op' = op /\ UNCHANGED <<secrets, accountState>>
        /\ seeds' = seeds /\ keys' = keys
    BY <1>2, VarsAre DEF vars, counters
  <2>2. \A id \in Ids : IsImported(id)' <=> IsImported(id)
    BY <2>1 DEF IsImported
  <2>3. \A id \in Ids : Phase(id)' = Phase(id) /\ (WithSecret(id)' <=> WithSecret(id))
    BY <2>1, <2>2, GroupLivesOn
  <2>4. \A id \in Ids : Named(id)' <=> Named(id)
    BY <2>1, SameNames
  <2>5. GroupsNamed' = GroupsNamed /\ GroupsWithSecret' = GroupsWithSecret
    BY <2>3, <2>4, NamesAre, SecretsAre
  <2> QED
    BY <2>3, <2>5 DEF Authority!vars
<1>3. Control /\ Kept /\ [Next]_vars => [Authority!Next]_(Authority!vars)
  BY <1>2, NextImplements
<1> QED
  BY <1>1, <1>3, ControlHolds, KeptHolds, PTL DEF Spec, Implements, Authority!Spec

-----------------------------------------------------------------------------
(* What every implementation of GroupAuthority has, and so this one.         *)

Promised == INSTANCE GroupAuthorityProofs WITH
  Groups <- Ids, phase <- [id \in Ids |-> Phase(id)],
  secrets <- GroupsWithSecret, named <- GroupsNamed

LEMMA PromisesKept == Spec => Promised!Spec
<1>1. Authority!Init => Promised!Init
  BY DEF Authority!Init, Promised!Init, Authority!Active, Promised!Active
<1>2. [Authority!Next]_(Authority!vars) => [Promised!Next]_(Promised!vars)
  BY DEF Authority!Next, Authority!vars, Authority!Relate, Authority!Save, Authority!Register,
         Authority!Abandon, Authority!TakeBack, Authority!Begin, Authority!Forget,
         Authority!Finish, Authority!To, Authority!Active,
         Promised!Next, Promised!vars, Promised!Relate, Promised!Save, Promised!Register,
         Promised!Abandon, Promised!TakeBack, Promised!Begin, Promised!Forget,
         Promised!Finish, Promised!To, Promised!Active
<1> QED
  BY <1>1, <1>2, LifeIsAuthoritative, PTL DEF Implements, Authority!Spec, Promised!Spec

\* A removal of a group that was begun, in whichever processes it is resumed and however often,
\* only takes the secret, connections and balances of the group away, and a group that is gone has
\* none of them left (WalletGroupManager.swift, WalletRegistryAdoption.swift).
THEOREM RemovalTakesEverything == Spec => []Authority!GoneHasNothing /\ Authority!RemovalOnlyTakes
<1> DEFINE Life == [id \in Ids |-> Phase(id)]
           OnlyTakes == \A g \in Ids : Life[g] \in {"deleting", "gone"} =>
                      /\ Life'[g] \in {Life[g], "gone"}
                      /\ g \in GroupsWithSecret' => g \in GroupsWithSecret
                      /\ g \in GroupsNamed' => g \in GroupsNamed
<1>1. Promised!GoneHasNothing => Authority!GoneHasNothing
  BY DEF Promised!GoneHasNothing, Authority!GoneHasNothing, Promised!Phases, Authority!Phases
<1>2. [OnlyTakes]_(Promised!vars) => [OnlyTakes]_(Authority!vars)
  BY DEF Authority!vars, Promised!vars
<1> HIDE DEF OnlyTakes
<1>3. Promised!RemovalOnlyTakes => [][OnlyTakes]_(Promised!vars)
  BY PTL DEF Promised!RemovalOnlyTakes, OnlyTakes, Life
<1>4. [][OnlyTakes]_(Authority!vars) => Authority!RemovalOnlyTakes
  BY PTL DEF Authority!RemovalOnlyTakes, OnlyTakes, Life
<1> QED
  BY <1>1, <1>2, <1>3, <1>4, PromisesKept, Promised!NothingIsLeft, Promised!NothingComesBack, PTL

-----------------------------------------------------------------------------
(* Who has a claim needs it, and nobody waits for one that waits in turn.    *)

HoldingSteps == {"read", "derive", "begin", "returned", "thrown", "refused"} \cup LateSteps

HoldsOnly(p) ==
  /\ \A id \in Ids : groupLock[id] = p => op[p].id = id /\ op[p].at \in HoldingSteps
  /\ adoptLock = p => op[p].kind = "adopt" /\ op[p].at # "enter"

ClaimsAreNeeded == \A p \in Procs : HoldsOnly(p)

\* A step of "p" gives the others no claim.
TakesForItself(p) ==
  /\ \A q \in Procs \ {p} : /\ op'[q] = op[q]
                            /\ \A id \in Ids : groupLock'[id] = q => groupLock[id] = q
                            /\ adoptLock' = q => adoptLock = q

LEMMA OthersHold ==
  ASSUME ClaimsAreNeeded, NEW p \in Procs, HoldsOnly(p)', TakesForItself(p)
  PROVE  ClaimsAreNeeded'
  BY DEF ClaimsAreNeeded, HoldsOnly, TakesForItself

LEMMA OnwardHolds ==
  ASSUME ClaimsAreNeeded, NEW p \in Procs, \A q \in Procs \ {p} : op'[q] = op[q], UNCHANGED claims,
         op[p].at \in HoldingSteps => op'[p].id = op[p].id /\ op'[p].at \in HoldingSteps,
         op[p].kind = "adopt" => op'[p].kind = "adopt" /\ op'[p].at # "enter"
  PROVE  ClaimsAreNeeded'
<1>1. HoldsOnly(p)' /\ TakesForItself(p)
  BY DEF ClaimsAreNeeded, HoldsOnly, TakesForItself, claims
<1> QED
  BY <1>1, OthersHold

LEMMA ReleaseHolds ==
  ASSUME ClaimsAreNeeded, NEW p \in Procs, \A q \in Procs \ {p} : op'[q] = op[q], Release(p)
  PROVE  ClaimsAreNeeded'
<1>1. /\ \A id \in Ids : groupLock'[id] = IF groupLock[id] = p THEN NoProc ELSE groupLock[id]
      /\ adoptLock' = IF adoptLock = p THEN NoProc ELSE adoptLock
  BY DEF Release
<1>2. HoldsOnly(p)' /\ TakesForItself(p)
  BY <1>1, ProcAssumption DEF HoldsOnly, TakesForItself, Procs
<1> QED
  BY <1>2, OthersHold

\* From one step to the next of the same operation.
LEMMA AtHolds ==
  ASSUME Control, ClaimsAreNeeded, NEW p \in Procs, NEW s \in Steps \ {"enter"}, op' = At(p, s),
         UNCHANGED claims, op[p].at \in HoldingSteps => s \in HoldingSteps
  PROVE  ClaimsAreNeeded'
<1>1. /\ \A q \in Procs \ {p} : op'[q] = op[q]
      /\ op'[p].at = s /\ op'[p].kind = op[p].kind /\ op'[p].id = op[p].id
  BY StepIs, ControlFacts
<1> QED
  BY <1>1, OnwardHolds

LEMMA UpdateHolds ==
  ASSUME Control, ClaimsAreNeeded, NEW p \in Procs, NEW g, NEW h, NEW s \in Steps \ {"enter"},
         Update(p, g, h, At(p, s)), op[p].at \in HoldingSteps => s \in HoldingSteps
  PROVE  ClaimsAreNeeded'
<1>1. UNCHANGED claims /\ (op' = At(p, s) \/ op' = At(p, "thrown") \/ op' = At(p, "refused"))
  BY UpdateIs, ControlFacts
<1>2. PICK t \in {s, "thrown", "refused"} : op' = At(p, t)
  BY <1>1
<1>3. t \in Steps \ {"enter"} /\ (op[p].at \in HoldingSteps => t \in HoldingSteps)
  BY <1>2 DEF Steps, HoldingSteps
<1> QED
  BY <1>1, <1>2, <1>3, AtHolds

\* A new operation begins with nothing.
LEMMA StartHolds ==
  ASSUME Control, ClaimsAreNeeded, NEW p \in Procs, NEW o, op' = [op EXCEPT ![p] = o],
         UNCHANGED claims, op[p] = Idle \/ op[p].at = "discover"
  PROVE  ClaimsAreNeeded'
<1>1. \A q \in Procs \ {p} : op'[q] = op[q]
  BY StepAlone, ControlFacts
<1>2. op[p].at \notin HoldingSteps /\ op[p].kind # "adopt"
  <2>1. InStep(p)
    BY ControlFacts
  <2> QED
    BY <2>1, IdleIs DEF InStep, OnPath, HoldingSteps, LateSteps, RemovalSteps, Failures
<1> QED
  BY <1>1, <1>2, OnwardHolds

LEMMA StartsHold ==
  ASSUME Control, ClaimsAreNeeded, Start
  PROVE  ClaimsAreNeeded'
<1>1. App \in Procs /\ Extensions \subseteq Procs
  BY DEF Procs
<1>2. ASSUME NEW w \in Wallet, StartImport(w) PROVE ClaimsAreNeeded'
  <2>1. op[App] = Idle /\ UNCHANGED claims
    BY <1>2 DEF StartImport
  <2>2. PICK o : op' = [op EXCEPT ![App] = o]
    BY <1>2 DEF StartImport
  <2> QED
    BY <1>1, <2>1, <2>2, StartHolds
<1>3. ASSUME NEW x \in Ids \X Indexes, StartSelect(x) PROVE ClaimsAreNeeded'
  <2>1. op[App] = Idle /\ UNCHANGED claims
    BY <1>3 DEF StartSelect
  <2>2. PICK o : op' = [op EXCEPT ![App] = o]
    BY <1>3 DEF StartSelect
  <2> QED
    BY <1>1, <2>1, <2>2, StartHolds
<1>4. ASSUME NEW id \in Ids, NEW pick, StartDerive(id, pick) PROVE ClaimsAreNeeded'
  <2>1. (op[App] = Idle \/ op[App].at = "discover") /\ UNCHANGED claims
    BY <1>4 DEF StartDerive
  <2>2. PICK o : op' = [op EXCEPT ![App] = o]
    BY <1>4 DEF StartDerive
  <2> QED
    BY <1>1, <2>1, <2>2, StartHolds
<1>5. ASSUME NEW id \in Ids, NEW pick, StartRemove(id, pick) PROVE ClaimsAreNeeded'
  <2>1. op[App] = Idle /\ UNCHANGED claims
    BY <1>5 DEF StartRemove
  <2>2. PICK o : op' = [op EXCEPT ![App] = o]
    BY <1>5 DEF StartRemove
  <2> QED
    BY <1>1, <2>1, <2>2, StartHolds
<1>6. ASSUME NEW p \in Extensions, StartAdoption(p) PROVE ClaimsAreNeeded'
  <2>1. op[p] = Idle /\ UNCHANGED claims /\ op' = [op EXCEPT ![p] = Adopting]
    BY <1>6 DEF StartAdoption
  <2> QED
    BY <1>1, <2>1, StartHolds
<1> QED
  BY <1>2, <1>3, <1>4, <1>5, <1>6 DEF Start

LEMMA WaitHolds ==
  ASSUME Control, ClaimsAreNeeded, NEW p \in Procs, Wait(p)
  PROVE  ClaimsAreNeeded'
<1>1. CASE ClaimGroup(p)
  <2>1. PICK s \in {"read", "begin"} : op' = At(p, s)
    BY <1>1 DEF ClaimGroup
  <2>2. /\ \A q \in Procs \ {p} : op'[q] = op[q]
        /\ op'[p].at = s /\ op'[p].kind = op[p].kind /\ op'[p].id = op[p].id
    BY <2>1, StepIs, ControlFacts DEF Steps
  <2>3. /\ op[p].at \notin HoldingSteps /\ adoptLock' = adoptLock
        /\ \A id \in Ids : groupLock'[id] = IF id = op[p].id THEN p ELSE groupLock[id]
    BY <1>1, ControlFacts DEF ClaimGroup, HoldingSteps, LateSteps, TypeOK
  <2>4. HoldsOnly(p)' /\ TakesForItself(p)
    BY <2>2, <2>3 DEF ClaimsAreNeeded, HoldsOnly, TakesForItself, HoldingSteps
  <2> QED
    BY <2>4, OthersHold
<1>2. CASE ClaimAdoption(p)
  <2>1. /\ op[p].at = "enter" /\ op' = At(p, "groups") /\ adoptLock' = p /\ groupLock' = groupLock
    BY <1>2 DEF ClaimAdoption
  <2>2. /\ \A q \in Procs \ {p} : op'[q] = op[q]
        /\ op'[p].at = "groups" /\ op'[p].kind = op[p].kind
    BY <2>1, StepIs, ControlFacts DEF Steps
  <2>3. op[p].kind = "adopt" /\ op[p].at \notin HoldingSteps
    BY <2>1, ControlFacts DEF InStep, OnPath, RemovalSteps, LateSteps, Failures, HoldingSteps
  <2>4. HoldsOnly(p)' /\ TakesForItself(p)
    BY <2>1, <2>2, <2>3 DEF ClaimsAreNeeded, HoldsOnly, TakesForItself
  <2> QED
    BY <2>4, OthersHold
<1> QED
  BY <1>1, <1>2 DEF Wait

LEMMA ReturnHolds ==
  ASSUME Control, ClaimsAreNeeded, NEW p \in Procs, Return(p)
  PROVE  ClaimsAreNeeded'
<1>1. /\ \A id \in Ids : groupLock'[id] = IF groupLock[id] = p THEN NoProc ELSE groupLock[id]
      /\ adoptLock' = adoptLock
  BY DEF Return
<1>2. \A id \in Ids : groupLock'[id] # p
  BY <1>1, ProcAssumption DEF Procs
<1>3. CASE op[p].kind = "adopt"
  <2>1. op' = At(p, "resume")
    BY <1>3 DEF Return
  <2>2. /\ \A q \in Procs \ {p} : op'[q] = op[q]
        /\ op'[p].at = "resume" /\ op'[p].kind = "adopt"
    BY <1>3, <2>1, StepIs, ControlFacts DEF Steps
  <2>3. HoldsOnly(p)' /\ TakesForItself(p)
    BY <1>1, <1>2, <2>2, ProcAssumption DEF HoldsOnly, TakesForItself, Procs
  <2> QED
    BY <2>3, OthersHold
<1>4. CASE op[p].kind # "adopt"
  <2>1. \A q \in Procs \ {p} : op'[q] = op[q]
    BY <1>4, ControlFacts DEF Return
  <2>2. HoldsOnly(p)' /\ TakesForItself(p)
    BY <1>1, <1>2, <1>4, <2>1, ProcAssumption DEF ClaimsAreNeeded, HoldsOnly, TakesForItself, Procs
  <2> QED
    BY <2>2, OthersHold
<1> QED
  BY <1>3, <1>4

LEMMA ContinueHolds ==
  ASSUME Control, ClaimsAreNeeded, NEW p \in Procs, Continue(p)
  PROVE  ClaimsAreNeeded'
<1>0. InStep(p) /\ op \in [Procs -> Operation] /\ op[p] \in Operation
  BY ControlFacts
\* The steps of an operation that holds nothing.
<1>1. CASE Register(p) \/ SaveSecret(p) \/ Select(p)
  <2>1. op[p].at \notin HoldingSteps /\ op[p].kind # "adopt"
    BY <1>0, <1>1 DEF Register, SaveSecret, Select, InStep, OnPath, HoldingSteps, LateSteps,
         RemovalSteps, Failures
  <2>2. UNCHANGED claims /\ \A q \in Procs \ {p} : op'[q] = op[q]
    BY <1>0, <1>1, ControlFacts DEF Register, SaveSecret, Select, Update, Skip, At
  <2> QED
    BY <2>1, <2>2, OnwardHolds
<1>2. CASE Discard(p)
  <2>1. /\ UNCHANGED claims /\ \A q \in Procs \ {p} : op'[q] = op[q]
        /\ op'[p].at = op[p].at /\ op'[p].kind = op[p].kind /\ op'[p].id = op[p].id
    BY <1>0, <1>2 DEF Discard, Operation
  <2>2. op[p].at # "enter"
    BY <1>2 DEF Discard
  <2> QED
    BY <2>1, <2>2, OnwardHolds
<1>3. CASE Catch(p) \/ (Validate(p) /\ Ready)
  <2>1. Release(p) /\ \A q \in Procs \ {p} : op'[q] = op[q]
    BY <1>0, <1>3 DEF Catch, Validate
  <2> QED
    BY <2>1, ReleaseHolds
<1>4. CASE ReadSeed(p)
  <2>1. CASE Skip(p, "thrown")
    BY <2>1, AtHolds DEF Skip, Steps, HoldingSteps
  <2>2. CASE ~Skip(p, "thrown")
    <3>1. /\ UNCHANGED claims /\ \A q \in Procs \ {p} : op'[q] = op[q]
          /\ op'[p].at = "derive" /\ op'[p].kind = op[p].kind /\ op'[p].id = op[p].id
      BY <1>0, <1>4, <2>2 DEF ReadSeed, Operation
    <3> QED
      BY <3>1, OnwardHolds DEF HoldingSteps
  <2> QED
    BY <2>1, <2>2
<1>5. ASSUME NEW s \in Steps \ {"enter"},
             Skip(p, s) \/ \E g, h : Update(p, g, h, At(p, s)),
             op[p].at \in HoldingSteps => s \in HoldingSteps
      PROVE  ClaimsAreNeeded'
  BY <1>5, AtHolds, UpdateHolds DEF Skip
<1>6. CASE Derive(p) \/ BeginGroupRemoval(p) \/ BeginAccountRemoval(p) \/ FinishRemoval(p)
             \/ Terminalize(p) \/ Leave(p) \/ (Validate(p) /\ ~Ready)
  <2>1. \E s \in {"returned", "thrown", "terminalize", "secret", "connections"} :
          Skip(p, s) \/ \E g, h : Update(p, g, h, At(p, s))
    BY <1>6 DEF Derive, BeginGroupRemoval, BeginAccountRemoval, FinishRemoval, Terminalize, Leave, Validate
  <2> QED
    BY <1>5, <2>1 DEF Steps, HoldingSteps, LateSteps
<1>7. CASE DeleteSecret(p) \/ RemoveConnections(p) \/ RemoveBalances(p)
  <2>1. \E s \in {"thrown", "connections", "balances", "finish"} : op' = At(p, s) /\ UNCHANGED claims
    BY <1>7 DEF DeleteSecret, RemoveConnections, RemoveBalances, Skip
  <2> QED
    BY <2>1, AtHolds DEF Steps, HoldingSteps, LateSteps
<1>8. CASE ListRemovals(p) \/ ResumeRemoval(p)
  <2>1. /\ UNCHANGED claims /\ \A q \in Procs \ {p} : op'[q] = op[q]
        /\ op'[p].kind = op[p].kind /\ op'[p].at # "enter" /\ op[p].at \in {"groups", "accounts", "resume"}
    <3>1. CASE ListRemovals(p)
      BY <1>0, <3>1 DEF ListRemovals, Operation
    <3>2. CASE ResumeRemoval(p)
      BY <1>0, <3>2 DEF ResumeRemoval, At, Operation
    <3> QED
      BY <1>8, <3>1, <3>2
  <2> QED
    BY <2>1, OnwardHolds DEF HoldingSteps, LateSteps
<1>9. CASE Return(p)
  BY <1>9, ReturnHolds
<1> QED
  BY <1>1, <1>2, <1>3, <1>4, <1>6, <1>7, <1>8, <1>9 DEF Continue

LEMMA NextHolds == ASSUME Control, ClaimsAreNeeded, Next PROVE ClaimsAreNeeded'
<1>1. ASSUME NEW p \in Procs, Fail(p) PROVE ClaimsAreNeeded'
  BY <1>1, AtHolds DEF Fail, Steps, HoldingSteps
<1>2. ASSUME NEW p \in Procs, Restarted(p) PROVE ClaimsAreNeeded'
  <2>1. Release(p) /\ \A q \in Procs \ {p} : op'[q] = op[q]
    BY <1>2, ControlFacts DEF Restarted
  <2> QED
    BY <2>1, ReleaseHolds
<1>3. ASSUME NEW a \in Addresses, Connect(a) \/ StoreBalance(a) PROVE ClaimsAreNeeded'
  BY <1>3 DEF Connect, StoreBalance, claims, ClaimsAreNeeded, HoldsOnly
<1> QED
  BY <1>1, <1>2, <1>3, StartsHold, WaitHolds, ContinueHolds, ControlFacts DEF Next, Crash, Relaunch

LEMMA ClaimsHold == Spec => []ClaimsAreNeeded
<1>1. Init => ClaimsAreNeeded
  BY ProcAssumption DEF Init, ClaimsAreNeeded, HoldsOnly, Procs
<1>2. Control /\ ClaimsAreNeeded /\ [Next]_vars => ClaimsAreNeeded'
  <2>1. ASSUME ClaimsAreNeeded, UNCHANGED vars PROVE ClaimsAreNeeded'
    BY <2>1, VarsAre DEF ClaimsAreNeeded, HoldsOnly
  <2> QED
    BY <2>1, NextHolds
<1> QED
  BY <1>1, <1>2, ControlHolds, PTL DEF Spec

WaitsForGroup(p, q) == op[p].at = "claim" /\ groupLock[op[p].id] = q
WaitsForAdoption(p, q) == op[p].at = "enter" /\ adoptLock = q

HoldersGoOn ==
  \A p, q \in Procs :
    /\ WaitsForGroup(p, q) =>
         op[q] # Idle /\ ~\E r \in Procs : WaitsForGroup(q, r) \/ WaitsForAdoption(q, r)
    /\ WaitsForAdoption(p, q) => op[q] # Idle /\ ~\E r \in Procs : WaitsForAdoption(q, r)

\* Who has the claim of a group is at work and waits for nobody, and who has the adoption's waits
\* at most for a group's: the app and its extensions never wait for each other in a circle, and no
\* claim is left behind by an operation that returned, threw or died (WalletGroupLifecycle.swift,
\* withAdoptionCoordination, WalletRegistryAdoption.swift).
THEOREM NobodyWaitsInACircle == Spec => []HoldersGoOn
<1>1. ASSUME Control, ClaimsAreNeeded, NEW p \in Procs, NEW q \in Procs, WaitsForGroup(p, q)
      PROVE  op[q] # Idle /\ op[q].at \notin {"claim", "enter"}
  <2>1. op[p].id \in Ids
    BY <1>1, ControlFacts DEF WaitsForGroup, InStep, RemovalSteps
  <2>2. op[q].at \in HoldingSteps
    BY <1>1, <2>1 DEF WaitsForGroup, ClaimsAreNeeded, HoldsOnly
  <2> QED
    BY <2>2, IdleIs DEF HoldingSteps, LateSteps
<1>2. ASSUME ClaimsAreNeeded, NEW p \in Procs, NEW q \in Procs, WaitsForAdoption(p, q)
      PROVE  op[q] # Idle /\ op[q].at # "enter"
  BY <1>2, IdleIs DEF WaitsForAdoption, ClaimsAreNeeded, HoldsOnly
<1>3. Control /\ ClaimsAreNeeded => HoldersGoOn
  BY <1>1, <1>2 DEF HoldersGoOn, WaitsForGroup, WaitsForAdoption
<1> QED
  BY <1>3, ControlHolds, ClaimsHold, PTL
=============================================================================
