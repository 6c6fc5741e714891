------------------------ MODULE ConnectedSitesProofs ------------------------
(***************************************************************************)
(* Proofs about ConnectedSites, for any accounts, sites, profiles and        *)
(* domains.                                                                  *)
(*                                                                          *)
(* DisconnectedStaysHidden is not inductive: a hidden account could come     *)
(* back through a grant that is left at the site or through its domain.      *)
(* IInv says that a disconnected account has neither, and that each active   *)
(* account has its grant, by which no write is ever refused.                 *)
(***************************************************************************)
EXTENDS ConnectedSites, TLAPS

Granted == Validated(exact, active)
Withdrawn ==
  \A site \in Sites, account \in Accounts :
    account \in revoked[site] =>
      account \notin exact[site] /\ account # hostname[Domain[site]]
IInv == TypeOK /\ Granted /\ RevocationIsNeverRefused /\ Withdrawn

-----------------------------------------------------------------------------
\* What a site sees is an account or nothing (ConnectedSitesStore.swift:88-108).
LEMMA VisibleType ==
  ASSUME TypeOK, NEW site \in Sites
  PROVE  VisibleAccount(site) \in Accounts \cup {None}
BY SitesAssumption DEF VisibleAccount, Fallback, TypeOK

\* A write whose result validates is made, and changes nothing else
\* (ConnectionState.swift:388-407).
LEMMA ValidWrite ==
  ASSUME NEW grants, NEW hosts, NEW chosen, Validated(grants, chosen),
         Mutate(grants, hosts, chosen)
  PROVE  exact' = grants /\ hostname' = hosts /\ active' = chosen /\ refused' = refused
BY DEF Mutate

\* Withdrawing an account leaves valid grants, and no trace of the account at the site
\* (ConnectedSitesStore.swift:160-170, 190-195).
LEMMA WithdrawKeepsInvariant ==
  ASSUME IInv, NEW account \in Accounts, NEW site \in Sites, NEW others \in BOOLEAN,
         Withdraw(account, site, others),
         leaving' \in [Sites -> Accounts \cup {None}],
         reviewed' \in [Sites -> Accounts \cup {None}]
  PROVE  IInv'
<1> DEFINE grants == [exact EXCEPT ![site] = @ \ {account}]
           hosts == [hostname EXCEPT ![Domain[site]] = IF @ = account THEN None ELSE @]
           chosen == [active EXCEPT ![site] = IF @ = account \/ others THEN None ELSE @]
<1>1. Validated(grants, chosen)
  BY DEF IInv, TypeOK, Granted, Validated
<1>2. /\ exact' = grants /\ hostname' = hosts /\ active' = chosen /\ refused' = refused
      /\ revoked' = [revoked EXCEPT ![site] = @ \cup {account}]
  BY <1>1, ValidWrite DEF Withdraw
<1>3. Domain[site] \in Domains
  BY SitesAssumption
<1>4. TypeOK'
  BY <1>2, <1>3 DEF IInv, TypeOK
<1>5. Granted'
  BY <1>1, <1>2 DEF Granted, Validated
<1>6. RevocationIsNeverRefused'
  BY <1>2 DEF IInv, RevocationIsNeverRefused
<1>7. Withdrawn'
  <2> SUFFICES ASSUME NEW s \in Sites, NEW a \in Accounts, a \in revoked'[s]
               PROVE  a \notin exact'[s] /\ a # hostname'[Domain[s]]
    BY DEF Withdrawn
  <2>1. Domain[s] \in Domains /\ a # None
    BY SitesAssumption
  <2>2. CASE a \in revoked[s]
    BY <2>1, <2>2, <1>2, <1>3 DEF IInv, TypeOK, Withdrawn
  <2>3. CASE a \notin revoked[s]
    <3>1. s = site /\ a = account
      BY <2>3, <1>2 DEF IInv, TypeOK
    <3> QED
      BY <3>1, <2>1, <1>2, <1>3 DEF IInv, TypeOK
  <2> QED
    BY <2>2, <2>3
<1> QED
  BY <1>4, <1>5, <1>6, <1>7 DEF IInv

-----------------------------------------------------------------------------
LEMMA InitIInv == Init => IInv
BY SitesAssumption
   DEF Init, IInv, TypeOK, Granted, Validated, RevocationIsNeverRefused, Withdrawn

LEMMA StepIInv == IInv /\ [Next]_vars => IInv'
<1> SUFFICES ASSUME IInv, [Next]_vars PROVE IInv'
  OBVIOUS
<1> USE SitesAssumption
<1>1. ASSUME NEW account \in Accounts, NEW site \in Sites, Connect(account, site)
      PROVE  IInv'
  <2> DEFINE grants == [exact EXCEPT ![site] = @ \cup {account}]
             chosen == [active EXCEPT ![site] = account]
  <2>1. Validated(grants, chosen)
    BY DEF IInv, TypeOK, Granted, Validated
  <2>2. /\ exact' = grants /\ hostname' = hostname /\ active' = chosen /\ refused' = refused
        /\ revoked' = [revoked EXCEPT ![site] = @ \ {account}]
        /\ leaving' = leaving /\ reviewed' = reviewed
    BY <1>1, <2>1, ValidWrite DEF Connect
  <2>3. TypeOK'
    BY <2>2 DEF IInv, TypeOK
  <2>4. Granted'
    BY <2>1, <2>2 DEF Granted, Validated
  <2>5. Withdrawn'
    BY <2>2 DEF IInv, TypeOK, Withdrawn
  <2> QED
    BY <2>2, <2>3, <2>4, <2>5 DEF IInv, RevocationIsNeverRefused
<1>2. ASSUME NEW account \in Accounts, NEW site \in Sites, RemoveExactRow(account, site)
      PROVE  IInv'
  <2> DEFINE grants == [exact EXCEPT ![site] = @ \ {account}]
             chosen == [active EXCEPT ![site] = IF @ = account THEN None ELSE @]
  <2>1. Validated(grants, chosen)
    BY DEF IInv, TypeOK, Granted, Validated
  <2>2. /\ exact' = grants /\ hostname' = hostname /\ active' = chosen /\ refused' = refused
        /\ UNCHANGED <<leaving, reviewed, revoked>>
    BY <1>2, <2>1, ValidWrite DEF RemoveExactRow
  <2>3. TypeOK'
    BY <2>2 DEF IInv, TypeOK
  <2>4. Granted'
    BY <2>1, <2>2 DEF Granted, Validated
  <2>5. Withdrawn'
    BY <2>2 DEF IInv, TypeOK, Withdrawn
  <2> QED
    BY <2>2, <2>3, <2>4, <2>5 DEF IInv, RevocationIsNeverRefused
<1>3. ASSUME NEW site \in Sites, BeginDisconnect(site)
      PROVE  IInv'
  <2>1. VisibleAccount(site) \in Accounts \cup {None}
    BY VisibleType DEF IInv
  <2> QED
    BY <1>3, <2>1 DEF BeginDisconnect, state, IInv, TypeOK, Granted, Validated,
                      RevocationIsNeverRefused, Withdrawn
<1>4. ASSUME NEW site \in Sites, Disconnect(site)
      PROVE  IInv'
  <2>1. leaving[site] \in Accounts /\ leaving' \in [Sites -> Accounts \cup {None}]
        /\ reviewed' \in [Sites -> Accounts \cup {None}]
    BY <1>4 DEF Disconnect, IInv, TypeOK
  <2> QED
    BY <1>4, <2>1, WithdrawKeepsInvariant DEF Disconnect
<1>5. ASSUME NEW site \in Sites, Review(site)
      PROVE  IInv'
  <2>1. VisibleAccount(site) \in Accounts \cup {None}
    BY VisibleType DEF IInv
  <2> QED
    BY <1>5, <2>1 DEF Review, state, IInv, TypeOK, Granted, Validated,
                      RevocationIsNeverRefused, Withdrawn
<1>6. ASSUME NEW site \in Sites, DisconnectReviewed(site)
      PROVE  IInv'
  <2>1. reviewed[site] \in Accounts /\ leaving' \in [Sites -> Accounts \cup {None}]
        /\ reviewed' \in [Sites -> Accounts \cup {None}]
    BY <1>6 DEF DisconnectReviewed, IInv, TypeOK
  <2>2. CASE VisibleAccount(site) = reviewed[site]
    BY <1>6, <2>1, <2>2, WithdrawKeepsInvariant DEF DisconnectReviewed
  <2>3. CASE VisibleAccount(site) # reviewed[site]
    BY <1>6, <2>1, <2>3 DEF DisconnectReviewed, state, IInv, TypeOK, Granted, Validated,
                            RevocationIsNeverRefused, Withdrawn
  <2> QED
    BY <2>2, <2>3
<1>7. ASSUME NEW domain \in Domains, RemoveHostnameRow(domain)
      PROVE  IInv'
  <2>1. Validated(exact, active)
    BY DEF IInv, Granted
  <2>2. /\ exact' = exact /\ hostname' = [hostname EXCEPT ![domain] = None]
        /\ active' = active /\ refused' = refused /\ UNCHANGED <<leaving, reviewed, revoked>>
    BY <1>7, <2>1, ValidWrite DEF RemoveHostnameRow
  <2>3. TypeOK'
    BY <2>2 DEF IInv, TypeOK
  <2>4. Withdrawn'
    BY <2>2 DEF IInv, TypeOK, Withdrawn
  <2> QED
    BY <2>1, <2>2, <2>3, <2>4 DEF IInv, Granted, RevocationIsNeverRefused
<1>8. CASE UNCHANGED vars
  BY <1>8 DEF vars, state, IInv, TypeOK, Granted, Validated, RevocationIsNeverRefused, Withdrawn
<1> QED
  BY <1>1, <1>2, <1>3, <1>4, <1>5, <1>6, <1>7, <1>8 DEF Next

LEMMA Invariance == Spec => []IInv
BY InitIInv, StepIInv, PTL DEF Spec

-----------------------------------------------------------------------------
\* Once an account is disconnected at a site, the site does not see it until the user connects it
\* again, whatever is connected and removed meanwhile (ConnectedSitesStore.swift:153-171).
THEOREM StaysHidden == Spec => []DisconnectedStaysHidden
<1>1. IInv => DisconnectedStaysHidden
  <2> SUFFICES ASSUME IInv, NEW site \in Sites, VisibleAccount(site) \in revoked[site]
               PROVE  FALSE
    BY DEF DisconnectedStaysHidden
  <2>1. VisibleAccount(site) \in Accounts
    BY DEF IInv, TypeOK
  <2>2. CASE active[site] # None
    BY <2>1, <2>2 DEF VisibleAccount, IInv, Granted, Validated, Withdrawn
  <2>3. CASE active[site] = None
    BY <2>1, <2>3, SitesAssumption DEF VisibleAccount, Fallback, IInv, Withdrawn
  <2> QED
    BY <2>2, <2>3
<1> QED
  BY <1>1, Invariance, PTL

\* No sequence of connections and removals arrives at a write that validation refuses
\* (ConnectionState.swift:180-191, 402).
THEOREM NothingIsRefused == Spec => []RevocationIsNeverRefused
<1>1. IInv => RevocationIsNeverRefused
  BY DEF IInv
<1> QED
  BY <1>1, Invariance, PTL

\* A site loses its active account only by a disconnect that named it, or with its own row
\* (ConnectedSitesStore.swift:166-169, 173-195, 204-212).
THEOREM OnlyTheNamedLeaves == Spec => OnlyTheNamedAccountLeaves
<1> DEFINE Named ==
      \A site \in Sites :
        active[site] # None /\ active'[site] = None =>
          \/ active[site] \in revoked'[site]
          \/ /\ exact' = [exact EXCEPT ![site] = @ \ {active[site]}]
             /\ UNCHANGED <<hostname, leaving, reviewed>>
<1>1. IInv /\ [Next]_vars => [Named]_vars
  <2> SUFFICES ASSUME IInv, Next, NEW site \in Sites, active[site] # None, active'[site] = None
               PROVE  \/ active[site] \in revoked'[site]
                      \/ /\ exact' = [exact EXCEPT ![site] = @ \ {active[site]}]
                         /\ UNCHANGED <<hostname, leaving, reviewed>>
    OBVIOUS
  <2> USE SitesAssumption
  <2>1. ASSUME NEW account \in Accounts, NEW s \in Sites, Withdraw(account, s, FALSE)
        PROVE  active[site] \in revoked'[site]
    BY <2>1 DEF Withdraw, Mutate, state, IInv, TypeOK
  <2>2. ASSUME NEW account \in Accounts, NEW s \in Sites, Connect(account, s)
        PROVE  FALSE
    BY <2>2 DEF Connect, Mutate, state, IInv, TypeOK
  <2>3. ASSUME NEW account \in Accounts, NEW s \in Sites, RemoveExactRow(account, s)
        PROVE  /\ exact' = [exact EXCEPT ![site] = @ \ {active[site]}]
               /\ UNCHANGED <<hostname, leaving, reviewed>>
    BY <2>3 DEF RemoveExactRow, Mutate, state, IInv, TypeOK
  <2>4. ASSUME NEW s \in Sites, Disconnect(s)
        PROVE  active[site] \in revoked'[site]
    BY <2>1, <2>4 DEF Disconnect, IInv, TypeOK
  <2>5. ASSUME NEW s \in Sites, DisconnectReviewed(s)
        PROVE  active[site] \in revoked'[site]
    <3>1. VisibleAccount(s) = reviewed[s] /\ Withdraw(reviewed[s], s, TRUE)
      BY <2>5 DEF DisconnectReviewed, state
    <3>2. s = site
      BY <3>1 DEF Withdraw, Mutate, state, IInv, TypeOK
    <3>3. reviewed[s] = active[s]
      BY <3>1, <3>2 DEF VisibleAccount
    <3> QED
      BY <3>1, <3>2, <3>3 DEF Withdraw, IInv, TypeOK
  <2>6. ASSUME NEW domain \in Domains, RemoveHostnameRow(domain)
        PROVE  FALSE
    BY <2>6 DEF RemoveHostnameRow, Mutate, state
  <2>7. ASSUME NEW s \in Sites, BeginDisconnect(s) \/ Review(s)
        PROVE  FALSE
    BY <2>7 DEF BeginDisconnect, Review, state
  <2> QED
    BY <2>2, <2>3, <2>4, <2>5, <2>6, <2>7 DEF Next
<1> QED
  BY <1>1, Invariance, PTL DEF Spec, OnlyTheNamedAccountLeaves
=============================================================================
