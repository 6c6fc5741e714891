---------------------------- MODULE ConnectedSites ----------------------------
(***************************************************************************)
(* Which account a site sees.  A site is an origin in a browser profile; a   *)
(* grant is exact, for one site, or a retained hostname grant of an earlier  *)
(* version, which the sites of its domain fall back to as long as the domain *)
(* has no exact grant.  A site with several granted accounts has one that is *)
(* active.                                                                   *)
(*                                                                          *)
(* Sources: ConnectedSitesStore.swift, ConnectionState.swift; the callers in *)
(* WalletService.swift, NativeWalletDispatcher.swift, ConnectedAppsView.swift. *)
(* Every write is made under the locks of the registry and of the state, and *)
(* is one step; a page's disconnect and a popup's review are two, and the    *)
(* state may change between them.                                            *)
(***************************************************************************)
EXTENDS FiniteSets

CONSTANTS
  Accounts,      \* the registered accounts that have a key
  SafariSites, ChromeSites,
  Domains,
  Domain,        \* the domain of a site
  None

Sites == SafariSites \cup ChromeSites

ASSUME SitesAssumption ==
  Domain \in [Sites -> Domains] /\ None \notin Accounts /\ SafariSites \cap ChromeSites = {}

VARIABLES
  exact,     \* the accounts granted to each site
  hostname,  \* the account each domain's hostname grant names, or None
  active,    \* the account each site sees of those granted to it, or None
  leaving,   \* what the page of each site saw as it began to disconnect, or None
  reviewed,  \* the account that the popup opened on each site shows, or None
  refused,   \* history: a write failed validation
  revoked    \* history: the accounts disconnected at each site and not connected again
state == <<exact, hostname, active>>
vars == <<state, leaving, reviewed, refused, revoked>>

TypeOK ==
  /\ exact \in [Sites -> SUBSET Accounts]
  /\ hostname \in [Domains -> Accounts \cup {None}]
  /\ active \in [Sites -> Accounts \cup {None}]
  /\ leaving \in [Sites -> Accounts \cup {None}] /\ reviewed \in [Sites -> Accounts \cup {None}]
  /\ refused \in BOOLEAN /\ revoked \in [Sites -> SUBSET Accounts]

-----------------------------------------------------------------------------
\* The hostname grant of the site's domain: never in Chrome, and not beside an exact one.
Fallback(site) ==
  IF site \in ChromeSites \/ \E s \in Sites : Domain[s] = Domain[site] /\ exact[s] # {}
  THEN None ELSE hostname[Domain[site]]

VisibleAccount(site) == IF active[site] # None THEN active[site] ELSE Fallback(site)

\* A write that leaves an active connection without its grant is refused.
Validated(grants, chosen) == \A s \in Sites : chosen[s] # None => chosen[s] \in grants[s]
Mutate(grants, hosts, chosen) ==
  IF Validated(grants, chosen)
  THEN exact' = grants /\ hostname' = hosts /\ active' = chosen /\ UNCHANGED refused
  ELSE refused' = TRUE /\ UNCHANGED state

-----------------------------------------------------------------------------
Init ==
  /\ exact = [s \in Sites |-> {}] /\ active = [s \in Sites |-> None]
  /\ hostname \in [Domains -> Accounts \cup {None}]
  /\ leaving = [s \in Sites |-> None] /\ reviewed = [s \in Sites |-> None]
  /\ refused = FALSE /\ revoked = [s \in Sites |-> {}]

\* An approved connection or sign-in.
Connect(account, site) ==
  /\ Mutate([exact EXCEPT ![site] = @ \cup {account}], hostname,
            [active EXCEPT ![site] = account])
  /\ revoked' = [revoked EXCEPT ![site] = @ \ {account}]
  /\ UNCHANGED <<leaving, reviewed>>

\* Faulty: the hostname grant stays.
WithdrawExact(account, site, others) ==
  /\ Mutate([exact EXCEPT ![site] = @ \ {account}], hostname,
            [active EXCEPT ![site] = IF @ = account \/ others THEN None ELSE @])
  /\ revoked' = [revoked EXCEPT ![site] = @ \cup {account}]

\* What a page's disconnect and a popup's have in common: the exact grant goes, and the hostname
\* grant if it names the same account.  The popup's clears the active connection unconditionally.
Withdraw(account, site, others) ==
  /\ Mutate([exact EXCEPT ![site] = @ \ {account}],
            [hostname EXCEPT ![Domain[site]] = IF @ = account THEN None ELSE @],
            [active EXCEPT ![site] = IF @ = account \/ others THEN None ELSE @])
  /\ revoked' = [revoked EXCEPT ![site] = @ \cup {account}]

\* A page asks to be disconnected: the account it sees is read, and then withdrawn.
BeginDisconnect(site) ==
  /\ leaving[site] = None /\ VisibleAccount(site) # None
  /\ leaving' = [leaving EXCEPT ![site] = VisibleAccount(site)]
  /\ UNCHANGED <<state, reviewed, refused, revoked>>

Disconnect(site) ==
  /\ leaving[site] # None
  /\ Withdraw(leaving[site], site, FALSE)
  /\ leaving' = [leaving EXCEPT ![site] = None]
  /\ UNCHANGED reviewed

\* The popup shows the account that the site sees, and the user disconnects that account.
Review(site) ==
  /\ VisibleAccount(site) # None
  /\ reviewed' = [reviewed EXCEPT ![site] = VisibleAccount(site)]
  /\ UNCHANGED <<state, leaving, refused, revoked>>

\* Faulty: what the site sees by now is not compared with what the user reviewed.
DisconnectUncompared(site) ==
  /\ reviewed[site] # None
  /\ Withdraw(reviewed[site], site, TRUE)
  /\ reviewed' = [reviewed EXCEPT ![site] = None]
  /\ UNCHANGED leaving

DisconnectReviewed(site) ==
  /\ reviewed[site] # None
  /\ reviewed' = [reviewed EXCEPT ![site] = None]
  /\ IF VisibleAccount(site) = reviewed[site]
     THEN Withdraw(reviewed[site], site, TRUE)
     ELSE UNCHANGED <<state, refused, revoked>>
  /\ UNCHANGED leaving

\* The app deletes one of its rows: an exact grant, with the connection it made active ...
RemoveExactRow(account, site) ==
  /\ account \in exact[site]
  /\ Mutate([exact EXCEPT ![site] = @ \ {account}], hostname,
            [active EXCEPT ![site] = IF @ = account THEN None ELSE @])
  /\ UNCHANGED <<leaving, reviewed, revoked>>

\* ... or a hostname grant.
RemoveHostnameRow(domain) ==
  /\ hostname[domain] # None
  /\ Mutate(exact, [hostname EXCEPT ![domain] = None], active)
  /\ UNCHANGED <<leaving, reviewed, revoked>>

Next ==
  \/ \E account \in Accounts, site \in Sites :
       Connect(account, site) \/ RemoveExactRow(account, site)
  \/ \E site \in Sites :
       BeginDisconnect(site) \/ Disconnect(site) \/ Review(site) \/ DisconnectReviewed(site)
  \/ \E domain \in Domains : RemoveHostnameRow(domain)
Spec == Init /\ [][Next]_vars

-----------------------------------------------------------------------------
\* "Removing an exact grant also removes that account's retained hostname fallback so disconnect
\* cannot reveal it again" (ConnectedSitesStore.swift:153-154): once an account is disconnected
\* at a site, the site does not see it until the user connects it again, whatever is connected
\* and removed meanwhile at this site or at another of its domain.
DisconnectedStaysHidden == \A site \in Sites : VisibleAccount(site) \notin revoked[site]

\* "A concurrent account switch cannot revoke another grant" (ConnectedSitesStore.swift:173-174):
\* a site loses its active account only by a disconnect that named the account, or with the row
\* of its own grant.
OnlyTheNamedAccountLeaves ==
  [][\A site \in Sites :
       active[site] # None /\ active'[site] = None =>
         \/ active[site] \in revoked'[site]
         \/ /\ exact' = [exact EXCEPT ![site] = @ \ {active[site]}]
            /\ UNCHANGED <<hostname, leaving, reviewed>>]_vars

\* No sequence of connections and removals arrives at a write that validation refuses: it would
\* be refused again on every later attempt, and the row could not be removed
\* (ConnectionState.swift:180-191, 402).
RevocationIsNeverRefused == ~refused
=============================================================================
