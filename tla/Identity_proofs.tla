---------------------------- MODULE Identity_proofs ----------------------------
(***************************************************************************)
(* Proofs about the two ways into the platform, for any number of people,  *)
(* links and sign-ins: StaffAccess, where only an invitation or a grant    *)
(* makes an account a staff account and nobody of the staff is in twice,   *)
(* and InviteIdentity, where a link that was taken back opens nothing and  *)
(* the rows of a join agree.                                               *)
(***************************************************************************)
EXTENDS InviteIdentity, StaffAccess, FiniteSetTheorems, TLAPS

-----------------------------------------------------------------------------
(* Staff: the inductive invariant. *)

\* The revision of an account counts from its first row; only a row can be in use.
RowsAreCounted == \A a \in Accounts :
  /\ Exists(a) <=> identities[a].revision > 0
  /\ identities[a].live => Exists(a)

\* A link that was made is for somebody, and only what exists is revoked.
LinksAreNamed == \A k \in Links :
  /\ links[k].status # "NONE" => links[k].user \in Members
  /\ \A a \in links[k].outdated : Exists(a)

\* A sign-in follows a link that was made.
LoginsAreLinked == \A l \in Logins :
  /\ logins[l].link # Nothing => links[logins[l].link].status # "NONE"
  /\ logins[l].stage \in {"CHECKED", "DONE"} => logins[l].account \in Accounts

\* An account that a link may tie to its member, or that needs no link.
Fits(k, a) ==
  IF k = Nothing THEN identities[a].live \/ ~ Exists(a)
  ELSE /\ identities[a].user \in {Nothing, links[k].user}
       /\ Exists(a) /\ ~ identities[a].live => a \notin links[k].outdated

\* What a sign-in has checked still holds if the revision of the account is the one it
\* has seen; and of two sign-ins with one account at most one has seen a row.
CheckHolds(l) ==
  LET a == logins[l].account IN
  /\ logins[l].seen <= identities[a].revision
  /\ logins[l].seen = identities[a].revision => Fits(logins[l].link, a)
  /\ \A j \in Logins : j # l /\ logins[j].stage = "CHECKED" /\ logins[j].account = a =>
       logins[l].seen = 0 \/ logins[j].seen = 0

ChecksHold == \A l \in Logins : logins[l].stage = "CHECKED" => CheckHolds(l)

\* The sign-in that tied account a to its member, as TiedByLink puts it.
TiedBy(l, a) ==
  LET k == logins[l].link IN
  /\ logins[l].stage = "DONE" /\ logins[l].account = a
  /\ k # Nothing
  /\ links[k].status = "CONSUMED"
  /\ links[k].user = identities[a].user
  /\ a \notin links[k].outdated

\* An account in use was tied to its user, or came with it and was never revoked,
\* whatever the roles of the user are.
Invited == \A a \in Accounts :
  identities[a].live =>
    \/ \E l \in Logins : TiedBy(l, a)
    \/ identities[a].user = a /\ identities[a].revision = 1

\* The user that came with an account is known only where there is a row of the account,
\* and has no staff role that no grant gave.
UsersAreKnown ==
  /\ \A a \in Accounts : ~ Exists(a) => roles[a] = {} /\ access[a] = "none"
  /\ \A a \in Accounts, u \in Accounts : identities[a].user = u => Exists(u)
  /\ \A k \in Links, u \in Accounts : links[k].user = u => Exists(u)
  /\ \A a \in Accounts : access[a] = "none" => roles[a] \cap StaffRoles = {}

\* Of the staff sessions of a member at most one is not revoked.
OneTicket == \A m \in Members, i \in Logins, j \in Logins :
  /\ tickets[i].user = m /\ tickets[i].role # "LEARNER" /\ ~ tickets[i].revoked
  /\ tickets[j].user = m /\ tickets[j].role # "LEARNER" /\ ~ tickets[j].revoked
  => i = j

\* The inductive invariant of the staff's side.
AccessInv ==
  /\ AccessTypeOK
  /\ RowsAreCounted
  /\ LinksAreNamed
  /\ LoginsAreLinked
  /\ ChecksHold
  /\ Invited
  /\ UsersAreKnown
  /\ OneTicket

-----------------------------------------------------------------------------
(* Staff: the commands of the operator. *)

\* The rows of the tables.
IdentityRows == [user : Members \cup {Nothing}, live : BOOLEAN, revision : Nat]
LinkRows == [status : {"NONE", "PENDING", "EXPIRED", "REVOKED", "CONSUMED"},
             user : Members \cup {Nothing}, role : StaffRoles, late : BOOLEAN,
             outdated : SUBSET Accounts]
LoginRows == [stage : {"NONE", "STARTED", "CHECKED", "DONE", "FAILED"},
              link : Links \cup {Nothing}, role : StaffRoles \cup {"LEARNER"},
              account : Accounts \cup {Nothing}, seen : Nat]
TicketRows == [user : Members \cup {Nothing}, account : Accounts \cup {Nothing},
               revision : Nat, role : StaffRoles \cup {"LEARNER"}, revoked : BOOLEAN]
RoleRows == SUBSET (StaffRoles \cup {"LEARNER"})
AccessRows == {"none", "admin", "super_admin", "revoked"}

\* A link row keeps its member and its age, and once made or consumed stays so; or it is
\* made for somebody with a role.
LinkStays(k) ==
  /\ links'[k].user = links[k].user /\ links'[k].outdated = links[k].outdated
  /\ links'[k].status = "NONE" <=> links[k].status = "NONE"
  /\ links[k].status = "CONSUMED" => links'[k].status = "CONSUMED"
LinkIsMade(k) ==
  /\ links[k].status = "NONE" /\ links'[k].status # "NONE"
  /\ links'[k].outdated = {}
  /\ links'[k].user \in Members /\ roles[links'[k].user] # {}

\* What happens to links outside a sign-in.
LinkCommand ==
  \E k \in Links :
    \/ \E m \in Members, role \in StaffRoles : CreateIdentityLink(k, m, role)
    \/ RevokeIdentityLink(k) \/ LinkGetsLate(k) \/ StartWithLateLink(k)

\* A command on links touches nothing else.
LEMMA LinksMove ==
  ASSUME AccessTypeOK, LinkCommand
  PROVE  /\ UNCHANGED <<identities, logins, tickets, roles, access>>
         /\ links' \in [Links -> LinkRows]
         /\ \A k \in Links : LinkStays(k) \/ LinkIsMade(k)
<1> DEFINE Moved == /\ UNCHANGED <<identities, logins, tickets, roles, access>>
                    /\ links' \in [Links -> LinkRows]
                    /\ \A k \in Links : LinkStays(k) \/ LinkIsMade(k)
<1>0. links \in [Links -> LinkRows]
  BY DEF AccessTypeOK, LinkRows
<1>1. ASSUME NEW k \in Links, NEW status \in {"EXPIRED", "REVOKED"},
             links[k].status = "PENDING", links' = [links EXCEPT ![k].status = status],
             UNCHANGED <<identities, logins, tickets, roles, access>>
      PROVE  Moved
  <2>1. links' = [links EXCEPT ![k] = [links[k] EXCEPT !.status = status]]
    BY <1>1
  <2>2. [links[k] EXCEPT !.status = status] \in LinkRows
    BY <1>0 DEF LinkRows
  <2>3. links' \in [Links -> LinkRows]
    BY <1>0, <2>1, <2>2
  <2>4. ASSUME NEW j \in Links PROVE LinkStays(j)
    <3>1. CASE j = k
      BY <1>0, <1>1, <2>1, <3>1 DEF LinkStays, LinkRows
    <3>2. CASE j # k
      <4>1. links'[j] = links[j]
        BY <1>0, <2>1, <3>2
      <4> QED BY <4>1 DEF LinkStays
    <3> QED BY <3>1, <3>2
  <2> QED BY <1>1, <2>3, <2>4
<1>2. ASSUME NEW k \in Links, LinkGetsLate(k) PROVE Moved
  <2>1. links' = [links EXCEPT ![k] = [links[k] EXCEPT !.late = TRUE]]
    BY <1>2 DEF LinkGetsLate
  <2>2. [links[k] EXCEPT !.late = TRUE] \in LinkRows
    BY <1>0 DEF LinkRows
  <2>3. links' \in [Links -> LinkRows]
    BY <1>0, <2>1, <2>2
  <2>4. ASSUME NEW j \in Links PROVE LinkStays(j)
    <3>1. CASE j = k
      BY <1>0, <2>1, <3>1 DEF LinkStays, LinkRows
    <3>2. CASE j # k
      <4>1. links'[j] = links[j]
        BY <1>0, <2>1, <3>2
      <4> QED BY <4>1 DEF LinkStays
    <3> QED BY <3>1, <3>2
  <2> QED BY <1>2, <2>3, <2>4 DEF LinkGetsLate
<1>3. ASSUME NEW k \in Links, NEW m \in Members, NEW role \in StaffRoles, CreateIdentityLink(k, m, role)
      PROVE  Moved
  <2> DEFINE pending == {j \in Links : links[j].status = "PENDING" /\ links[j].user = m
                                       /\ links[j].role = role}
             made == [NoLink EXCEPT !.status = "PENDING", !.user = m, !.role = role]
             row(j) == IF j = k THEN made
                       ELSE IF j \in pending THEN [links[j] EXCEPT !.status = "EXPIRED"] ELSE links[j]
  <2>1. links' = [j \in Links |-> row(j)] /\ links[k].status = "NONE" /\ roles[m] # {}
    BY <1>3 DEF CreateIdentityLink
  <2>2. made \in LinkRows /\ made.status = "PENDING" /\ made.user = m /\ made.outdated = {}
    BY DEF NoLink, LinkRows, StaffRoles, Members
  <2>3. ASSUME NEW j \in Links, j # k
        PROVE  row(j) \in LinkRows /\ (links'[j] = row(j) => LinkStays(j))
    <3>1. CASE j \in pending
      <4>1. row(j) = [links[j] EXCEPT !.status = "EXPIRED"]
        BY <2>3, <3>1
      <4>2. /\ row(j) \in LinkRows /\ row(j).user = links[j].user
            /\ row(j).outdated = links[j].outdated /\ row(j).status = "EXPIRED"
        BY <1>0, <4>1 DEF LinkRows
      <4> QED BY <3>1, <4>2 DEF LinkStays
    <3>2. CASE j \notin pending
      <4>1. row(j) = links[j]
        BY <2>3, <3>2
      <4> QED BY <1>0, <4>1 DEF LinkStays
    <3> QED BY <3>1, <3>2
  <2>4. \A j \in Links : row(j) \in LinkRows
    BY <2>2, <2>3
  <2>5. links' \in [Links -> LinkRows]
    BY <2>1, <2>4
  <2>6. ASSUME NEW j \in Links PROVE LinkStays(j) \/ LinkIsMade(j)
    <3>1. CASE j = k
      BY <2>1, <2>2, <3>1 DEF LinkIsMade
    <3>2. CASE j # k
      BY <2>1, <2>3, <3>2
    <3> QED BY <3>1, <3>2
  <2> QED BY <1>3, <2>5, <2>6 DEF CreateIdentityLink
<1> QED BY <1>1, <1>2, <1>3 DEF LinkCommand, RevokeIdentityLink, StartWithLateLink

\* The two ways an account is taken from its member, while no sign-in holds it: its
\* row is out of use, one revision on; the links remember a revocation of theirs.
AccountTaken(a) ==
  /\ Exists(a) /\ ~ HeldAccount(a)
  /\ \E user \in Members :
       /\ user = identities[a].user \/ roles[user] # {}
       /\ identities' = [identities EXCEPT ![a] = [user |-> user, live |-> FALSE,
                                                   revision |-> identities[a].revision + 1]]
  /\ \A k \in Links : /\ links'[k].user = links[k].user /\ links'[k].status = links[k].status
                      /\ links'[k].outdated \subseteq links[k].outdated \cup {a}
  /\ \A l \in Logins : tickets'[l] = tickets[l] \/
       (tickets'[l].revoked /\ tickets'[l].user = tickets[l].user /\ tickets'[l].role = tickets[l].role)
  /\ UNCHANGED <<logins, roles, access>>
  /\ links' \in [Links -> LinkRows]
  /\ tickets' \in [Logins -> TicketRows]

\* A row is its fields.
LEMMA RowIsItsFields ==
  \A row \in IdentityRows : row = [user |-> row.user, live |-> row.live, revision |-> row.revision]
  BY DEF IdentityRows

\* revoke and transfer of an account give its row a new revision that is not live, whatever
\* links and tickets still show it.
LEMMA AccountsMove ==
  ASSUME AccessTypeOK, NEW a \in Accounts,
         RevokeExternalIdentity(a) \/ \E m \in Members : TransferRevokedExternalIdentity(a, m)
  PROVE  AccountTaken(a)
<1>0. /\ identities \in [Accounts -> IdentityRows] /\ links \in [Links -> LinkRows]
      /\ tickets \in [Logins -> TicketRows]
  BY DEF AccessTypeOK, IdentityRows, LinkRows, TicketRows
<1>1. CASE RevokeExternalIdentity(a)
  <2> DEFINE ticket(l) == IF tickets[l].account = a THEN [tickets[l] EXCEPT !.revoked = TRUE]
                          ELSE tickets[l]
             link(k) == IF links[k].status = "NONE" THEN links[k]
                        ELSE [links[k] EXCEPT !.outdated = @ \cup {a}]
  <2>1. /\ Exists(a) /\ ~ HeldAccount(a) /\ UNCHANGED <<logins, roles, access>>
        /\ identities' = [identities EXCEPT ![a].live = FALSE, ![a].revision = @ + 1]
        /\ tickets' = [l \in Logins |-> ticket(l)]
        /\ links' = [k \in Links |-> link(k)]
    BY <1>1 DEF RevokeExternalIdentity
  <2>2. identities' = [identities EXCEPT ![a] = [user |-> identities[a].user, live |-> FALSE,
                                                 revision |-> identities[a].revision + 1]]
    <3>1. identities' = [identities EXCEPT ![a] = [identities[a] EXCEPT !.live = FALSE, !.revision = @ + 1]]
      BY <1>0, <2>1
    <3>2. [identities[a] EXCEPT !.live = FALSE, !.revision = @ + 1] =
            [user |-> identities[a].user, live |-> FALSE, revision |-> identities[a].revision + 1]
      <4> DEFINE row == [identities[a] EXCEPT !.live = FALSE, !.revision = @ + 1]
      <4>1. /\ row \in IdentityRows /\ row.user = identities[a].user /\ row.live = FALSE
            /\ row.revision = identities[a].revision + 1
        <5>1. identities[a] \in IdentityRows
          BY <1>0
        <5>2. identities[a].revision + 1 \in Nat
          BY <5>1 DEF IdentityRows
        <5> QED BY <5>1, <5>2 DEF IdentityRows
      <4> QED BY <4>1, RowIsItsFields
    <3> QED BY <3>1, <3>2
  <2>3. identities[a].user \in Members
    BY <1>0, <2>1 DEF Exists, IdentityRows
  <2>4. \A l \in Logins : /\ ticket(l) \in TicketRows
                          /\ ticket(l) = tickets[l] \/
                             (ticket(l).revoked /\ ticket(l).user = tickets[l].user /\ ticket(l).role = tickets[l].role)
    BY <1>0 DEF TicketRows
  <2>5. ASSUME NEW k \in Links
        PROVE  /\ link(k) \in LinkRows
               /\ link(k).user = links[k].user /\ link(k).status = links[k].status
               /\ link(k).outdated \subseteq links[k].outdated \cup {a}
    <3>1. CASE links[k].status = "NONE"
      BY <1>0, <3>1
    <3>2. CASE links[k].status # "NONE"
      <4>1. link(k) = [links[k] EXCEPT !.outdated = @ \cup {a}]
        BY <3>2
      <4>2. links[k].outdated \cup {a} \in SUBSET Accounts
        BY <1>0 DEF LinkRows
      <4> QED BY <1>0, <4>1, <4>2 DEF LinkRows
    <3> QED BY <3>1, <3>2
  <2> QED BY <2>1, <2>2, <2>3, <2>4, <2>5 DEF AccountTaken
<1>2. ASSUME NEW m \in Members, TransferRevokedExternalIdentity(a, m) PROVE AccountTaken(a)
  <2>1. /\ Exists(a) /\ ~ HeldAccount(a) /\ ~ identities[a].live /\ roles[m] # {}
        /\ UNCHANGED <<links, logins, tickets, roles, access>>
        /\ identities' = [identities EXCEPT ![a].user = m, ![a].revision = @ + 1]
    BY <1>2 DEF TransferRevokedExternalIdentity, Transferable
  <2>2. identities' = [identities EXCEPT ![a] = [user |-> m, live |-> FALSE,
                                                 revision |-> identities[a].revision + 1]]
    <3>1. identities' = [identities EXCEPT ![a] = [identities[a] EXCEPT !.user = m, !.revision = @ + 1]]
      BY <1>0, <2>1
    <3>2. identities[a].live = FALSE
      BY <1>0, <2>1 DEF IdentityRows
    <3>3. [identities[a] EXCEPT !.user = m, !.revision = @ + 1] =
            [user |-> m, live |-> FALSE, revision |-> identities[a].revision + 1]
      <4> DEFINE row == [identities[a] EXCEPT !.user = m, !.revision = @ + 1]
      <4>1. /\ row \in IdentityRows /\ row.user = m /\ row.live = FALSE
            /\ row.revision = identities[a].revision + 1
        <5>1. identities[a] \in IdentityRows /\ m \in Members
          BY <1>0 DEF Members
        <5>2. identities[a].revision + 1 \in Nat
          BY <5>1 DEF IdentityRows
        <5> QED BY <3>2, <5>1, <5>2 DEF IdentityRows
      <4> QED BY <4>1, RowIsItsFields
    <3> QED BY <3>1, <3>3
  <2> QED BY <1>0, <2>1, <2>2 DEF AccountTaken, Members
<1> QED BY <1>1, <1>2

\* A command on links keeps the invariant: what a sign-in follows stays what it is.
LEMMA LinksKeep ==
  ASSUME AccessInv, LinkCommand
  PROVE  AccessInv'
<1>0. AccessInv /\ links \in [Links -> LinkRows] /\ logins \in [Logins -> LoginRows]
  BY DEF AccessInv, AccessTypeOK, LinkRows, LoginRows
<1>1. /\ UNCHANGED <<identities, logins, tickets, roles, access>>
      /\ links' \in [Links -> LinkRows]
      /\ \A k \in Links : LinkStays(k) \/ LinkIsMade(k)
  BY LinksMove DEF AccessInv
<1>2. ASSUME NEW l \in Logins, logins[l].link # Nothing
      PROVE  logins[l].link \in Links /\ LinkStays(logins[l].link)
  <2>1. logins[l].link \in Links /\ links[logins[l].link].status # "NONE"
    BY <1>0, <1>2 DEF AccessInv, LoginsAreLinked, LoginRows
  <2> QED BY <1>1, <2>1 DEF LinkIsMade
<1>3. AccessTypeOK'
  BY <1>0, <1>1 DEF AccessInv, AccessTypeOK, LinkRows
<1>4. RowsAreCounted' /\ OneTicket'
  BY <1>0, <1>1 DEF AccessInv, RowsAreCounted, OneTicket, Exists
<1>5. LinksAreNamed'
  BY <1>0, <1>1 DEF AccessInv, LinksAreNamed, LinkStays, LinkIsMade, Exists
<1>6. LoginsAreLinked'
  BY <1>0, <1>1, <1>2 DEF AccessInv, LoginsAreLinked, LinkStays
<1>7. ChecksHold'
  <2>1. \A l \in Logins : Fits(logins[l].link, logins[l].account) =>
                          Fits(logins[l].link, logins[l].account)'
    BY <1>1, <1>2 DEF Fits, LinkStays, Exists
  <2> QED BY <1>0, <1>1, <2>1 DEF AccessInv, ChecksHold, CheckHolds
<1>8. Invited'
  <2>1. \A l \in Logins, a \in Accounts : TiedBy(l, a) => TiedBy(l, a)'
    BY <1>1, <1>2 DEF TiedBy, LinkStays
  <2> QED BY <1>0, <1>1, <2>1 DEF AccessInv, Invited
<1>9. UsersAreKnown'
  <2>1. ASSUME NEW k \in Links, NEW u \in Accounts, links'[k].user = u PROVE Exists(u)
    <3>1. CASE LinkStays(k)
      BY <1>0, <2>1, <3>1 DEF AccessInv, UsersAreKnown, LinkStays
    <3>2. CASE LinkIsMade(k)
      BY <1>0, <2>1, <3>2 DEF AccessInv, UsersAreKnown, LinkIsMade
    <3> QED BY <1>1, <3>1, <3>2
  <2> QED BY <1>0, <1>1, <2>1 DEF AccessInv, UsersAreKnown, Exists
<1> QED BY <1>3, <1>4, <1>5, <1>6, <1>7, <1>8, <1>9 DEF AccessInv

\* So does taking an account from its member: who has checked it sees a later revision.
LEMMA AccountsKeep ==
  ASSUME AccessInv, NEW a \in Accounts, AccountTaken(a)
  PROVE  AccessInv'
<1>0. /\ AccessInv /\ links \in [Links -> LinkRows] /\ logins \in [Logins -> LoginRows]
      /\ identities \in [Accounts -> IdentityRows]
  BY DEF AccessInv, AccessTypeOK, LinkRows, LoginRows, IdentityRows
<1>1. PICK user \in Members :
        /\ user = identities[a].user \/ roles[user] # {}
        /\ identities' = [identities EXCEPT ![a] = [user |-> user, live |-> FALSE,
                                                    revision |-> identities[a].revision + 1]]
  BY DEF AccountTaken
<1> DEFINE row == [user |-> user, live |-> FALSE, revision |-> identities[a].revision + 1]
<1>2. row \in IdentityRows /\ user # Nothing /\ identities[a].revision \in Nat
  BY <1>0, NothingAssumption DEF IdentityRows, Members
<1>3. /\ identities' \in [Accounts -> IdentityRows]
      /\ identities'[a] = row
      /\ \A b \in Accounts : b # a => identities'[b] = identities[b]
  BY <1>0, <1>1, <1>2
<1>4. /\ Exists(a) /\ ~ HeldAccount(a)
      /\ \A k \in Links : /\ links'[k].user = links[k].user /\ links'[k].status = links[k].status
                          /\ links'[k].outdated \subseteq links[k].outdated \cup {a}
      /\ \A l \in Logins : tickets'[l] = tickets[l] \/
           (tickets'[l].revoked /\ tickets'[l].user = tickets[l].user /\ tickets'[l].role = tickets[l].role)
      /\ UNCHANGED <<logins, roles, access>>
      /\ links' \in [Links -> LinkRows]
      /\ tickets' \in [Logins -> TicketRows]
  BY DEF AccountTaken
<1>5. \A b \in Accounts : Exists(b) => Exists(b)'
  BY <1>2, <1>3 DEF Exists
<1>6. AccessTypeOK'
  BY <1>0, <1>3, <1>4 DEF AccessInv, AccessTypeOK, LinkRows, IdentityRows, TicketRows
<1>7. RowsAreCounted'
  <2> SUFFICES ASSUME NEW b \in Accounts
               PROVE  /\ identities'[b].user # Nothing <=> identities'[b].revision > 0
                      /\ identities'[b].live => identities'[b].user # Nothing
    BY DEF RowsAreCounted, Exists
  <2>1. CASE b = a
    BY <1>2, <1>3, <2>1
  <2>2. CASE b # a
    BY <1>0, <1>3, <2>2 DEF AccessInv, RowsAreCounted, Exists
  <2> QED BY <2>1, <2>2
<1>8. LinksAreNamed'
  <2> SUFFICES ASSUME NEW k \in Links
               PROVE  /\ links'[k].status # "NONE" => links'[k].user \in Members
                      /\ \A b \in links'[k].outdated : Exists(b)'
    BY DEF LinksAreNamed
  <2>1. \A b \in links[k].outdated : b \in Accounts /\ Exists(b)
    BY <1>0 DEF AccessInv, LinksAreNamed, LinkRows
  <2> QED BY <1>0, <1>4, <1>5, <2>1 DEF AccessInv, LinksAreNamed
<1>9. LoginsAreLinked'
  BY <1>0, <1>4 DEF AccessInv, LoginsAreLinked, LoginRows
<1>10. ChecksHold'
  <2> SUFFICES ASSUME NEW l \in Logins, logins[l].stage = "CHECKED"
               PROVE  LET b == logins[l].account IN
                      /\ logins[l].seen <= identities'[b].revision
                      /\ logins[l].seen = identities'[b].revision => Fits(logins[l].link, b)'
                      /\ \A j \in Logins : j # l /\ logins[j].stage = "CHECKED" /\ logins[j].account = b =>
                           logins[l].seen = 0 \/ logins[j].seen = 0
    BY <1>4 DEF ChecksHold, CheckHolds
  <2> DEFINE b == logins[l].account
  <2>1. /\ b \in Accounts /\ logins[l].seen \in Nat
        /\ logins[l].seen <= identities[b].revision
        /\ logins[l].seen = identities[b].revision => Fits(logins[l].link, b)
        /\ \A j \in Logins : j # l /\ logins[j].stage = "CHECKED" /\ logins[j].account = b =>
             logins[l].seen = 0 \/ logins[j].seen = 0
    BY <1>0 DEF AccessInv, ChecksHold, CheckHolds, LoginsAreLinked, LoginRows
  <2>2. CASE b = a
    <3>1. logins[l].seen = 0
      BY <1>4, <2>1, <2>2 DEF HeldAccount
    <3> QED BY <1>2, <1>3, <2>1, <2>2, <3>1
  <2>3. CASE b # a
    <3>1. identities'[b] = identities[b]
      BY <1>3, <2>1, <2>3
    <3>2. logins[l].link # Nothing => logins[l].link \in Links
      BY <1>0 DEF LoginRows
    <3>3. Fits(logins[l].link, b) => Fits(logins[l].link, b)'
      BY <1>4, <2>3, <3>1, <3>2 DEF Fits, Exists
    <3> QED BY <2>1, <3>1, <3>3
  <2> QED BY <2>2, <2>3
<1>11. Invited'
  <2> SUFFICES ASSUME NEW b \in Accounts, identities'[b].live
               PROVE  \/ \E l \in Logins : TiedBy(l, b)'
                      \/ identities'[b].user = b /\ identities'[b].revision = 1
    BY DEF Invited
  <2>1. b # a /\ identities'[b] = identities[b]
    BY <1>3
  <2>2. CASE identities[b].user = b /\ identities[b].revision = 1
    BY <2>1, <2>2
  <2>3. ASSUME NEW l \in Logins, TiedBy(l, b) PROVE TiedBy(l, b)'
    <3>1. logins[l].link \in Links
      BY <1>0, <2>3 DEF TiedBy, LoginRows
    <3> QED BY <1>4, <2>1, <2>3, <3>1 DEF TiedBy
  <2> QED BY <1>0, <2>1, <2>2, <2>3 DEF AccessInv, Invited
<1>12. OneTicket'
  BY <1>0, <1>4 DEF AccessInv, OneTicket
<1>13. UsersAreKnown'
  <2>1. user \in Accounts => Exists(user)
    BY <1>0, <1>1 DEF AccessInv, UsersAreKnown
  <2>2. ASSUME NEW b \in Accounts, NEW u \in Accounts, identities'[b].user = u PROVE Exists(u)'
    <3>1. CASE b = a
      BY <1>3, <1>5, <2>1, <2>2, <3>1
    <3>2. CASE b # a
      BY <1>0, <1>3, <1>5, <2>2, <3>2 DEF AccessInv, UsersAreKnown
    <3> QED BY <3>1, <3>2
  <2>3. \A k \in Links, u \in Accounts : links'[k].user = u => Exists(u)'
    BY <1>0, <1>4, <1>5 DEF AccessInv, UsersAreKnown
  <2>4. \A b \in Accounts : ~ Exists(b)' => roles[b] = {} /\ access[b] = "none"
    BY <1>0, <1>5 DEF AccessInv, UsersAreKnown
  <2> QED BY <1>0, <1>4, <2>2, <2>3, <2>4 DEF AccessInv, UsersAreKnown
<1> QED BY <1>6, <1>7, <1>8, <1>9, <1>10, <1>11, <1>12, <1>13 DEF AccessInv

-----------------------------------------------------------------------------
(* Staff: a sign-in. *)

\* A sign-in goes on, short of its session: it follows a link that was made, and what it
\* has just checked fits.
LoginGoesOn(l) ==
  /\ logins[l].stage # "DONE"
  /\ UNCHANGED <<identities, links, tickets, roles, access>>
  /\ \E row \in LoginRows :
       /\ logins' = [logins EXCEPT ![l] = row]
       /\ row.stage # "DONE"
       /\ row.link # Nothing => links[row.link].status # "NONE"
       /\ row.stage = "CHECKED" =>
            /\ row.account \in Accounts
            /\ row.seen = identities[row.account].revision
            /\ Fits(row.link, row.account)
            /\ \A j \in Logins : logins[j].stage = "CHECKED" /\ logins[j].account = row.account =>
                 logins[j].seen = 0

\* What a sign-in does before it writes.
LoginCommand(l) ==
  \/ \E k \in Links : StartFeishuOAuth(l, k, links[k].role)
  \/ \E role \in StaffRoles \cup {"LEARNER"} : StartFeishuOAuth(l, Nothing, role)
  \/ \E a \in Accounts : CheckAccount(l, a)
  \/ LoginFails(l)

\* Each command of a sign-in carries that sign-in one stage on.
LEMMA LoginsMove ==
  ASSUME AccessInv, NEW l \in Logins, LoginCommand(l)
  PROVE  LoginGoesOn(l)
<1>0. /\ AccessInv /\ logins \in [Logins -> LoginRows] /\ links \in [Links -> LinkRows]
      /\ identities \in [Accounts -> IdentityRows]
  BY DEF AccessInv, AccessTypeOK, LoginRows, LinkRows, IdentityRows
<1>1. ASSUME NEW k \in Links \cup {Nothing}, NEW role \in StaffRoles \cup {"LEARNER"},
             StartFeishuOAuth(l, k, role)
      PROVE  LoginGoesOn(l)
  <2> DEFINE row == [NoLogin EXCEPT !.stage = "STARTED", !.link = k, !.role = role]
  <2>1. row \in LoginRows /\ row.stage = "STARTED" /\ row.link = k
    BY DEF NoLogin, LoginRows
  <2>2. k # Nothing => links[k].status # "NONE"
    BY <1>1 DEF StartFeishuOAuth, Usable
  <2>3. /\ logins[l].stage # "DONE" /\ UNCHANGED <<identities, links, tickets, roles, access>>
        /\ logins' = [logins EXCEPT ![l] = row]
    BY <1>1 DEF StartFeishuOAuth
  <2> QED BY <2>1, <2>2, <2>3 DEF LoginGoesOn
<1>2. ASSUME NEW a \in Accounts, CheckAccount(l, a) PROVE LoginGoesOn(l)
  <2> DEFINE row == [logins[l] EXCEPT !.stage = "CHECKED", !.account = a,
                                      !.seen = identities[a].revision]
  <2>1. /\ logins' = [logins EXCEPT ![l] = row]
        /\ logins[l].stage = "STARTED" /\ ~ HeldAccount(a)
        /\ UNCHANGED <<identities, links, tickets, roles, access>>
    BY <1>2 DEF CheckAccount
  <2>2. identities[a].revision \in Nat /\ logins[l] \in LoginRows
    BY <1>0 DEF IdentityRows
  <2>3. /\ row \in LoginRows /\ row.stage = "CHECKED" /\ row.account = a
        /\ row.link = logins[l].link /\ row.seen = identities[a].revision
    BY <2>2 DEF LoginRows
  <2>4. Fits(logins[l].link, a)
    BY <1>2 DEF CheckAccount, LinkFits, Fits
  <2>5. logins[l].link # Nothing => links[logins[l].link].status # "NONE"
    BY <1>0 DEF AccessInv, LoginsAreLinked
  <2>6. \A j \in Logins : logins[j].stage = "CHECKED" /\ logins[j].account = a => logins[j].seen = 0
    BY <1>0, <2>1 DEF HeldAccount, LoginRows
  <2> QED BY <2>1, <2>3, <2>4, <2>5, <2>6 DEF LoginGoesOn
<1>3. ASSUME LoginFails(l) PROVE LoginGoesOn(l)
  <2> DEFINE row == [logins[l] EXCEPT !.stage = "FAILED"]
  <2>1. /\ logins' = [logins EXCEPT ![l] = row] /\ logins[l].stage # "DONE"
        /\ UNCHANGED <<identities, links, tickets, roles, access>>
    BY <1>3 DEF LoginFails
  <2>2. row \in LoginRows /\ row.stage = "FAILED" /\ row.link = logins[l].link
    BY <1>0 DEF LoginRows
  <2>3. logins[l].link # Nothing => links[logins[l].link].status # "NONE"
    BY <1>0 DEF AccessInv, LoginsAreLinked
  <2> QED BY <2>1, <2>2, <2>3 DEF LoginGoesOn
<1>4. \A k \in Links : links[k].role \in StaffRoles \cup {"LEARNER"}
  BY <1>0 DEF LinkRows
<1> QED BY <1>1, <1>2, <1>3, <1>4 DEF LoginCommand

\* A sign-in that goes on keeps the invariant.
LEMMA LoginsKeep ==
  ASSUME AccessInv, NEW l \in Logins, LoginGoesOn(l)
  PROVE  AccessInv'
<1>0. AccessInv /\ logins \in [Logins -> LoginRows]
  BY DEF AccessInv, AccessTypeOK, LoginRows
<1>1. PICK row \in LoginRows :
       /\ logins' = [logins EXCEPT ![l] = row]
       /\ row.stage # "DONE"
       /\ row.link # Nothing => links[row.link].status # "NONE"
       /\ row.stage = "CHECKED" =>
            /\ row.account \in Accounts
            /\ row.seen = identities[row.account].revision
            /\ Fits(row.link, row.account)
            /\ \A j \in Logins : logins[j].stage = "CHECKED" /\ logins[j].account = row.account =>
                 logins[j].seen = 0
  BY DEF LoginGoesOn
<1>2. UNCHANGED <<identities, links, tickets, roles, access>> /\ logins[l].stage # "DONE"
  BY DEF LoginGoesOn
<1>3. /\ logins' \in [Logins -> LoginRows]
      /\ logins'[l] = row
      /\ \A j \in Logins : j # l => logins'[j] = logins[j]
  BY <1>0, <1>1
<1>4. AccessTypeOK'
  BY <1>0, <1>2, <1>3 DEF AccessInv, AccessTypeOK, LoginRows
<1>5. RowsAreCounted' /\ LinksAreNamed' /\ OneTicket'
  BY <1>0, <1>2 DEF AccessInv, RowsAreCounted, LinksAreNamed, OneTicket, Exists
<1>6. LoginsAreLinked'
  <2> SUFFICES ASSUME NEW j \in Logins
               PROVE  /\ logins'[j].link # Nothing => links[logins'[j].link].status # "NONE"
                      /\ logins'[j].stage \in {"CHECKED", "DONE"} => logins'[j].account \in Accounts
    BY <1>2 DEF LoginsAreLinked
  <2> QED BY <1>0, <1>1, <1>3 DEF AccessInv, LoginsAreLinked
<1>7. ChecksHold'
  <2> SUFFICES ASSUME NEW j \in Logins, logins'[j].stage = "CHECKED"
               PROVE  LET b == logins'[j].account IN
                      /\ logins'[j].seen <= identities[b].revision
                      /\ logins'[j].seen = identities[b].revision => Fits(logins'[j].link, b)
                      /\ \A i \in Logins : i # j /\ logins'[i].stage = "CHECKED" /\ logins'[i].account = b =>
                           logins'[j].seen = 0 \/ logins'[i].seen = 0
    BY <1>2 DEF ChecksHold, CheckHolds, Fits, Exists
  <2>1. CASE j = l
    <3>1. row.seen \in Nat
      BY DEF LoginRows
    <3> QED BY <1>1, <1>3, <2>1, <3>1
  <2>2. CASE j # l
    <3>1. logins'[j] = logins[j]
      BY <1>3, <2>2
    <3> QED BY <1>0, <1>1, <1>3, <3>1 DEF AccessInv, ChecksHold, CheckHolds
  <2> QED BY <2>1, <2>2
<1>8. Invited'
  <2>1. \A j \in Logins, a \in Accounts : TiedBy(j, a) => TiedBy(j, a)'
    BY <1>2, <1>3 DEF TiedBy
  <2> QED BY <1>0, <1>2, <2>1 DEF AccessInv, Invited
<1>9. UsersAreKnown'
  BY <1>0, <1>2 DEF AccessInv, UsersAreKnown, Exists
<1> QED BY <1>4, <1>5, <1>6, <1>7, <1>8, <1>9 DEF AccessInv

\* logout_session keeps it.
LEMMA LogOutKeeps ==
  ASSUME AccessInv, NEW l \in Logins, LogOut(l)
  PROVE  AccessInv'
<1>0. AccessInv /\ tickets \in [Logins -> TicketRows]
  BY DEF AccessInv, AccessTypeOK, TicketRows
<1>1. UNCHANGED <<identities, links, logins, roles, access>>
      /\ tickets' = [tickets EXCEPT ![l] = [tickets[l] EXCEPT !.revoked = TRUE]]
  BY DEF LogOut
<1>2. [tickets[l] EXCEPT !.revoked = TRUE] \in TicketRows
  BY <1>0 DEF TicketRows
<1>3. /\ tickets' \in [Logins -> TicketRows] /\ tickets'[l].revoked
      /\ \A j \in Logins : j # l => tickets'[j] = tickets[j]
  BY <1>0, <1>1, <1>2 DEF TicketRows
<1>4. AccessTypeOK'
  BY <1>0, <1>1, <1>3 DEF AccessInv, AccessTypeOK, TicketRows
<1>5. OneTicket'
  BY <1>0, <1>3 DEF AccessInv, OneTicket
<1> QED BY <1>0, <1>1, <1>4, <1>5 DEF AccessInv, RowsAreCounted, LinksAreNamed, LoginsAreLinked,
          ChecksHold, CheckHolds, Invited, UsersAreKnown, Exists, Fits, TiedBy

-----------------------------------------------------------------------------
(* Staff: roles and access. *)

\* The rights of one member change, and sessions of theirs may end.  The user that came
\* with an account is known, and keeps a staff role only with a row of access.
RightsMove(m) ==
  /\ UNCHANGED <<identities, links, logins>>
  /\ roles' \in [Members -> RoleRows] /\ access' \in [Members -> AccessRows]
  /\ \A n \in Members : n # m => roles'[n] = roles[n] /\ access'[n] = access[n]
  /\ m \in Accounts => Exists(m) /\ (access'[m] = "none" => roles'[m] \cap StaffRoles = {})
  /\ tickets' \in [Logins -> TicketRows]
  /\ \A l \in Logins : tickets'[l] = tickets[l] \/
       (tickets'[l].revoked /\ tickets'[l].user = tickets[l].user /\ tickets'[l].role = tickets[l].role)

\* Nothing of the invariant but UsersAreKnown looks at rights.
LEMMA RightsKeep ==
  ASSUME AccessInv, NEW m \in Members, RightsMove(m)
  PROVE  AccessInv'
<1>1. AccessTypeOK'
  BY DEF RightsMove, AccessInv, AccessTypeOK, TicketRows, RoleRows, AccessRows
<1>2. OneTicket'
  BY DEF RightsMove, AccessInv, OneTicket
<1>3. UsersAreKnown'
  <2>1. \A a \in Accounts : a \in Members
    BY DEF Members
  <2>2. \A a \in Accounts : ~ Exists(a) => roles'[a] = {} /\ access'[a] = "none"
    BY <2>1 DEF RightsMove, AccessInv, UsersAreKnown
  <2>3. \A a \in Accounts : access'[a] = "none" => roles'[a] \cap StaffRoles = {}
    BY <2>1 DEF RightsMove, AccessInv, UsersAreKnown
  <2> QED BY <2>2, <2>3 DEF RightsMove, AccessInv, UsersAreKnown, Exists
<1> QED BY <1>1, <1>2, <1>3 DEF RightsMove, AccessInv, RowsAreCounted, LinksAreNamed, LoginsAreLinked,
          ChecksHold, CheckHolds, Invited, Exists, Fits, TiedBy

\* EndStaffSessions only revokes.
LEMMA SessionsEnd ==
  ASSUME AccessTypeOK, NEW m \in Members, EndStaffSessions(m)
  PROVE  /\ tickets' \in [Logins -> TicketRows]
         /\ \A l \in Logins : tickets'[l] = tickets[l] \/
              (tickets'[l].revoked /\ tickets'[l].user = tickets[l].user /\ tickets'[l].role = tickets[l].role)
<1> DEFINE ended(l) == IF tickets[l].user = m /\ tickets[l].role # "LEARNER"
                       THEN [tickets[l] EXCEPT !.revoked = TRUE] ELSE tickets[l]
<1>1. tickets \in [Logins -> TicketRows]
  BY DEF AccessTypeOK, TicketRows
<1>2. ASSUME NEW l \in Logins
      PROVE  /\ ended(l) \in TicketRows
             /\ ended(l) = tickets[l] \/
                (ended(l).revoked /\ ended(l).user = tickets[l].user /\ ended(l).role = tickets[l].role)
  BY <1>1 DEF TicketRows
<1>3. tickets' = [l \in Logins |-> ended(l)]
  BY DEF EndStaffSessions
<1> QED BY <1>2, <1>3

\* grant_reviewer_role, revoke_reviewer_role, demote_administrator and
\* revoke_administrator keep it: they find a role or a row of access, and who came with
\* an account has neither without the other.
LEMMA RolesKeep ==
  ASSUME AccessInv, NEW m \in Members,
         \/ GrantReviewerRole(m) \/ RevokeReviewerRole(m)
         \/ DemoteAdministrator(m) \/ RevokeAdministrator(m)
  PROVE  AccessInv'
<1>0. /\ AccessTypeOK /\ roles \in [Members -> RoleRows] /\ access \in [Members -> AccessRows]
      /\ tickets \in [Logins -> TicketRows]
  BY DEF AccessInv, AccessTypeOK, RoleRows, AccessRows, TicketRows
<1>1. "REVIEWER" \in StaffRoles /\ "CONTENT_EDITOR" \in StaffRoles /\ roles[m] \in RoleRows
  BY <1>0 DEF StaffRoles
<1>2. /\ m \in Accounts /\ ~ Exists(m) => roles[m] = {} /\ access[m] = "none"
      /\ m \in Accounts /\ access[m] = "none" => roles[m] \cap StaffRoles = {}
  BY DEF AccessInv, UsersAreKnown
<1>3. CASE GrantReviewerRole(m)
  <2>1. /\ "CONTENT_EDITOR" \in roles[m]
        /\ roles' = [roles EXCEPT ![m] = roles[m] \cup {"REVIEWER"}]
        /\ UNCHANGED <<identities, links, logins, tickets, access>>
    BY <1>3 DEF GrantReviewerRole
  <2>2. roles[m] \cup {"REVIEWER"} \in RoleRows
    BY <1>1 DEF RoleRows
  <2>3. m \in Accounts => Exists(m) /\ access[m] # "none"
    BY <1>1, <1>2, <2>1
  <2>4. RightsMove(m)
    BY <1>0, <2>1, <2>2, <2>3 DEF RightsMove
  <2> QED BY <2>4, RightsKeep
<1>4. CASE RevokeReviewerRole(m)
  <2>1. /\ StaffRoles \subseteq roles[m]
        /\ roles' = [roles EXCEPT ![m] = roles[m] \ {"REVIEWER"}]
        /\ UNCHANGED <<identities, links, logins, tickets, access>>
    BY <1>4 DEF RevokeReviewerRole
  <2>2. roles[m] \ {"REVIEWER"} \in RoleRows
    BY <1>1 DEF RoleRows
  <2>3. m \in Accounts => Exists(m) /\ access[m] # "none"
    BY <1>1, <1>2, <2>1
  <2>4. RightsMove(m)
    BY <1>0, <2>1, <2>2, <2>3 DEF RightsMove
  <2> QED BY <2>4, RightsKeep
<1>5. CASE DemoteAdministrator(m)
  <2>1. /\ access[m] = "super_admin" /\ EndStaffSessions(m)
        /\ access' = [access EXCEPT ![m] = "admin"]
        /\ roles' = [roles EXCEPT ![m] = (roles[m] \ {"CONTENT_EDITOR"}) \cup {"REVIEWER"}]
        /\ UNCHANGED <<identities, links, logins>>
    BY <1>5 DEF DemoteAdministrator
  <2>2. (roles[m] \ {"CONTENT_EDITOR"}) \cup {"REVIEWER"} \in RoleRows /\ "admin" \in AccessRows
    BY <1>1 DEF RoleRows, AccessRows
  <2>3. m \in Accounts => Exists(m)
    BY <1>2, <2>1
  <2>4. RightsMove(m)
    BY <1>0, <2>1, <2>2, <2>3, SessionsEnd DEF RightsMove
  <2> QED BY <2>4, RightsKeep
<1>6. CASE RevokeAdministrator(m)
  <2>1. /\ access[m] # "none" \/ roles[m] \cap StaffRoles # {}
        /\ EndStaffSessions(m)
        /\ access' = [access EXCEPT ![m] = "revoked"]
        /\ roles' = [roles EXCEPT ![m] = roles[m] \ StaffRoles]
        /\ UNCHANGED <<identities, links, logins>>
    BY <1>6 DEF RevokeAdministrator
  <2>2. roles[m] \ StaffRoles \in RoleRows /\ "revoked" \in AccessRows
    BY <1>1 DEF RoleRows, AccessRows
  <2>3. m \in Accounts => Exists(m)
    BY <1>2, <2>1
  <2>4. RightsMove(m)
    BY <1>0, <2>1, <2>2, <2>3, SessionsEnd DEF RightsMove
  <2> QED BY <2>4, RightsKeep
<1> QED BY <1>3, <1>4, <1>5, <1>6

\* A grant, alone or with a department, keeps it: the account of somebody stays what it
\* is, and a new one comes with its own user.
LEMMA GrantsKeep ==
  ASSUME AccessInv, NEW a \in Accounts, NEW role \in {"admin", "super_admin"}, Granted(a, role)
  PROVE  AccessInv'
<1> DEFINE m == Holder(a)
           row == [user |-> a, live |-> TRUE, revision |-> 1]
<1>0. /\ AccessInv /\ AccessTypeOK /\ roles \in [Members -> RoleRows]
      /\ access \in [Members -> AccessRows] /\ tickets \in [Logins -> TicketRows]
      /\ identities \in [Accounts -> IdentityRows] /\ links \in [Links -> LinkRows]
      /\ logins \in [Logins -> LoginRows]
  BY DEF AccessInv, AccessTypeOK, RoleRows, AccessRows, TicketRows, IdentityRows, LinkRows, LoginRows
<1>1. /\ identities' = IF Exists(a) THEN identities ELSE [identities EXCEPT ![a] = row]
      /\ access' = [access EXCEPT ![m] = role]
      /\ roles' = [roles EXCEPT ![m] = roles[m] \cup {"REVIEWER"}]
      /\ UNCHANGED <<links, logins, tickets>>
  BY DEF Granted
<1>2. m \in Members /\ a \in Members /\ a # Nothing
  BY <1>0, NothingAssumption DEF Holder, Exists, IdentityRows, Members
<1>3. /\ roles' \in [Members -> RoleRows] /\ access' \in [Members -> AccessRows]
      /\ access'[m] = role /\ role # "none"
      /\ \A n \in Members : n # m => roles'[n] = roles[n] /\ access'[n] = access[n]
  <2>1. roles[m] \cup {"REVIEWER"} \in RoleRows /\ role \in AccessRows
    BY <1>0, <1>2 DEF RoleRows, AccessRows, StaffRoles
  <2> QED BY <1>0, <1>1, <1>2, <2>1
<1>4. CASE Exists(a)
  <2>1. m = identities[a].user /\ identities' = identities
    BY <1>1, <1>4 DEF Holder
  <2>2. m \in Accounts => Exists(m)
    BY <1>0, <2>1 DEF AccessInv, UsersAreKnown
  <2>3. RightsMove(m)
    BY <1>0, <1>1, <1>3, <2>1, <2>2 DEF RightsMove
  <2> QED BY <1>2, <2>3, RightsKeep
<1>5. CASE ~ Exists(a)
  <2>1. /\ m = a /\ identities' \in [Accounts -> IdentityRows] /\ identities'[a] = row
        /\ \A b \in Accounts : b # a => identities'[b] = identities[b]
    <3>1. row \in IdentityRows
      BY <1>2 DEF IdentityRows
    <3> QED BY <1>0, <1>1, <1>5, <3>1 DEF Holder
  <2>2. \A b \in Accounts : Exists(b)' <=> Exists(b) \/ b = a
    BY <1>2, <2>1 DEF Exists
  <2>3. ~ identities[a].live /\ identities[a].revision = 0
    BY <1>0, <1>5 DEF AccessInv, RowsAreCounted, IdentityRows
  <2>4. AccessTypeOK'
    BY <1>0, <1>1, <1>3, <2>1 DEF AccessTypeOK, IdentityRows, RoleRows, AccessRows
  <2>5. RowsAreCounted'
    <3> SUFFICES ASSUME NEW b \in Accounts
                 PROVE  /\ Exists(b)' <=> identities'[b].revision > 0
                        /\ identities'[b].live => Exists(b)'
      BY DEF RowsAreCounted
    <3>1. CASE b = a
      BY <2>1, <2>2, <3>1
    <3>2. CASE b # a
      BY <1>0, <2>1, <2>2, <3>2 DEF AccessInv, RowsAreCounted
    <3> QED BY <3>1, <3>2
  <2>6. LinksAreNamed' /\ LoginsAreLinked' /\ OneTicket'
    <3>1. \A k \in Links : \A b \in links[k].outdated : b \in Accounts
      BY <1>0 DEF LinkRows
    <3> QED BY <1>0, <1>1, <2>2, <3>1 DEF AccessInv, LinksAreNamed, LoginsAreLinked, OneTicket
  <2>7. ChecksHold'
    <3> SUFFICES ASSUME NEW l \in Logins, logins[l].stage = "CHECKED"
                 PROVE  LET b == logins[l].account IN
                        /\ logins[l].seen <= identities'[b].revision
                        /\ logins[l].seen = identities'[b].revision => Fits(logins[l].link, b)'
                        /\ \A j \in Logins : j # l /\ logins[j].stage = "CHECKED" /\ logins[j].account = b =>
                             logins[l].seen = 0 \/ logins[j].seen = 0
      BY <1>1 DEF ChecksHold, CheckHolds
    <3> DEFINE b == logins[l].account
    <3>1. /\ b \in Accounts /\ logins[l].seen \in Nat
          /\ logins[l].seen <= identities[b].revision
          /\ logins[l].seen = identities[b].revision => Fits(logins[l].link, b)
          /\ \A j \in Logins : j # l /\ logins[j].stage = "CHECKED" /\ logins[j].account = b =>
               logins[l].seen = 0 \/ logins[j].seen = 0
      BY <1>0 DEF AccessInv, ChecksHold, CheckHolds, LoginsAreLinked, LoginRows
    <3>2. CASE b = a
      BY <2>1, <2>3, <3>1, <3>2
    <3>3. CASE b # a
      <4>1. identities'[b] = identities[b]
        BY <2>1, <3>1, <3>3
      <4>2. Fits(logins[l].link, b) => Fits(logins[l].link, b)'
        BY <1>1, <4>1 DEF Fits, Exists
      <4> QED BY <3>1, <4>1, <4>2
    <3> QED BY <3>2, <3>3
  <2>8. Invited'
    <3> SUFFICES ASSUME NEW b \in Accounts, identities'[b].live
                 PROVE  \/ \E l \in Logins : TiedBy(l, b)'
                        \/ identities'[b].user = b /\ identities'[b].revision = 1
      BY DEF Invited
    <3>1. CASE b = a
      BY <2>1, <3>1
    <3>2. CASE b # a
      <4>1. identities'[b] = identities[b]
        BY <2>1, <3>2
      <4>2. \A l \in Logins : TiedBy(l, b) => TiedBy(l, b)'
        BY <1>1, <4>1 DEF TiedBy
      <4> QED BY <1>0, <4>1, <4>2 DEF AccessInv, Invited
    <3> QED BY <3>1, <3>2
  <2>9. UsersAreKnown'
    <3>1. \A b \in Accounts : b \in Members
      BY DEF Members
    <3>2. \A b \in Accounts : ~ Exists(b)' => roles'[b] = {} /\ access'[b] = "none"
      BY <1>0, <1>3, <2>1, <2>2, <3>1 DEF AccessInv, UsersAreKnown
    <3>3. \A b \in Accounts, u \in Accounts : identities'[b].user = u => Exists(u)'
      BY <1>0, <2>1, <2>2 DEF AccessInv, UsersAreKnown
    <3>4. \A k \in Links, u \in Accounts : links'[k].user = u => Exists(u)'
      BY <1>0, <1>1, <2>2 DEF AccessInv, UsersAreKnown
    <3>5. \A b \in Accounts : access'[b] = "none" => roles'[b] \cap StaffRoles = {}
      BY <1>0, <1>3, <2>1, <3>1 DEF AccessInv, UsersAreKnown
    <3> QED BY <3>2, <3>3, <3>4, <3>5 DEF UsersAreKnown
  <2> QED BY <2>4, <2>5, <2>6, <2>7, <2>8, <2>9 DEF AccessInv
<1> QED BY <1>4, <1>5

-----------------------------------------------------------------------------
(* Staff: a sign-in that succeeds. *)

\* Who a sign-in lets in: the member the link is for, else the account's, else the
\* learner of that account.
Entrant(l) ==
  LET a == logins[l].account
      k == logins[l].link
  IN IF k # Nothing THEN links[k].user ELSE Holder(a)

\* What a sign-in checked is what it writes on: the account is the entrant's already and
\* in use, or is tied now, by a link that is younger than its revocation, or comes with
\* its user.
LEMMA EntrantIsInvited ==
  ASSUME AccessInv, NEW l \in Logins, logins[l].stage = "CHECKED",
         identities[logins[l].account].revision = logins[l].seen
  PROVE  /\ logins[l].account \in Accounts
         /\ logins[l].link \in Links \cup {Nothing}
         /\ Entrant(l) \in Members
         /\ Entrant(l) \in Accounts => Exists(Entrant(l)) \/ Entrant(l) = logins[l].account
         /\ \/ /\ identities[logins[l].account].live
               /\ identities[logins[l].account].user = Entrant(l)
            \/ /\ ~ identities[logins[l].account].live
               /\ \/ /\ logins[l].link = Nothing /\ ~ Exists(logins[l].account)
                     /\ Entrant(l) = logins[l].account
                  \/ /\ logins[l].link # Nothing
                     /\ logins[l].account \notin links[logins[l].link].outdated
<1> DEFINE a == logins[l].account
           k == logins[l].link
<1>0. /\ AccessInv /\ logins \in [Logins -> LoginRows] /\ links \in [Links -> LinkRows]
      /\ identities \in [Accounts -> IdentityRows]
  BY DEF AccessInv, AccessTypeOK, LoginRows, LinkRows, IdentityRows
<1>1. /\ a \in Accounts /\ k \in Links \cup {Nothing} /\ Fits(k, a)
      /\ identities[a].user \in Members \cup {Nothing}
      /\ identities[a].live => Exists(a)
  BY <1>0 DEF AccessInv, ChecksHold, CheckHolds, LoginsAreLinked, LoginRows, IdentityRows, RowsAreCounted
<1>2. a \in Members /\ a \notin Staff /\ Nothing \notin Members
  BY <1>1, AccountAssumption, NothingAssumption DEF Members
<1>3. CASE k = Nothing
  <2>1. Entrant(l) = IF Exists(a) THEN identities[a].user ELSE a
    BY <1>3 DEF Entrant, Holder
  <2>2. identities[a].live \/ ~ Exists(a)
    BY <1>1, <1>3 DEF Fits
  <2>3. identities[a].user \in Accounts => Exists(identities[a].user)
    BY <1>0, <1>1 DEF AccessInv, UsersAreKnown
  <2> QED BY <1>1, <1>2, <1>3, <2>1, <2>2, <2>3 DEF Exists
<1>4. CASE k # Nothing
  <2>1. Entrant(l) = links[k].user
    BY <1>4 DEF Entrant
  <2>2. k \in Links /\ links[k].user \in Members /\ (links[k].user \in Accounts => Exists(links[k].user))
    BY <1>0, <1>1, <1>4 DEF AccessInv, LoginsAreLinked, LinksAreNamed, UsersAreKnown
  <2>3. /\ identities[a].user \in {Nothing, links[k].user}
        /\ Exists(a) /\ ~ identities[a].live => a \notin links[k].outdated
    BY <1>1, <1>4 DEF Fits
  <2>4. ~ Exists(a) => a \notin links[k].outdated
    BY <1>0, <2>2 DEF AccessInv, LinksAreNamed
  <2>5. Entrant(l) \in Members
    BY <2>1, <2>2
  <2>6. identities[a].live => identities[a].user = Entrant(l)
    BY <1>1, <2>1, <2>3 DEF Exists
  <2> QED BY <1>1, <1>4, <2>1, <2>2, <2>3, <2>4, <2>5, <2>6
<1> QED BY <1>3, <1>4

\* A sign-in that succeeds keeps the invariant.
LEMMA SessionKeeps ==
  ASSUME AccessInv, NEW l \in Logins, OpenSession(l)
  PROVE  AccessInv'
<1> DEFINE a == logins[l].account
           k == logins[l].link
           role == logins[l].role
           m == Entrant(l)
           revision == identities[a].revision + (IF identities[a].live THEN 0 ELSE 1)
           row == [user |-> m, live |-> TRUE, revision |-> revision]
           ticket == [user |-> m, account |-> a, revision |-> revision, role |-> role,
                      revoked |-> FALSE]
<1>0. /\ AccessInv /\ logins \in [Logins -> LoginRows] /\ links \in [Links -> LinkRows]
      /\ identities \in [Accounts -> IdentityRows] /\ tickets \in [Logins -> TicketRows]
      /\ roles \in [Members -> RoleRows]
  BY DEF AccessInv, AccessTypeOK, LoginRows, LinkRows, IdentityRows, TicketRows, RoleRows
<1>1. /\ logins[l].stage = "CHECKED"
      /\ identities[a].revision = logins[l].seen
      /\ identities' = [identities EXCEPT ![a] = row]
      /\ links' = IF k = Nothing THEN links ELSE [links EXCEPT ![k].status = "CONSUMED"]
      /\ roles' = [roles EXCEPT ![m] = roles[m] \cup {role}]
      /\ role \in EffectiveRoles(m) \cup {"LEARNER"} /\ UNCHANGED access
      /\ logins' = [logins EXCEPT ![l].stage = "DONE"]
  BY DEF OpenSession, Entrant
<1>2. PICK here \in ReplacedHere(m, role) :
        tickets' = [s \in Logins |->
          IF s = l THEN ticket
          ELSE IF s \in Replaced(m, role) \cup here
               THEN [tickets[s] EXCEPT !.revoked = TRUE] ELSE tickets[s]]
  BY DEF OpenSession, Entrant
<1>3. /\ a \in Accounts /\ k \in Links \cup {Nothing} /\ m \in Members
      /\ \/ identities[a].live /\ identities[a].user = m
         \/ /\ ~ identities[a].live
            /\ (k = Nothing /\ ~ Exists(a) /\ m = a) \/ (k # Nothing /\ a \notin links[k].outdated)
      /\ m \in Accounts => Exists(m) \/ m = a
  BY <1>1, EntrantIsInvited
<1>4. /\ identities[a] \in IdentityRows /\ identities[a].revision \in Nat
      /\ revision \in Nat /\ role \in StaffRoles \cup {"LEARNER"} /\ m # Nothing
      /\ revision = IF identities[a].live THEN identities[a].revision ELSE identities[a].revision + 1
  BY <1>0, <1>3, NothingAssumption DEF IdentityRows, LoginRows, Members
<1>5. /\ identities' \in [Accounts -> IdentityRows] /\ identities'[a] = row
      /\ \A b \in Accounts : b # a => identities'[b] = identities[b]
  <2>1. row \in IdentityRows
    BY <1>3, <1>4 DEF IdentityRows
  <2> QED BY <1>0, <1>1, <1>3, <2>1
<1>6. /\ links' \in [Links -> LinkRows]
      /\ \A j \in Links : LinkStays(j)
      /\ k # Nothing => links'[k].status = "CONSUMED"
  <2>1. CASE k = Nothing
    BY <1>0, <1>1, <2>1 DEF LinkStays
  <2>2. CASE k # Nothing
    <3>1. links' = [links EXCEPT ![k] = [links[k] EXCEPT !.status = "CONSUMED"]] /\ k \in Links
      BY <1>1, <1>3, <2>2
    <3>2. [links[k] EXCEPT !.status = "CONSUMED"] \in LinkRows
      BY <1>0, <3>1 DEF LinkRows
    <3>3. links[k].status # "NONE"
      BY <1>0, <2>2 DEF AccessInv, LoginsAreLinked
    <3>4. links' \in [Links -> LinkRows]
      BY <1>0, <3>1, <3>2
    <3>5. links'[k].user = links[k].user /\ links'[k].outdated = links[k].outdated
          /\ links'[k].status = "CONSUMED"
      BY <1>0, <3>1 DEF LinkRows
    <3>6. \A j \in Links : j # k => links'[j] = links[j]
      BY <1>0, <3>1
    <3> QED BY <3>3, <3>4, <3>5, <3>6 DEF LinkStays
  <2> QED BY <2>1, <2>2
<1>7. /\ logins' \in [Logins -> LoginRows]
      /\ logins'[l].stage = "DONE" /\ logins'[l].account = a /\ logins'[l].link = k
      /\ \A j \in Logins : j # l => logins'[j] = logins[j]
  <2>1. logins' = [logins EXCEPT ![l] = [logins[l] EXCEPT !.stage = "DONE"]]
    BY <1>1
  <2>2. [logins[l] EXCEPT !.stage = "DONE"] \in LoginRows
    BY <1>0 DEF LoginRows
  <2> QED BY <1>0, <2>1, <2>2 DEF LoginRows
<1>8. /\ tickets' \in [Logins -> TicketRows] /\ tickets'[l] = ticket
      /\ \A s \in Logins : s # l =>
           /\ tickets'[s].user = tickets[s].user /\ tickets'[s].role = tickets[s].role
           /\ tickets[s].revoked => tickets'[s].revoked
           /\ s \in Replaced(m, role) => tickets'[s].revoked
  <2>1. ticket \in TicketRows
    BY <1>3, <1>4 DEF TicketRows
  <2>2. ASSUME NEW s \in Logins
        PROVE  /\ [tickets[s] EXCEPT !.revoked = TRUE] \in TicketRows
               /\ [tickets[s] EXCEPT !.revoked = TRUE].revoked
               /\ [tickets[s] EXCEPT !.revoked = TRUE].user = tickets[s].user
               /\ [tickets[s] EXCEPT !.revoked = TRUE].role = tickets[s].role
    BY <1>0 DEF TicketRows
  <2>3. \A s \in Logins : (IF s = l THEN ticket
          ELSE IF s \in Replaced(m, role) \cup here
               THEN [tickets[s] EXCEPT !.revoked = TRUE] ELSE tickets[s]) \in TicketRows
    BY <1>0, <2>1, <2>2
  <2>4. tickets' \in [Logins -> TicketRows]
    BY <1>2, <2>3
  <2> QED BY <1>2, <2>2, <2>4
<1>9. AccessTypeOK'
  <2>1. roles[m] \cup {role} \in RoleRows
    BY <1>0, <1>3, <1>4 DEF RoleRows
  <2>2. roles' \in [Members -> RoleRows]
    BY <1>0, <1>1, <1>3, <2>1
  <2>3. access' \in [Members -> {"none", "admin", "super_admin", "revoked"}]
    BY <1>0, <1>1 DEF AccessInv, AccessTypeOK
  <2> QED BY <1>5, <1>6, <1>7, <1>8, <2>2, <2>3
          DEF AccessTypeOK, LinkRows, LoginRows, TicketRows, IdentityRows, RoleRows
<1>10. \A b \in Accounts : Exists(b) \/ b = a => Exists(b)'
  BY <1>3, <1>4, <1>5 DEF Exists
<1>11. RowsAreCounted'
  <2> SUFFICES ASSUME NEW b \in Accounts
               PROVE  /\ identities'[b].user # Nothing <=> identities'[b].revision > 0
                      /\ identities'[b].live => identities'[b].user # Nothing
    BY DEF RowsAreCounted, Exists
  <2>1. /\ identities[b].user # Nothing <=> identities[b].revision > 0
        /\ identities[b].live => identities[b].user # Nothing
    BY <1>0 DEF AccessInv, RowsAreCounted, Exists
  <2>2. CASE b = a
    BY <1>4, <1>5, <2>1, <2>2
  <2>3. CASE b # a
    BY <1>5, <2>1, <2>3
  <2> QED BY <2>2, <2>3
<1>12. LinksAreNamed'
  <2>1. \A j \in Links : \A b \in links[j].outdated : b \in Accounts /\ Exists(b)
    BY <1>0 DEF AccessInv, LinksAreNamed, LinkRows
  <2> QED BY <1>0, <1>6, <1>10, <2>1 DEF AccessInv, LinksAreNamed, LinkStays
<1>13. LoginsAreLinked'
  <2> SUFFICES ASSUME NEW j \in Logins
               PROVE  /\ logins'[j].link # Nothing => links'[logins'[j].link].status # "NONE"
                      /\ logins'[j].stage \in {"CHECKED", "DONE"} => logins'[j].account \in Accounts
    BY DEF LoginsAreLinked
  <2>1. logins'[j].link = logins[j].link
    BY <1>7
  <2>2. logins[j].link # Nothing => /\ logins[j].link \in Links
                                    /\ links[logins[j].link].status # "NONE"
    BY <1>0 DEF AccessInv, LoginsAreLinked, LoginRows
  <2>3. logins'[j].link # Nothing => links'[logins'[j].link].status # "NONE"
    BY <1>6, <2>1, <2>2 DEF LinkStays
  <2> QED BY <1>0, <1>3, <1>7, <2>3 DEF AccessInv, LoginsAreLinked
<1>14. ChecksHold'
  <2> SUFFICES ASSUME NEW j \in Logins, logins'[j].stage = "CHECKED"
               PROVE  CheckHolds(j)'
    BY DEF ChecksHold
  <2> DEFINE b == logins[j].account
  <2>1. j # l /\ logins'[j] = logins[j]
    BY <1>7
  <2>2. /\ b \in Accounts /\ logins[j].seen \in Nat
        /\ logins[j].seen <= identities[b].revision
        /\ logins[j].seen = identities[b].revision => Fits(logins[j].link, b)
        /\ \A i \in Logins : i # j /\ logins[i].stage = "CHECKED" /\ logins[i].account = b =>
             logins[j].seen = 0 \/ logins[i].seen = 0
    BY <1>0, <2>1 DEF AccessInv, ChecksHold, CheckHolds, LoginsAreLinked, LoginRows
  <2>3. \A i \in Logins : i # j /\ logins'[i].stage = "CHECKED" /\ logins'[i].account = b =>
             logins[j].seen = 0 \/ logins'[i].seen = 0
    BY <1>7, <2>2
  <2>4. logins[j].link # Nothing => logins[j].link \in Links
    BY <1>0 DEF LoginRows
  <2>5. CASE b # a
    <3>1. identities'[b] = identities[b]
      BY <1>5, <2>2, <2>5
    <3>2. Fits(logins[j].link, b) => Fits(logins[j].link, b)'
      BY <1>6, <2>1, <2>4, <3>1 DEF Fits, Exists, LinkStays
    <3>3. /\ logins'[j].account = b /\ logins'[j].seen = logins[j].seen
          /\ logins'[j].seen = identities'[b].revision => Fits(logins[j].link, b)'
      BY <2>1, <2>2, <3>1, <3>2
    <3> QED BY <2>1, <2>2, <2>3, <3>1, <3>3 DEF CheckHolds
  <2>6. CASE b = a /\ identities[a].live
    <3>1. /\ identities'[b].revision = identities[b].revision /\ identities'[b].live
          /\ identities'[b].user = identities[b].user /\ identities[b].live
      BY <1>3, <1>4, <1>5, <2>6
    <3>2. Fits(logins[j].link, b) => Fits(logins[j].link, b)'
      BY <1>6, <2>1, <2>4, <3>1 DEF Fits, Exists, LinkStays
    <3>3. /\ logins'[j].account = b /\ logins'[j].seen = logins[j].seen
          /\ logins'[j].seen = identities'[b].revision => Fits(logins[j].link, b)'
      BY <2>1, <2>2, <3>1, <3>2
    <3> QED BY <2>1, <2>2, <2>3, <3>1, <3>3 DEF CheckHolds
  <2>7. CASE b = a /\ ~ identities[a].live
    <3>1. identities'[b].revision = identities[b].revision + 1
      BY <1>4, <1>5, <2>7
    <3>2. logins[j].seen < identities'[b].revision
      BY <1>4, <2>2, <2>7, <3>1
    <3> QED BY <1>4, <2>1, <2>2, <2>3, <2>7, <3>1, <3>2 DEF CheckHolds
  <2> QED BY <2>5, <2>6, <2>7
<1>15. Invited'
  <2> SUFFICES ASSUME NEW b \in Accounts, identities'[b].live
               PROVE  \/ \E j \in Logins : TiedBy(j, b)'
                      \/ identities'[b].user = b /\ identities'[b].revision = 1
    BY DEF Invited
  <2>1. CASE /\ identities[b].live /\ identities[b].user = identities'[b].user
             /\ identities[b].revision = identities'[b].revision
    <3>1. ASSUME NEW j \in Logins, TiedBy(j, b) PROVE TiedBy(j, b)'
      <4>1. logins[j].link \in Links /\ logins'[j] = logins[j]
        BY <1>0, <1>1, <1>7, <3>1 DEF TiedBy, LoginRows
      <4> QED BY <1>6, <2>1, <3>1, <4>1 DEF TiedBy, LinkStays
    <3> QED BY <1>0, <2>1, <3>1 DEF AccessInv, Invited
  <2>2. CASE ~ /\ identities[b].live /\ identities[b].user = identities'[b].user
               /\ identities[b].revision = identities'[b].revision
    <3>1. b = a /\ ~ identities[a].live
      BY <1>3, <1>4, <1>5, <2>2
    <3>2. CASE k = Nothing
      <4>1. identities[a].revision = 0
        BY <1>0, <1>3, <1>4, <3>1, <3>2 DEF AccessInv, RowsAreCounted
      <4> QED BY <1>3, <1>4, <1>5, <3>1, <3>2, <4>1
    <3>3. CASE k # Nothing
      <4>1. k \in Links /\ a \notin links[k].outdated
        BY <1>3, <3>1, <3>3
      <4>2. links'[k].user = m /\ links'[k].outdated = links[k].outdated /\ links'[k].status = "CONSUMED"
        BY <1>6, <3>3, <4>1 DEF LinkStays, Entrant
      <4>3. TiedBy(l, b)'
        BY <1>5, <1>7, <3>1, <3>3, <4>1, <4>2 DEF TiedBy
      <4> QED BY <4>3
    <3> QED BY <3>2, <3>3
  <2> QED BY <2>1, <2>2
<1>16. OneTicket'
  <2> SUFFICES ASSUME NEW n \in Members, NEW i \in Logins, NEW j \in Logins,
                      tickets'[i].user = n, tickets'[i].role # "LEARNER", ~ tickets'[i].revoked,
                      tickets'[j].user = n, tickets'[j].role # "LEARNER", ~ tickets'[j].revoked,
                      i # j
               PROVE  FALSE
    BY DEF OneTicket
  <2>1. CASE i # l /\ j # l
    BY <1>0, <1>8, <2>1 DEF AccessInv, OneTicket
  <2>2. CASE i = l
    BY <1>8, <2>2 DEF Replaced
  <2>3. CASE j = l
    BY <1>8, <2>3 DEF Replaced
  <2> QED BY <2>1, <2>2, <2>3
<1>17. UsersAreKnown'
  <2>1. \A b \in Accounts : b \in Members
    BY DEF Members
  <2>2. \A n \in Members : n # m => roles'[n] = roles[n]
    BY <1>0, <1>1
  <2>3. roles'[m] = roles[m] \cup {role}
    BY <1>0, <1>1, <1>3
  <2>4. \A u \in Accounts : m = u => Exists(u)'
    BY <1>3, <1>10 DEF Exists
  <2>5. \A b \in Accounts : ~ Exists(b)' => roles'[b] = {} /\ access'[b] = "none"
    BY <1>0, <1>1, <1>10, <2>1, <2>2, <2>4 DEF AccessInv, UsersAreKnown
  <2>6. ASSUME NEW b \in Accounts, NEW u \in Accounts, identities'[b].user = u PROVE Exists(u)'
    <3>1. CASE b = a
      BY <1>5, <2>4, <2>6, <3>1
    <3>2. CASE b # a
      BY <1>0, <1>5, <1>10, <2>6, <3>2 DEF AccessInv, UsersAreKnown
    <3> QED BY <3>1, <3>2
  <2>7. \A j \in Links, u \in Accounts : links'[j].user = u => Exists(u)'
    BY <1>0, <1>6, <1>10 DEF AccessInv, UsersAreKnown, LinkStays
  <2>8. ASSUME NEW b \in Accounts, access'[b] = "none" PROVE roles'[b] \cap StaffRoles = {}
    <3>1. access[b] = "none" /\ roles[b] \cap StaffRoles = {}
      BY <1>0, <1>1, <2>8 DEF AccessInv, UsersAreKnown
    <3>2. CASE b = m
      <4>1. EffectiveRoles(m) = roles[m]
        BY <3>1, <3>2 DEF EffectiveRoles
      <4>2. role \notin StaffRoles
        BY <1>1, <3>1, <3>2, <4>1 DEF StaffRoles
      <4> QED BY <2>3, <3>1, <3>2, <4>2
    <3>3. CASE b # m
      BY <2>1, <2>2, <3>1, <3>3
    <3> QED BY <3>2, <3>3
  <2> QED BY <2>5, <2>6, <2>7, <2>8 DEF UsersAreKnown
<1> QED BY <1>9, <1>11, <1>12, <1>13, <1>14, <1>15, <1>16, <1>17 DEF AccessInv

-----------------------------------------------------------------------------
(* Staff: the theorems. *)

\* The tables are empty but for the staff's roles.
LEMMA AccessStarts == AccessInit => AccessInv
<1> SUFFICES ASSUME AccessInit PROVE AccessInv
  OBVIOUS
<1>1. NoIdentity \in IdentityRows /\ NoLink \in LinkRows /\ NoLogin \in LoginRows /\ NoTicket \in TicketRows
  BY DEF NoIdentity, IdentityRows, NoLink, LinkRows, NoLogin, LoginRows, NoTicket, TicketRows, StaffRoles
<1>2. \A m \in Members : (IF m \in Staff THEN {HomeRole[m]} ELSE {}) \in SUBSET (StaffRoles \cup {"LEARNER"})
  BY StaffAssumption DEF StaffRoles
<1>3. AccessTypeOK
  BY <1>1, <1>2 DEF AccessInit, AccessTypeOK, IdentityRows, LinkRows, LoginRows, TicketRows
<1>4. UsersAreKnown
  BY AccountAssumption, NothingAssumption DEF AccessInit, UsersAreKnown, Exists, NoIdentity, NoLink, Members
<1> QED BY <1>3, <1>4 DEF AccessInit, AccessInv, RowsAreCounted, LinksAreNamed, LoginsAreLinked, ChecksHold, CheckHolds,
          Invited, OneTicket, Exists, NoIdentity, NoLink, NoLogin, NoTicket

\* Every step keeps the invariant.
LEMMA AccessStep == AccessInv /\ [AccessNext]_accessVars => AccessInv'
<1> SUFFICES ASSUME AccessInv, [AccessNext]_accessVars PROVE AccessInv'
  OBVIOUS
<1>1. CASE UNCHANGED accessVars
  BY <1>1 DEF accessVars, AccessInv, AccessTypeOK, RowsAreCounted, LinksAreNamed, LoginsAreLinked,
       ChecksHold, CheckHolds, Invited, UsersAreKnown, OneTicket, Exists, Fits, TiedBy
<1>2. CASE AccessNext
  <2>1. \/ LinkCommand
        \/ \E m \in Members :
             \/ GrantReviewerRole(m) \/ RevokeReviewerRole(m)
             \/ DemoteAdministrator(m) \/ RevokeAdministrator(m)
        \/ \E a \in Accounts : RevokeExternalIdentity(a) \/ \E m \in Members : TransferRevokedExternalIdentity(a, m)
        \/ \E a \in Accounts, role \in {"admin", "super_admin"} : Granted(a, role)
        \/ \E l \in Logins : LoginCommand(l) \/ OpenSession(l) \/ LogOut(l)
    BY <1>2 DEF AccessNext, LinkCommand, LoginCommand, GrantAdministrator, ApplyBulkAccess
  <2>2. \A a \in Accounts :
          RevokeExternalIdentity(a) \/ (\E m \in Members : TransferRevokedExternalIdentity(a, m)) => AccessInv'
    BY AccountsMove, AccountsKeep DEF AccessInv
  <2>3. \A l \in Logins : LoginCommand(l) => AccessInv'
    BY LoginsMove, LoginsKeep
  <2> QED BY <2>1, <2>2, <2>3, LinksKeep, RolesKeep, GrantsKeep, SessionKeeps, LogOutKeeps
<1> QED BY <1>1, <1>2

\* The invariant of the staff's side, in every reachable state.
THEOREM AccessInvariant == AccessSpec => []AccessInv
<1> QED BY AccessStarts, AccessStep, PTL DEF AccessSpec

\* complete_feishu_oauth, grant_administrator and apply: an account in use whose user is of
\* the staff was tied to this user by a sign-in with a link made after the account was last
\* revoked, or came with the user, was never revoked, and a grant stands.
THEOREM OnlyInvitedAccounts == AccessSpec => []AccountsAreInvited
<1>1. AccessInv => AccountsAreInvited
  <2> SUFFICES ASSUME AccessInv, NEW a \in Accounts, identities[a].live, IsStaff(identities[a].user),
                      ~ TiedByLink(a)
               PROVE  StandsByGrant(a)
    BY DEF AccessInv, AccountsAreInvited
  <2>1. identities[a].user = a /\ identities[a].revision = 1
    BY DEF AccessInv, Invited, TiedBy, TiedByLink
  <2>2. EffectiveRoles(a) \cap StaffRoles # {}
    BY <2>1, AccountAssumption DEF IsStaff
  <2>3. access[a] \in AccessRows /\ (access[a] = "none" => roles[a] \cap StaffRoles = {})
    BY DEF AccessInv, AccessTypeOK, AccessRows, UsersAreKnown, Members
  <2>4. access[a] # "none" /\ access[a] # "revoked"
    BY <2>2, <2>3 DEF EffectiveRoles
  <2> QED BY <2>1, <2>3, <2>4 DEF StandsByGrant, AccessRows
<1> QED BY <1>1, AccessInvariant, PTL

\* complete_feishu_oauth and get_actor: a member of the staff is in at most once.
THEOREM StaffAreInOnce == AccessSpec => []OneStaffSession
<1>1. AccessInv => OneStaffSession
  <2> SUFFICES ASSUME AccessInv, NEW m \in Members
               PROVE  Cardinality({l \in Logins : tickets[l].user = m /\ tickets[l].role # "LEARNER"
                                                  /\ LetsIn(l)}) <= 1
    BY DEF OneStaffSession
  <2> DEFINE In == {l \in Logins : tickets[l].user = m /\ tickets[l].role # "LEARNER" /\ LetsIn(l)}
  <2>1. \A i, j \in In : i = j
    BY DEF AccessInv, OneTicket, LetsIn
  <2>2. CASE In = {}
    BY <2>2, FS_EmptySet
  <2>3. CASE In # {}
    <3>1. PICK l \in In : TRUE
      BY <2>3
    <3>2. In = {l}
      BY <2>1, <3>1
    <3>3. Cardinality(In) = 1
      BY <3>2, FS_Singleton, Zenon
    <3> QED BY <3>3
  <2> QED BY <2>2, <2>3
<1> QED BY <1>1, AccessInvariant, PTL

-----------------------------------------------------------------------------
(* Learners: the inductive invariant. *)

\* The rows of the tables.
InviteRows == [status : {"NONE", "ACTIVE", "CONSUMED", "REVOKED", "EXPIRED"},
               target : Keys \cup {NoOne}, goal : Keys \cup {NoOne},
               reviewer : Reviewers, late : BOOLEAN]
ContextRows == [status : {"NONE", "PENDING", "CONFIRMED", "REVOKED"},
                enrollment : Keys \cup {NoOne}, late : BOOLEAN]

\* Nothing comes before its cause: no exchange without a link, no row of a join without
\* its exchange; and while an exchange is under way its link waits.
InOrder(i) ==
  /\ invites[i].status = "NONE" => contexts[i].status = "NONE" /\ ~ Locked(i)
  /\ contexts[i].status = "NONE" <=> contexts[i].enrollment = NoOne
  /\ contexts[i].status = "NONE" => enrollments[i] = "NONE" /\ users[i] = "NONE"
  /\ Locked(i) => invites[i].status = "ACTIVE" /\ contexts[i].status = "NONE"

\* A link is consumed with its context, and takes it back or outlives it.
ContextFollows(i) ==
  /\ contexts[i].status = "CONFIRMED" <=> invites[i].status = "CONSUMED"
  /\ invites[i].status = "REVOKED" => contexts[i].status # "PENDING"
  /\ invites[i].status = "EXPIRED" => invites[i].late
  /\ invites[i].late /\ contexts[i].status = "PENDING" => contexts[i].late

\* The rows that a join makes wait while its context does, and are in use after it was
\* confirmed.
OwnRows(i) ==
  /\ enrollments[i] = "PENDING_IDENTITY" <=>
       contexts[i].status = "PENDING" /\ contexts[i].enrollment = i
  /\ enrollments[i] \in Entered =>
       contexts[i].status = "CONFIRMED" /\ contexts[i].enrollment = i /\ users[Owner(i)] = "ACTIVE"
  /\ users[i] = "ACTIVE" => contexts[i].status = "CONFIRMED"

\* A link that leads to the Enrollment of another leads to one that was joined.
Joined(e) == e \in Invites => contexts[e].status = "CONFIRMED"
LeadsBack(i) ==
  /\ contexts[i].status # "NONE" /\ contexts[i].enrollment # i => Joined(contexts[i].enrollment)
  /\ Locked(i) /\ exchanging[i] # i => Joined(exchanging[i])

\* The user that a link was used for exists for good.
TargetStays(i) ==
  (contexts[i].status # "NONE" \/ Locked(i)) /\ invites[i].target # NoOne =>
    users[invites[i].target] \in {"ACTIVE", "DISABLED"}

LinkInv(i) == InOrder(i) /\ ContextFollows(i) /\ OwnRows(i) /\ LeadsBack(i) /\ TargetStays(i)

\* The learner with an account never goes back to having none, and joins by no link.
KnownStays == users[Known] \in {"ACTIVE", "DISABLED"} /\ enrollments[Known] # "PENDING_IDENTITY"

\* Who is in is an active user.
InIsActive == \A u \in Keys : sessions[u] > 0 => users[u] = "ACTIVE"

\* uq_enrollments_active_learner
OneOpen == \A e, f \in Keys :
  enrollments[e] \in Open /\ enrollments[f] \in Open /\ Owner(e) = Owner(f) => e = f

\* The inductive invariant of the learners' side.
JoinInv ==
  /\ TypeOK
  /\ KnownStays
  /\ InIsActive
  /\ OneOpen
  /\ \A i \in Invites : LinkInv(i)

-----------------------------------------------------------------------------
(* Learners: what one link changes. *)

UserStatuses == {"NONE", "PENDING_IDENTITY", "ACTIVE", "DISABLED"}
EnrollmentStatuses == {"NONE", "PENDING_IDENTITY", "ACTIVE", "COMPLETED", "CANCELLED"}

\* The rows of link i become these; every other stays.
LinkUpdate(i, link, context, goal, enrollment, user) ==
  /\ link \in InviteRows /\ context \in ContextRows /\ goal \in Keys \cup {NoOne}
  /\ enrollment \in EnrollmentStatuses /\ user \in UserStatuses
  /\ invites' = [invites EXCEPT ![i] = link]
  /\ contexts' = [contexts EXCEPT ![i] = context]
  /\ exchanging' = [exchanging EXCEPT ![i] = goal]
  /\ enrollments' = [enrollments EXCEPT ![i] = enrollment]
  /\ users' = [users EXCEPT ![i] = user]
  /\ graduated' = graduated
  /\ sessions' \in [Keys -> 0..MaxSessions]

\* What others rely on stays: a target once chosen, a join once confirmed, a user once
\* there.
OthersRely ==
  /\ \A e \in Invites : contexts[e].status = "CONFIRMED" => contexts'[e].status = "CONFIRMED"
  /\ \A u \in Keys : /\ users[u] = "ACTIVE" => users'[u] = "ACTIVE"
                     /\ users[u] = "DISABLED" => users'[u] = "DISABLED"

\* The rows of link i stay what they are.
RowsStay(i) ==
  /\ invites'[i] = invites[i] /\ contexts'[i] = contexts[i] /\ exchanging'[i] = exchanging[i]
  /\ enrollments'[i] = enrollments[i] /\ users'[i] = users[i]

\* The tables, typed.
LEMMA TablesTyped ==
  ASSUME TypeOK
  PROVE  /\ invites \in [Invites -> InviteRows] /\ contexts \in [Invites -> ContextRows]
         /\ exchanging \in [Invites -> Keys \cup {NoOne}]
         /\ enrollments \in [Keys -> EnrollmentStatuses] /\ users \in [Keys -> UserStatuses]
         /\ sessions \in [Keys -> 0..MaxSessions] /\ graduated \subseteq Keys
         /\ \A e \in Keys : Owner(e) \in Keys
         /\ NoOne \notin Keys /\ Known \in Keys /\ Known \notin Invites
         /\ Invites \subseteq Keys
<1>1. \A e \in Keys : Owner(e) \in Keys
  BY DEF Owner, TypeOK, Keys
<1> QED BY <1>1, NameAssumption DEF TypeOK, InviteRows, ContextRows, UserStatuses, EnrollmentStatuses, Keys

\* A link whose rows stay keeps its part of the invariant while what it relies on stays.
LEMMA OthersKeep ==
  ASSUME TypeOK, NEW j \in Invites, LinkInv(j), OthersRely, RowsStay(j)
  PROVE  LinkInv(j)'
<1>1. Owner(j)' = Owner(j) /\ Owner(j) \in Keys
  BY TablesTyped DEF RowsStay, Owner
<1>2. InOrder(j)' /\ ContextFollows(j)'
  BY DEF LinkInv, InOrder, ContextFollows, RowsStay, Locked
<1>3. OwnRows(j)'
  BY <1>1 DEF LinkInv, OwnRows, RowsStay, OthersRely
<1>4. LeadsBack(j)'
  BY DEF LinkInv, LeadsBack, Joined, RowsStay, OthersRely, Locked
<1>5. TargetStays(j)'
  <2>1. invites[j].target # NoOne => invites[j].target \in Keys
    BY TablesTyped DEF InviteRows
  <2> QED BY <2>1 DEF LinkInv, TargetStays, RowsStay, OthersRely, Locked
<1> QED BY <1>2, <1>3, <1>4, <1>5 DEF LinkInv

\* An update of one link, by its rows.
LEMMA UpdatedRows ==
  ASSUME TypeOK, NEW i \in Invites, NEW link, NEW context, NEW goal, NEW enrollment, NEW user,
         LinkUpdate(i, link, context, goal, enrollment, user)
  PROVE  /\ TypeOK'
         /\ invites'[i] = link /\ contexts'[i] = context /\ exchanging'[i] = goal
         /\ enrollments'[i] = enrollment /\ users'[i] = user
         /\ \A j \in Invites : j # i => RowsStay(j)
         /\ \A u \in Keys : u # i => users'[u] = users[u] /\ enrollments'[u] = enrollments[u]
<1>1. /\ invites \in [Invites -> InviteRows] /\ contexts \in [Invites -> ContextRows]
      /\ exchanging \in [Invites -> Keys \cup {NoOne}]
      /\ enrollments \in [Keys -> EnrollmentStatuses] /\ users \in [Keys -> UserStatuses]
      /\ graduated \subseteq Keys /\ Invites \subseteq Keys
  BY TablesTyped
<1>2. /\ invites' \in [Invites -> InviteRows] /\ contexts' \in [Invites -> ContextRows]
      /\ exchanging' \in [Invites -> Keys \cup {NoOne}]
      /\ enrollments' \in [Keys -> EnrollmentStatuses] /\ users' \in [Keys -> UserStatuses]
      /\ graduated' \subseteq Keys /\ sessions' \in [Keys -> 0..MaxSessions]
  BY <1>1 DEF LinkUpdate
<1>3. TypeOK'
  BY <1>2 DEF TypeOK, InviteRows, ContextRows, UserStatuses, EnrollmentStatuses
<1> QED BY <1>1, <1>3 DEF LinkUpdate, RowsStay

\* What a command on one link does: its rows change, in a way the others can rely on,
\* and its own part of the invariant holds again.
LinkChange(i) ==
  /\ \E link, context, goal, enrollment, user :
       LinkUpdate(i, link, context, goal, enrollment, user)
  /\ invites'[i].target = invites[i].target \/ contexts[i].status = "NONE"
  /\ contexts[i].status = "CONFIRMED" => contexts'[i].status = "CONFIRMED"
  /\ users[i] = "ACTIVE" => users'[i] = "ACTIVE"
  /\ users[i] = "DISABLED" => users'[i] = "DISABLED"
  /\ \A u \in Keys : sessions'[u] > 0 => sessions[u] > 0 \/ users'[u] = "ACTIVE"
  /\ enrollments'[i] \in Open =>
       \/ enrollments[i] \in Open
       \/ invites'[i].target = invites[i].target /\ UniqueOpen(Owner(i), i)
  /\ LinkInv(i)'

\* Such a command keeps the invariant.
LEMMA LinkKeeps ==
  ASSUME JoinInv, NEW i \in Invites, LinkChange(i)
  PROVE  JoinInv'
<1>1. PICK link, context, goal, enrollment, user :
        LinkUpdate(i, link, context, goal, enrollment, user)
  BY DEF LinkChange
<1>2. /\ TypeOK /\ TypeOK'
      /\ \A j \in Invites : j # i => RowsStay(j)
      /\ \A u \in Keys : u # i => users'[u] = users[u] /\ enrollments'[u] = enrollments[u]
  BY <1>1, UpdatedRows DEF JoinInv
<1>3. OthersRely
  BY <1>2 DEF LinkChange, OthersRely, RowsStay
<1>4. \A j \in Invites : LinkInv(j)'
  BY <1>2, <1>3, OthersKeep DEF JoinInv, LinkChange
<1>5. Known \in Keys /\ Known # i /\ Invites \subseteq Keys /\ i \in Keys
  BY <1>2, TablesTyped
<1>6. KnownStays'
  BY <1>2, <1>5 DEF JoinInv, KnownStays
<1>7. InIsActive'
  BY <1>2, <1>3 DEF JoinInv, InIsActive, LinkChange, OthersRely
<1>8. \A e \in Keys : e # i => Owner(e)' = Owner(e)
  BY <1>2 DEF Owner, RowsStay, Keys
<1>9. enrollments'[i] \in Open => enrollments[i] \in Open \/ UniqueOpen(Owner(i), i)
  BY DEF LinkChange
<1>10. enrollments'[i] \in Open => Owner(i)' = Owner(i)
  <2>1. contexts[i].status = "NONE" => enrollments[i] \notin Open
    BY DEF JoinInv, LinkInv, InOrder, Open
  <2>2. enrollments'[i] \in Open => invites'[i].target = invites[i].target
    BY <2>1 DEF LinkChange
  <2> QED BY <2>2 DEF Owner
<1>11. OneOpen'
  <2> SUFFICES ASSUME NEW e \in Keys, NEW f \in Keys,
                      enrollments'[e] \in Open, enrollments'[f] \in Open,
                      Owner(e)' = Owner(f)', e # f
               PROVE  FALSE
    BY DEF OneOpen
  <2>1. Owner(e) = Owner(f)
    BY <1>8, <1>10
  <2>2. ASSUME NEW g \in Keys, NEW h \in Keys, g = i, h # i, enrollments'[g] \in Open,
               enrollments'[h] \in Open, Owner(g) = Owner(h)
        PROVE  FALSE
    <3>1. enrollments[h] \in Open
      BY <1>2, <2>2
    <3>2. h \in OpenOf(Owner(i))
      BY <2>2, <3>1 DEF OpenOf, EnrollmentsOf, Open
    <3>3. ~ UniqueOpen(Owner(i), i)
      BY <2>2, <3>2 DEF UniqueOpen
    <3>4. enrollments[i] \in Open
      BY <1>9, <2>2, <3>3
    <3> QED BY <2>2, <3>1, <3>4 DEF JoinInv, OneOpen
  <2>3. CASE e # i /\ f # i
    BY <1>2, <2>1, <2>3 DEF JoinInv, OneOpen
  <2>4. CASE e = i
    BY <2>1, <2>2, <2>4
  <2>5. CASE f = i
    BY <2>1, <2>2, <2>5
  <2> QED BY <2>3, <2>4, <2>5
<1> QED BY <1>2, <1>4, <1>6, <1>7, <1>11 DEF JoinInv

\* A row that is written as it is.
LEMMA SameAgain ==
  ASSUME TypeOK, NEW i \in Invites
  PROVE  /\ invites = [invites EXCEPT ![i] = invites[i]] /\ invites[i] \in InviteRows
         /\ contexts = [contexts EXCEPT ![i] = contexts[i]] /\ contexts[i] \in ContextRows
         /\ exchanging = [exchanging EXCEPT ![i] = exchanging[i]] /\ exchanging[i] \in Keys \cup {NoOne}
         /\ enrollments = [enrollments EXCEPT ![i] = enrollments[i]] /\ enrollments[i] \in EnrollmentStatuses
         /\ users = [users EXCEPT ![i] = users[i]] /\ users[i] \in UserStatuses
         /\ sessions \in [Keys -> 0..MaxSessions]
         /\ i \in Keys /\ i # Known /\ i # NoOne
<1>1. /\ invites \in [Invites -> InviteRows] /\ contexts \in [Invites -> ContextRows]
      /\ exchanging \in [Invites -> Keys \cup {NoOne}]
      /\ enrollments \in [Keys -> EnrollmentStatuses] /\ users \in [Keys -> UserStatuses]
      /\ sessions \in [Keys -> 0..MaxSessions]
      /\ NoOne \notin Keys /\ Known \notin Invites /\ Invites \subseteq Keys
  BY TablesTyped
<1> QED BY <1>1

-----------------------------------------------------------------------------
(* Learners: links are made, get late, are taken back and exchanged. *)

\* create_invite and create_learner_reentry
LEMMA MadeChange ==
  ASSUME JoinInv, NEW i \in Invites,
         \/ \E target \in Keys \cup {NoOne}, reviewer \in Reviewers : CreateInvite(i, target, reviewer)
         \/ \E e \in Keys : CreateLearnerReentry(i, e)
  PROVE  LinkChange(i)
<1>0. /\ TypeOK /\ LinkInv(i) /\ i \in Keys /\ i # Known /\ i # NoOne
      /\ \A e \in Keys : Owner(e) \in Keys
  BY SameAgain, TablesTyped DEF JoinInv
<1> DEFINE Written(link) ==
             /\ link \in InviteRows /\ link.status = "ACTIVE" /\ link.late = FALSE
             /\ invites' = [invites EXCEPT ![i] = link]
<1>1. \E link : Written(link)
  <2>1. ASSUME NEW target \in Keys \cup {NoOne}, NEW reviewer \in Reviewers, CreateInvite(i, target, reviewer)
        PROVE  \E link : Written(link)
    <3> DEFINE link == [NoInvite EXCEPT !.status = "ACTIVE", !.target = target, !.reviewer = reviewer]
    <3>1. link \in InviteRows /\ link.status = "ACTIVE" /\ link.late = FALSE
      BY DEF NoInvite, InviteRows
    <3>2. Written(link)
      BY <2>1, <3>1 DEF CreateInvite
    <3> QED BY <3>2
  <2>2. ASSUME NEW e \in Keys, CreateLearnerReentry(i, e) PROVE \E link : Written(link)
    <3> DEFINE link == [status |-> "ACTIVE", target |-> Owner(e), goal |-> e,
                        reviewer |-> ReviewerOf(e), late |-> FALSE]
    <3>1. ReviewerOf(e) \in Reviewers
      BY <1>0, ReviewerAssumption DEF ReviewerOf, Keys, TypeOK
    <3>2. link \in InviteRows /\ link.status = "ACTIVE" /\ link.late = FALSE
      BY <1>0, <3>1 DEF InviteRows
    <3>3. Written(link)
      BY <2>2, <3>2 DEF CreateLearnerReentry
    <3> QED BY <3>3
  <2> QED BY <2>1, <2>2
<1>6. PICK link : Written(link)
  BY <1>1
<1>2. /\ invites[i].status = "NONE"
      /\ UNCHANGED <<contexts, exchanging, users, enrollments, graduated, sessions>>
  BY DEF CreateInvite, CreateLearnerReentry
<1>3. LinkUpdate(i, link, contexts[i], exchanging[i], enrollments[i], users[i])
  BY <1>0, <1>2, <1>6, SameAgain DEF LinkUpdate
<1>4. invites'[i] = link
  BY <1>0, <1>3, UpdatedRows
<1>5. contexts[i].status = "NONE" /\ enrollments[i] = "NONE" /\ users[i] = "NONE" /\ ~ Locked(i)
  BY <1>0, <1>2 DEF LinkInv, InOrder
<1>7. LinkInv(i)'
  BY <1>0, <1>2, <1>4, <1>5, <1>6 DEF LinkInv, InOrder, ContextFollows, OwnRows, LeadsBack, TargetStays,
       Locked, Entered
<1> QED BY <1>2, <1>3, <1>5, <1>7 DEF LinkChange, Open

\* What writing one column of a row leaves of it.
LEMMA RowEdits ==
  /\ \A link \in InviteRows :
       \A status \in {"NONE", "ACTIVE", "CONSUMED", "REVOKED", "EXPIRED"} :
         LET new == [link EXCEPT !.status = status] IN
         new \in InviteRows /\ new.status = status /\ new.target = link.target
         /\ new.late = link.late /\ new.reviewer = link.reviewer
  /\ \A link \in InviteRows :
       LET new == [link EXCEPT !.late = TRUE] IN
       new \in InviteRows /\ new.late = TRUE /\ new.target = link.target /\ new.status = link.status
  /\ \A context \in ContextRows : \A status \in {"NONE", "PENDING", "CONFIRMED", "REVOKED"} :
       LET new == [context EXCEPT !.status = status] IN
       new \in ContextRows /\ new.status = status /\ new.enrollment = context.enrollment
       /\ new.late = context.late
  /\ \A context \in ContextRows, late \in BOOLEAN :
       LET new == [context EXCEPT !.late = late] IN
       new \in ContextRows /\ new.late = late /\ new.enrollment = context.enrollment
       /\ new.status = context.status
  BY DEF InviteRows, ContextRows

\* Time passes.
LEMMA ExpiryChange ==
  ASSUME JoinInv, NEW i \in Invites, PassExpiry(i)
  PROVE  LinkChange(i)
<1>0. /\ TypeOK /\ LinkInv(i) /\ invites[i] \in InviteRows /\ contexts[i] \in ContextRows
  BY SameAgain DEF JoinInv
<1>1. /\ invites[i].status = "ACTIVE"
      /\ UNCHANGED <<exchanging, users, enrollments, graduated, sessions>>
      /\ \/ /\ invites' = [invites EXCEPT ![i].late = TRUE]
            /\ contexts' = [contexts EXCEPT ![i].late = @ \/ contexts[i].status # "NONE"]
         \/ /\ contexts' = [contexts EXCEPT ![i].late = TRUE]
            /\ UNCHANGED invites
  BY DEF PassExpiry
<1> DEFINE Written(link, context) ==
             /\ link \in InviteRows /\ link.status = "ACTIVE" /\ link.target = invites[i].target
             /\ context \in ContextRows /\ context.status = contexts[i].status
             /\ context.enrollment = contexts[i].enrollment
             /\ link.late /\ context.status = "PENDING" => context.late
             /\ invites' = [invites EXCEPT ![i] = link]
             /\ contexts' = [contexts EXCEPT ![i] = context]
<1>2. \E link, context : Written(link, context)
  <2>1. CASE /\ invites' = [invites EXCEPT ![i].late = TRUE]
             /\ contexts' = [contexts EXCEPT ![i].late = @ \/ contexts[i].status # "NONE"]
    <3>1. PICK late \in BOOLEAN :
            /\ contexts' = [contexts EXCEPT ![i].late = late]
            /\ contexts[i].status = "PENDING" => late = TRUE
      <4>1. (contexts[i].late \/ contexts[i].status # "NONE") \in BOOLEAN
        OBVIOUS
      <4> QED BY <2>1, <4>1, Zenon
    <3>2. /\ invites' = [invites EXCEPT ![i] = [invites[i] EXCEPT !.late = TRUE]]
          /\ contexts' = [contexts EXCEPT ![i] = [contexts[i] EXCEPT !.late = late]]
      BY <2>1, <3>1
    <3>3. Written([invites[i] EXCEPT !.late = TRUE], [contexts[i] EXCEPT !.late = late])
      <4> DEFINE context == [contexts[i] EXCEPT !.late = late]
                 link == [invites[i] EXCEPT !.late = TRUE]
      <4>1. /\ context \in ContextRows /\ context.late = late
            /\ context.enrollment = contexts[i].enrollment /\ context.status = contexts[i].status
        BY <1>0, <3>1, RowEdits
      <4>2. /\ link \in InviteRows /\ link.target = invites[i].target
            /\ link.status = invites[i].status
        BY <1>0, RowEdits
      <4>3. context.status = "PENDING" => context.late
        BY <3>1, <4>1
      <4> HIDE DEF context, link
      <4> QED BY <1>1, <3>2, <4>1, <4>2, <4>3 DEF context, link
    <3> QED BY <3>3
  <2>2. CASE contexts' = [contexts EXCEPT ![i].late = TRUE] /\ UNCHANGED invites
    <3>1. /\ invites' = [invites EXCEPT ![i] = invites[i]]
          /\ contexts' = [contexts EXCEPT ![i] = [contexts[i] EXCEPT !.late = TRUE]]
      BY <1>0, <2>2, SameAgain
    <3>2. Written(invites[i], [contexts[i] EXCEPT !.late = TRUE])
      BY <1>0, <1>1, <3>1, RowEdits
    <3> QED BY <3>2
  <2> QED BY <1>1, <2>1, <2>2
<1>3. PICK link, context : Written(link, context)
  BY <1>2
<1>4. LinkUpdate(i, link, context, exchanging[i], enrollments[i], users[i])
  BY <1>0, <1>1, <1>3, SameAgain DEF LinkUpdate
<1>5. invites'[i] = link /\ contexts'[i] = context
  BY <1>0, <1>4, UpdatedRows
<1>6. Owner(i)' = Owner(i)
  BY <1>3, <1>5 DEF Owner
<1>7. LinkInv(i)'
  <2>1. InOrder(i)' /\ ContextFollows(i)'
    BY <1>0, <1>1, <1>3, <1>5 DEF LinkInv, InOrder, ContextFollows, Locked
  <2>2. OwnRows(i)'
    BY <1>0, <1>1, <1>3, <1>5, <1>6 DEF LinkInv, OwnRows
  <2>3. \A e : Joined(e) => Joined(e)'
    <3> SUFFICES ASSUME NEW e \in Invites, contexts[e].status = "CONFIRMED"
                 PROVE  contexts'[e].status = "CONFIRMED"
      BY DEF Joined
    <3>1. e # i => contexts'[e] = contexts[e]
      BY <1>0, <1>4, UpdatedRows DEF RowsStay
    <3> QED BY <1>3, <1>5, <3>1
  <2>4. LeadsBack(i)'
    BY <1>0, <1>1, <1>3, <1>5, <2>3 DEF LinkInv, LeadsBack, Locked
  <2>5. TargetStays(i)'
    BY <1>0, <1>1, <1>3, <1>5 DEF LinkInv, TargetStays, Locked
  <2> QED BY <2>1, <2>2, <2>4, <2>5 DEF LinkInv
<1> QED BY <1>1, <1>3, <1>4, <1>5, <1>7 DEF LinkChange

\* A join that was confirmed stays so while link i is updated.
LEMMA JoinedStays ==
  ASSUME TypeOK, NEW i \in Invites, NEW link, NEW context, NEW goal, NEW enrollment, NEW user,
         LinkUpdate(i, link, context, goal, enrollment, user),
         contexts[i].status = "CONFIRMED" => context.status = "CONFIRMED"
  PROVE  \A e : Joined(e) => Joined(e)'
<1> SUFFICES ASSUME NEW e \in Invites, contexts[e].status = "CONFIRMED"
             PROVE  contexts'[e].status = "CONFIRMED"
  BY DEF Joined
<1>1. contexts'[i] = context /\ (e # i => contexts'[e] = contexts[e])
  BY UpdatedRows DEF RowsStay
<1> QED BY <1>1

\* An Enrollment that waits for a join is the one of a context that waits.
LEMMA WaitingIsOwn ==
  ASSUME JoinInv, NEW i \in Invites, contexts[i].status = "PENDING"
  PROVE  /\ contexts[i].enrollment \in Keys
         /\ enrollments[contexts[i].enrollment] = "PENDING_IDENTITY" <=> contexts[i].enrollment = i
<1>1. contexts[i].enrollment \in Keys
  BY SameAgain DEF JoinInv, LinkInv, InOrder, ContextRows
<1>2. CASE contexts[i].enrollment = i
  BY <1>1, <1>2 DEF JoinInv, LinkInv, OwnRows
<1>3. CASE contexts[i].enrollment = Known
  BY <1>1, <1>3, SameAgain DEF JoinInv, KnownStays
<1>4. CASE contexts[i].enrollment \in Invites /\ contexts[i].enrollment # i
  <2>1. contexts[contexts[i].enrollment].status = "CONFIRMED"
    BY <1>4 DEF JoinInv, LinkInv, LeadsBack, Joined
  <2> QED BY <1>1, <1>4, <2>1 DEF JoinInv, LinkInv, OwnRows
<1> QED BY <1>1, <1>2, <1>3, <1>4 DEF Keys

\* revoke_invite, and an exchange of a late link.
LEMMA RevokeChange ==
  ASSUME JoinInv, NEW i \in Invites, RevokeInvite(i) \/ ExchangeLate(i)
  PROVE  LinkChange(i)
<1>0. /\ TypeOK /\ LinkInv(i) /\ invites[i] \in InviteRows /\ contexts[i] \in ContextRows
      /\ invites[i].late \in BOOLEAN
  BY SameAgain DEF JoinInv, InviteRows
<1>1. /\ invites[i].status = "ACTIVE" /\ ~ Locked(i)
      /\ UNCHANGED <<exchanging, graduated, sessions>>
  BY DEF RevokeInvite, ExchangeLate
<1> DEFINE Written(link, context, enrollment, user) ==
             /\ link \in InviteRows /\ link.target = invites[i].target /\ link.late = invites[i].late
             /\ link.status \in {"EXPIRED", "REVOKED"}
             /\ link.status = "EXPIRED" => link.late
             /\ context \in ContextRows
             /\ context.enrollment = contexts[i].enrollment /\ context.late = contexts[i].late
             /\ \/ context = contexts[i] /\ enrollment = enrollments[i] /\ user = users[i]
                   /\ (link.status = "REVOKED" => context.status # "PENDING")
                \/ /\ contexts[i].status = "PENDING" /\ context.status = "REVOKED"
                   /\ enrollment = IF enrollments[i] = "PENDING_IDENTITY" THEN "CANCELLED" ELSE enrollments[i]
                   /\ user = IF users[i] = "PENDING_IDENTITY" THEN "DISABLED" ELSE users[i]
             /\ invites' = [invites EXCEPT ![i] = link]
             /\ contexts' = [contexts EXCEPT ![i] = context]
             /\ enrollments' = [enrollments EXCEPT ![i] = enrollment]
             /\ users' = [users EXCEPT ![i] = user]
<1>2. \E link, context, enrollment, user : Written(link, context, enrollment, user)
  <2>1. CASE /\ invites[i].late
             /\ invites' = [invites EXCEPT ![i].status = "EXPIRED"]
             /\ UNCHANGED <<contexts, users, enrollments>>
    <3>1. invites' = [invites EXCEPT ![i] = [invites[i] EXCEPT !.status = "EXPIRED"]]
      BY <2>1
    <3> DEFINE link == [invites[i] EXCEPT !.status = "EXPIRED"]
    <3>3. link \in InviteRows /\ link.target = invites[i].target /\ link.late = invites[i].late
          /\ link.status = "EXPIRED"
      BY <1>0, RowEdits
    <3>4. /\ contexts' = [contexts EXCEPT ![i] = contexts[i]]
          /\ enrollments' = [enrollments EXCEPT ![i] = enrollments[i]]
          /\ users' = [users EXCEPT ![i] = users[i]]
      BY <1>0, <2>1, SameAgain
    <3> HIDE DEF link
    <3>2. Written(link, contexts[i], enrollments[i], users[i])
      BY <1>0, <2>1, <3>1, <3>3, <3>4 DEF link
    <3> QED BY <3>2
  <2>2. CASE /\ invites' = [invites EXCEPT ![i].status = "REVOKED"]
             /\ contexts[i].status # "PENDING"
             /\ UNCHANGED <<contexts, users, enrollments>>
    <3>1. invites' = [invites EXCEPT ![i] = [invites[i] EXCEPT !.status = "REVOKED"]]
      BY <2>2
    <3> DEFINE link == [invites[i] EXCEPT !.status = "REVOKED"]
    <3>3. link \in InviteRows /\ link.target = invites[i].target /\ link.late = invites[i].late
          /\ link.status = "REVOKED"
      BY <1>0, RowEdits
    <3>4. /\ contexts' = [contexts EXCEPT ![i] = contexts[i]]
          /\ enrollments' = [enrollments EXCEPT ![i] = enrollments[i]]
          /\ users' = [users EXCEPT ![i] = users[i]]
      BY <1>0, <2>2, SameAgain
    <3> HIDE DEF link
    <3>2. Written(link, contexts[i], enrollments[i], users[i])
      BY <1>0, <2>2, <3>1, <3>3, <3>4 DEF link
    <3> QED BY <3>2
  <2>3. CASE /\ invites' = [invites EXCEPT ![i].status = "REVOKED"]
             /\ contexts[i].status = "PENDING"
             /\ contexts' = [contexts EXCEPT ![i].status = "REVOKED"]
             /\ enrollments' = [enrollments EXCEPT ![contexts[i].enrollment] =
                                  IF @ = "PENDING_IDENTITY" THEN "CANCELLED" ELSE @]
             /\ users' = [users EXCEPT ![i] = IF @ = "PENDING_IDENTITY" THEN "DISABLED" ELSE @]
    <3> DEFINE e == contexts[i].enrollment
               enrollment == IF enrollments[i] = "PENDING_IDENTITY" THEN "CANCELLED" ELSE enrollments[i]
               user == IF users[i] = "PENDING_IDENTITY" THEN "DISABLED" ELSE users[i]
    <3>1. /\ invites' = [invites EXCEPT ![i] = [invites[i] EXCEPT !.status = "REVOKED"]]
          /\ contexts' = [contexts EXCEPT ![i] = [contexts[i] EXCEPT !.status = "REVOKED"]]
          /\ users' = [users EXCEPT ![i] = user]
      BY <2>3
    <3>2. /\ e \in Keys /\ enrollments[e] = "PENDING_IDENTITY" <=> e = i
          /\ enrollments[i] = "PENDING_IDENTITY" <=> e = i
      BY <1>0, <2>3, WaitingIsOwn DEF LinkInv, OwnRows
    <3>3. enrollments' = [enrollments EXCEPT ![i] = enrollment]
      <4>1. enrollments \in [Keys -> EnrollmentStatuses] /\ i \in Keys
        BY <1>0, TablesTyped
      <4>2. CASE e = i
        BY <2>3, <4>2
      <4>3. CASE e # i
        BY <2>3, <3>2, <4>1, <4>3
      <4> QED BY <4>2, <4>3
    <3> DEFINE link == [invites[i] EXCEPT !.status = "REVOKED"]
               context == [contexts[i] EXCEPT !.status = "REVOKED"]
    <3>4. /\ link \in InviteRows /\ link.target = invites[i].target /\ link.late = invites[i].late
          /\ link.status = "REVOKED"
          /\ context \in ContextRows /\ context.enrollment = contexts[i].enrollment
          /\ context.late = contexts[i].late /\ context.status = "REVOKED"
      BY <1>0, RowEdits
    <3> HIDE DEF link, context
    <3>5. Written(link, context, enrollment, user)
      BY <2>3, <3>1, <3>3, <3>4 DEF link, context
    <3> QED BY <3>5
  <2> QED BY <1>0, <2>1, <2>2, <2>3 DEF RevokeInvite, ExchangeLate, RevokeContext
<1>3. PICK link, context, enrollment, user : Written(link, context, enrollment, user)
  BY <1>2
<1>4. LinkUpdate(i, link, context, exchanging[i], enrollment, user)
  <2>1. enrollment \in EnrollmentStatuses /\ user \in UserStatuses
    BY <1>0, <1>3, SameAgain DEF EnrollmentStatuses, UserStatuses
  <2> QED BY <1>0, <1>1, <1>3, <2>1, SameAgain DEF LinkUpdate
<1>5. /\ invites'[i] = link /\ contexts'[i] = context /\ enrollments'[i] = enrollment
      /\ users'[i] = user /\ exchanging'[i] = exchanging[i]
  BY <1>0, <1>4, UpdatedRows
<1>6. Owner(i)' = Owner(i)
  BY <1>3, <1>5 DEF Owner
<1>7. contexts[i].status # "CONFIRMED"
  BY <1>0, <1>1 DEF LinkInv, ContextFollows
<1>8. LinkInv(i)'
  <2>1. InOrder(i)'
    BY <1>0, <1>1, <1>3, <1>5 DEF LinkInv, InOrder, Locked
  <2>2. ContextFollows(i)'
    BY <1>0, <1>1, <1>3, <1>5, <1>7 DEF LinkInv, ContextFollows
  <2>3. OwnRows(i)'
    BY <1>0, <1>1, <1>3, <1>5, <1>7 DEF LinkInv, OwnRows, Entered
  <2>4. LeadsBack(i)'
    BY <1>0, <1>1, <1>3, <1>4, <1>5, <1>7, JoinedStays DEF LinkInv, LeadsBack, Locked
  <2>5. TargetStays(i)'
    <3>1. invites[i].target \in Keys /\ users[invites[i].target] \in {"ACTIVE", "DISABLED"} =>
            users'[invites[i].target] = users[invites[i].target]
      <4>1. \A u \in Keys : u # i => users'[u] = users[u]
        BY <1>0, <1>4, UpdatedRows
      <4> QED BY <1>3, <1>5, <4>1
    <3>2. invites[i].target # NoOne => invites[i].target \in Keys
      BY <1>0 DEF InviteRows
    <3> QED BY <1>0, <1>1, <1>3, <1>5, <3>1, <3>2 DEF LinkInv, TargetStays, Locked
  <2> QED BY <2>1, <2>2, <2>3, <2>4, <2>5 DEF LinkInv
<1> QED BY <1>0, <1>1, <1>3, <1>4, <1>5, <1>7, <1>8 DEF LinkChange, Open

\* exchange_invite, what it reads: a re-entry leads to an Enrollment that is in use.
LEMMA ReadsChange ==
  ASSUME JoinInv, NEW i \in Invites, ExchangeReads(i)
  PROVE  LinkChange(i)
<1>0. /\ TypeOK /\ LinkInv(i) /\ i \in Keys /\ i # NoOne
      /\ invites[i].target \in Keys \cup {NoOne}
  BY SameAgain DEF JoinInv, InviteRows
<1>1. /\ invites[i].status = "ACTIVE" /\ contexts[i].status = "NONE"
      /\ UNCHANGED <<invites, contexts, users, enrollments, graduated, sessions>>
  BY DEF ExchangeReads
<1>2. \A e \in Matching(i) : e \in Keys /\ enrollments[e] \in Entered
  BY DEF Matching, EnrollmentsOf
<1>3. PICK goal \in Keys :
        /\ exchanging' = [exchanging EXCEPT ![i] = goal]
        /\ goal # i => enrollments[goal] \in Entered
        /\ invites[i].target # NoOne => users[invites[i].target] = "ACTIVE"
  BY <1>0, <1>2 DEF ExchangeReads
<1>4. LinkUpdate(i, invites[i], contexts[i], goal, enrollments[i], users[i])
  BY <1>0, <1>1, <1>3, SameAgain DEF LinkUpdate
<1>5. exchanging'[i] = goal
  BY <1>0, <1>4, UpdatedRows
<1>6. goal # i => Joined(goal)
  BY <1>3 DEF JoinInv, LinkInv, OwnRows, Joined
<1>7. LinkInv(i)'
  <2>1. InOrder(i)' /\ ContextFollows(i)' /\ OwnRows(i)'
    BY <1>0, <1>1 DEF LinkInv, InOrder, ContextFollows, OwnRows, Owner
  <2>2. LeadsBack(i)'
    BY <1>0, <1>1, <1>5, <1>6 DEF LinkInv, LeadsBack, Joined
  <2>3. TargetStays(i)'
    BY <1>1, <1>3 DEF TargetStays
  <2> QED BY <2>1, <2>2, <2>3 DEF LinkInv
<1> QED BY <1>1, <1>4, <1>7 DEF LinkChange

\* An exchange that is rolled back.
LEMMA AbortsChange ==
  ASSUME JoinInv, NEW i \in Invites, ExchangeAborts(i)
  PROVE  LinkChange(i)
<1>0. TypeOK /\ LinkInv(i)
  BY DEF JoinInv
<1>1. /\ exchanging' = [exchanging EXCEPT ![i] = NoOne]
      /\ UNCHANGED <<invites, contexts, users, enrollments, graduated, sessions>>
  BY DEF ExchangeAborts
<1>2. LinkUpdate(i, invites[i], contexts[i], NoOne, enrollments[i], users[i])
  BY <1>0, <1>1, SameAgain DEF LinkUpdate
<1>3. exchanging'[i] = NoOne
  BY <1>0, <1>2, UpdatedRows
<1>4. LinkInv(i)'
  BY <1>0, <1>1, <1>3 DEF LinkInv, InOrder, ContextFollows, OwnRows, LeadsBack, TargetStays, Joined,
       Locked, Owner
<1> QED BY <1>1, <1>2, <1>4 DEF LinkChange

\* exchange_invite, what it writes: the index lets a new Enrollment be the only open one.
LEMMA InsertsChange ==
  ASSUME JoinInv, NEW i \in Invites, ExchangeInserts(i)
  PROVE  LinkChange(i)
<1> DEFINE e == exchanging[i]
           new == e = i
           context == [status |-> "PENDING", enrollment |-> e, late |-> invites[i].late]
           enrollment == IF new THEN "PENDING_IDENTITY" ELSE enrollments[i]
           user == IF new /\ invites[i].target = NoOne THEN "PENDING_IDENTITY" ELSE users[i]
<1>0. /\ TypeOK /\ LinkInv(i) /\ i \in Keys /\ i # Known /\ i # NoOne
      /\ invites[i] \in InviteRows /\ e \in Keys \cup {NoOne}
  BY SameAgain DEF JoinInv
<1>1. /\ e # NoOne /\ Locked(i)
      /\ contexts' = [contexts EXCEPT ![i] = context]
      /\ exchanging' = [exchanging EXCEPT ![i] = NoOne]
      /\ UNCHANGED <<invites, graduated, sessions>>
  BY DEF ExchangeInserts, Locked
<1>2. /\ enrollments' = [enrollments EXCEPT ![i] = enrollment]
      /\ users' = [users EXCEPT ![i] = user]
      /\ new => UniqueOpen(Owner(i), i)
  <2>1. CASE new
    <3>1. /\ UniqueOpen(IF invites[i].target = NoOne THEN i ELSE invites[i].target, i)
          /\ enrollments' = [enrollments EXCEPT ![i] = "PENDING_IDENTITY"]
          /\ users' = IF invites[i].target = NoOne
                      THEN [users EXCEPT ![i] = "PENDING_IDENTITY"] ELSE users
      BY <2>1 DEF ExchangeInserts
    <3>2. Owner(i) = IF invites[i].target = NoOne THEN i ELSE invites[i].target
      BY <1>0 DEF Owner
    <3> QED BY <1>0, <2>1, <3>1, <3>2, SameAgain
  <2>2. CASE ~ new
    <3>1. UNCHANGED <<enrollments, users>>
      BY <2>2 DEF ExchangeInserts
    <3> QED BY <1>0, <2>2, <3>1, SameAgain
  <2> QED BY <2>1, <2>2
<1>3. LinkUpdate(i, invites[i], context, NoOne, enrollment, user)
  <2>1. context \in ContextRows
    BY <1>0, <1>1 DEF ContextRows, InviteRows
  <2>2. enrollment \in EnrollmentStatuses /\ user \in UserStatuses
    BY <1>0, SameAgain DEF EnrollmentStatuses, UserStatuses
  <2> HIDE DEF context, enrollment, user
  <2> QED BY <1>0, <1>1, <1>2, <2>1, <2>2, SameAgain DEF LinkUpdate
<1>4. /\ contexts'[i] = context /\ exchanging'[i] = NoOne /\ enrollments'[i] = enrollment
      /\ users'[i] = user
  BY <1>0, <1>3, UpdatedRows
<1>5. /\ invites[i].status = "ACTIVE" /\ contexts[i].status = "NONE"
      /\ enrollments[i] = "NONE" /\ users[i] = "NONE"
  BY <1>0, <1>1 DEF LinkInv, InOrder
<1>6. LinkInv(i)'
  <2>1. InOrder(i)' /\ ContextFollows(i)'
    BY <1>0, <1>1, <1>4, <1>5 DEF InOrder, ContextFollows, Locked
  <2>2. OwnRows(i)'
    BY <1>0, <1>1, <1>4, <1>5 DEF OwnRows, Entered
  <2>3. \A f : Joined(f) => Joined(f)'
    BY <1>0, <1>3, <1>5, JoinedStays
  <2>4. LeadsBack(i)'
    BY <1>0, <1>1, <1>4, <2>3 DEF LinkInv, LeadsBack, Locked
  <2>5. TargetStays(i)'
    <3>1. \A u \in Keys : u # i => users'[u] = users[u]
      BY <1>0, <1>3, UpdatedRows
    <3>2. invites[i].target # NoOne => /\ invites[i].target \in Keys
                                       /\ users[invites[i].target] \in {"ACTIVE", "DISABLED"}
      BY <1>0, <1>1 DEF LinkInv, TargetStays, InviteRows
    <3> QED BY <1>1, <1>5, <3>1, <3>2 DEF TargetStays
  <2> QED BY <2>1, <2>2, <2>4, <2>5 DEF LinkInv
<1>7. enrollments'[i] \in Open => UniqueOpen(Owner(i), i)
  BY <1>2, <1>4, <1>5 DEF Open
<1> QED BY <1>1, <1>3, <1>5, <1>6, <1>7 DEF LinkChange

-----------------------------------------------------------------------------
(* Learners: a context is confirmed. *)

\* Whoever holds a context that may be confirmed has a user that is active, or will be
\* with the join.
LEMMA ConfirmableUser ==
  ASSUME JoinInv, NEW i \in Invites, Confirmable(i)
  PROVE  LET e == contexts[i].enrollment IN
         /\ e \in Keys /\ Owner(e) \in Keys
         /\ Owner(e) # i \/ e # i => users[Owner(e)] = "ACTIVE"
<1> DEFINE e == contexts[i].enrollment
<1>0. /\ TypeOK /\ e \in Keys /\ (enrollments[e] = "PENDING_IDENTITY" <=> e = i)
      /\ invites[i].target \in Keys \cup {NoOne} /\ i # Known
  BY WaitingIsOwn, SameAgain DEF JoinInv, Confirmable, InviteRows
<1>1. Owner(e) \in Keys
  BY <1>0, TablesTyped
<1>2. /\ enrollments[e] \in Entered \cup {"PENDING_IDENTITY"}
      /\ users[Owner(e)] \in {"PENDING_IDENTITY", "ACTIVE"} /\ contexts[i].status = "PENDING"
  BY DEF Confirmable
<1>3. CASE e = i
  <2>1. Owner(i) # i => Owner(i) = invites[i].target /\ invites[i].target # NoOne
    BY <1>0 DEF Owner
  <2>2. Owner(i) # i => users[Owner(i)] \in {"ACTIVE", "DISABLED"}
    BY <1>2, <2>1 DEF JoinInv, LinkInv, TargetStays
  <2> QED BY <1>0, <1>1, <1>2, <1>3, <2>2
<1>4. CASE e # i /\ e \in Invites
  BY <1>0, <1>1, <1>2, <1>4 DEF JoinInv, LinkInv, OwnRows
<1>5. CASE e = Known
  <2>1. Owner(Known) = Known
    BY DEF Owner
  <2> QED BY <1>0, <1>1, <1>2, <1>5, <2>1 DEF JoinInv, KnownStays
<1> QED BY <1>0, <1>3, <1>4, <1>5 DEF Keys

\* What Consume writes.
LEMMA ConsumedRows ==
  ASSUME TypeOK, NEW i \in Invites, Consume(i)
  PROVE  LET link == [invites[i] EXCEPT !.status = "CONSUMED"]
             context == [contexts[i] EXCEPT !.status = "CONFIRMED"]
         IN
         /\ invites' = [invites EXCEPT ![i] = link] /\ contexts' = [contexts EXCEPT ![i] = context]
         /\ link \in InviteRows /\ link.status = "CONSUMED" /\ link.target = invites[i].target
         /\ link.late = invites[i].late
         /\ context \in ContextRows /\ context.status = "CONFIRMED"
         /\ context.enrollment = contexts[i].enrollment
<1>1. invites[i] \in InviteRows /\ contexts[i] \in ContextRows
  BY SameAgain
<1> QED BY <1>1, RowEdits DEF Consume

\* confirm_identity of a join: user and Enrollment become active with the session.
LEMMA JoinChange ==
  ASSUME JoinInv, NEW i \in Invites, ConfirmJoin(i)
  PROVE  LinkChange(i)
<1> DEFINE u == Owner(i)
           link == [invites[i] EXCEPT !.status = "CONSUMED"]
           context == [contexts[i] EXCEPT !.status = "CONFIRMED"]
           user == IF u = i THEN "ACTIVE" ELSE users[i]
<1>0. /\ TypeOK /\ LinkInv(i) /\ i \in Keys
      /\ enrollments \in [Keys -> EnrollmentStatuses] /\ users[i] \in UserStatuses
      /\ sessions \in [Keys -> 0..MaxSessions]
  BY SameAgain, TablesTyped DEF JoinInv
<1>1. contexts[i].enrollment = i /\ contexts[i].status = "PENDING"
  BY WaitingIsOwn DEF ConfirmJoin, Confirmable
<1>2. /\ Confirmable(i) /\ Consume(i) /\ enrollments[i] = "PENDING_IDENTITY"
      /\ sessions[u] < MaxSessions
      /\ enrollments' = [enrollments EXCEPT ![i] = "ACTIVE"]
      /\ users' = [users EXCEPT ![i] = user]
      /\ sessions' = [sessions EXCEPT ![u] = @ + 1]
      /\ UNCHANGED <<exchanging, graduated>>
  BY <1>1 DEF ConfirmJoin
<1>3. u \in Keys /\ (u # i => users[u] = "ACTIVE")
  BY <1>1, <1>2, ConfirmableUser
<1>4. /\ invites' = [invites EXCEPT ![i] = link] /\ contexts' = [contexts EXCEPT ![i] = context]
      /\ link \in InviteRows /\ link.status = "CONSUMED" /\ link.target = invites[i].target
      /\ context \in ContextRows /\ context.status = "CONFIRMED" /\ context.enrollment = i
  BY <1>0, <1>1, <1>2, ConsumedRows
<1> HIDE DEF link, context
<1>5. sessions' \in [Keys -> 0..MaxSessions]
  <2>1. sessions[u] + 1 \in 0..MaxSessions
    BY <1>0, <1>2, <1>3, BoundAssumption
  <2> QED BY <1>0, <1>2, <1>3, <2>1
<1>6. LinkUpdate(i, link, context, exchanging[i], "ACTIVE", user)
  BY <1>0, <1>2, <1>4, <1>5, SameAgain DEF LinkUpdate, EnrollmentStatuses, UserStatuses
<1>7. /\ invites'[i] = link /\ contexts'[i] = context /\ enrollments'[i] = "ACTIVE" /\ users'[i] = user
      /\ \A v \in Keys : v # i => users'[v] = users[v]
  BY <1>0, <1>6, UpdatedRows
<1>8. Owner(i)' = u /\ users'[u] = "ACTIVE"
  BY <1>3, <1>4, <1>7 DEF Owner
<1>9. LinkInv(i)'
  <2>1. InOrder(i)' /\ ContextFollows(i)'
    BY <1>0, <1>1, <1>2, <1>4, <1>7 DEF LinkInv, InOrder, ContextFollows, Locked
  <2>2. OwnRows(i)'
    BY <1>4, <1>7, <1>8 DEF OwnRows
  <2>3. LeadsBack(i)'
    BY <1>0, <1>1, <1>2, <1>4, <1>7 DEF LinkInv, InOrder, LeadsBack, Locked
  <2>4. TargetStays(i)'
    <3>1. link.target # NoOne => link.target \in Keys /\ users[link.target] \in {"ACTIVE", "DISABLED"}
      BY <1>0, <1>1, <1>4 DEF LinkInv, TargetStays, InviteRows
    <3> QED BY <1>7, <3>1 DEF TargetStays
  <2> QED BY <2>1, <2>2, <2>3, <2>4 DEF LinkInv
<1>10. \A v \in Keys : sessions'[v] > 0 => sessions[v] > 0 \/ users'[v] = "ACTIVE"
  BY <1>0, <1>2, <1>8
<1>11. users[i] = "DISABLED" => users'[i] = "DISABLED"
  <2>1. CASE u # i
    BY <1>7, <2>1
  <2>2. CASE u = i
    BY <1>1, <1>2, <2>2 DEF Confirmable
  <2> QED BY <2>1, <2>2
<1> QED BY <1>1, <1>2, <1>4, <1>6, <1>7, <1>9, <1>10, <1>11 DEF LinkChange, Open

\* confirm_identity of a re-entry: the links of others stay, and the learner, an active
\* user already, has one session.
LEMMA ReentryMoves ==
  ASSUME JoinInv, NEW i \in Invites, ConfirmReentry(i)
  PROVE  LET e == contexts[i].enrollment IN
         /\ e # i /\ e \in Keys /\ enrollments[e] \in Entered
         /\ users[Owner(e)] = "ACTIVE" /\ Owner(e) \in Keys
         /\ UNCHANGED <<users, enrollments>>
         /\ sessions' = [sessions EXCEPT ![Owner(e)] = 1]
<1>1. Confirmable(i) /\ enrollments[contexts[i].enrollment] # "PENDING_IDENTITY"
  BY DEF ConfirmReentry
<1>2. contexts[i].enrollment # i
  BY <1>1, WaitingIsOwn DEF Confirmable
<1> QED BY <1>1, <1>2, ConfirmableUser DEF ConfirmReentry, Confirmable, RotateSessions, Reenter

\* A re-entry that is confirmed is a change of its own link.
LEMMA ReentryChange ==
  ASSUME JoinInv, NEW i \in Invites, ConfirmReentry(i)
  PROVE  LinkChange(i)
<1> DEFINE e == contexts[i].enrollment
           link == [invites[i] EXCEPT !.status = "CONSUMED"]
           context == [contexts[i] EXCEPT !.status = "CONFIRMED"]
<1>0. /\ TypeOK /\ LinkInv(i) /\ sessions \in [Keys -> 0..MaxSessions]
  BY SameAgain DEF JoinInv
<1>1. /\ e # i /\ e \in Keys
      /\ users[Owner(e)] = "ACTIVE" /\ Owner(e) \in Keys
      /\ UNCHANGED <<users, enrollments>>
      /\ sessions' = [sessions EXCEPT ![Owner(e)] = 1]
  BY ReentryMoves
<1>2. Confirmable(i) /\ Consume(i) /\ UNCHANGED <<exchanging, graduated>>
  BY DEF ConfirmReentry
<1>3. /\ invites' = [invites EXCEPT ![i] = link] /\ contexts' = [contexts EXCEPT ![i] = context]
      /\ link \in InviteRows /\ link.status = "CONSUMED" /\ link.target = invites[i].target
      /\ context \in ContextRows /\ context.status = "CONFIRMED" /\ context.enrollment = e
  BY <1>0, <1>2, ConsumedRows
<1> HIDE DEF link, context
<1>4. sessions' \in [Keys -> 0..MaxSessions]
  BY <1>0, <1>1, BoundAssumption
<1>5. LinkUpdate(i, link, context, exchanging[i], enrollments[i], users[i])
  BY <1>0, <1>1, <1>2, <1>3, <1>4, SameAgain DEF LinkUpdate
<1>6. invites'[i] = link /\ contexts'[i] = context
  BY <1>0, <1>5, UpdatedRows
<1>7. contexts[i].status = "PENDING"
  BY <1>2 DEF Confirmable
<1>8. Owner(i)' = Owner(i)
  BY <1>3, <1>6 DEF Owner
<1>9. LinkInv(i)'
  <2>1. InOrder(i)' /\ ContextFollows(i)'
    BY <1>0, <1>1, <1>2, <1>3, <1>6, <1>7 DEF LinkInv, InOrder, ContextFollows, Locked
  <2>2. OwnRows(i)'
    BY <1>0, <1>1, <1>3, <1>6, <1>7, <1>8 DEF LinkInv, OwnRows
  <2>3. Joined(e)'
    BY <1>0, <1>1, <1>3, <1>5, <1>7, JoinedStays DEF LinkInv, LeadsBack
  <2>4. LeadsBack(i)'
    BY <1>0, <1>2, <1>3, <1>6, <1>7, <2>3 DEF LinkInv, InOrder, LeadsBack, Locked
  <2>5. TargetStays(i)'
    BY <1>0, <1>1, <1>3, <1>6, <1>7 DEF LinkInv, TargetStays
  <2> QED BY <2>1, <2>2, <2>4, <2>5 DEF LinkInv
<1>10. \A v \in Keys : sessions'[v] > 0 => sessions[v] > 0 \/ users'[v] = "ACTIVE"
  BY <1>0, <1>1
<1> QED BY <1>1, <1>3, <1>5, <1>6, <1>7, <1>9, <1>10 DEF LinkChange

-----------------------------------------------------------------------------
(* Learners: Enrollments and sessions from elsewhere. *)

\* finalize_review, start_evidence_revision and provision_learner: an Enrollment that is in
\* use, or that of the login, changes; open it is only if the index lets it.
LEMMA EnrollmentKeeps ==
  ASSUME JoinInv, NEW e \in Keys, NEW status \in Entered,
         enrollments[e] \in Entered \/ e = Known,
         status = "ACTIVE" => UniqueOpen(Owner(e), e),
         enrollments' = [enrollments EXCEPT ![e] = status],
         UNCHANGED <<invites, contexts, exchanging, users>>,
         graduated' \subseteq Keys, sessions' \in [Keys -> 0..MaxSessions],
         \A u \in Keys : sessions'[u] > 0 => sessions[u] > 0 \/ users[u] = "ACTIVE"
  PROVE  JoinInv'
<1>0. /\ JoinInv /\ TypeOK /\ enrollments \in [Keys -> EnrollmentStatuses]
      /\ Known \in Keys /\ Known \notin Invites /\ Invites \subseteq Keys
  BY TablesTyped DEF JoinInv
<1>1. /\ enrollments' \in [Keys -> EnrollmentStatuses] /\ enrollments'[e] = status
      /\ \A f \in Keys : f # e => enrollments'[f] = enrollments[f]
  BY <1>0 DEF Entered, EnrollmentStatuses
<1>2. TypeOK'
  BY <1>0, <1>1 DEF TypeOK, EnrollmentStatuses
<1>3. KnownStays' /\ InIsActive'
  BY <1>0, <1>1 DEF JoinInv, KnownStays, InIsActive, Entered
<1>4. \A f \in Keys : Owner(f)' = Owner(f)
  BY DEF Owner
<1>5. OneOpen'
  <2> SUFFICES ASSUME NEW f \in Keys, NEW g \in Keys,
                      enrollments'[f] \in Open, enrollments'[g] \in Open, Owner(f) = Owner(g), f # g
               PROVE  FALSE
    BY <1>4 DEF OneOpen
  <2>1. ASSUME NEW h \in Keys, h # e, enrollments'[h] \in Open, Owner(h) = Owner(e), status \in Open
        PROVE  FALSE
    <3>1. h \in OpenOf(Owner(e))
      BY <1>1, <2>1 DEF OpenOf, EnrollmentsOf, Open
    <3>2. UniqueOpen(Owner(e), e)
      BY <2>1 DEF Open, Entered
    <3> QED BY <2>1, <3>1, <3>2 DEF UniqueOpen
  <2>2. CASE f # e /\ g # e
    BY <1>0, <1>1, <2>2 DEF JoinInv, OneOpen
  <2>3. CASE f = e
    BY <1>1, <2>1, <2>3
  <2>4. CASE g = e
    BY <1>1, <2>1, <2>4
  <2> QED BY <2>2, <2>3, <2>4
<1>6. ASSUME NEW i \in Invites PROVE LinkInv(i)'
  <2>1. InOrder(i) /\ ContextFollows(i) /\ OwnRows(i) /\ LeadsBack(i) /\ TargetStays(i)
    BY <1>0 DEF JoinInv, LinkInv
  <2>2. ContextFollows(i)' /\ LeadsBack(i)' /\ TargetStays(i)'
    BY <2>1 DEF ContextFollows, LeadsBack, TargetStays, Joined, Locked
  <2>3. enrollments'[i] = enrollments[i] \/ (enrollments[i] \in Entered /\ enrollments'[i] \in Entered)
    BY <1>0, <1>1
  <2>4. InOrder(i)'
    BY <2>1, <2>3 DEF InOrder, Locked, Entered
  <2>5. OwnRows(i)'
    BY <1>0, <1>4, <2>1, <2>3 DEF OwnRows, Entered
  <2> QED BY <2>2, <2>4, <2>5 DEF LinkInv
<1> QED BY <1>2, <1>3, <1>5, <1>6 DEF JoinInv

\* A sign-in and the end of a session change who is in.
LEMMA SessionsKeep ==
  ASSUME JoinInv, UNCHANGED <<invites, contexts, exchanging, users, enrollments, graduated>>,
         sessions' \in [Keys -> 0..MaxSessions],
         \A u \in Keys : sessions'[u] > 0 => sessions[u] > 0 \/ users[u] = "ACTIVE"
  PROVE  JoinInv'
<1>1. TypeOK' /\ KnownStays' /\ InIsActive' /\ OneOpen'
  BY DEF JoinInv, TypeOK, KnownStays, InIsActive, OneOpen, Owner
<1>2. \A i \in Invites : LinkInv(i)'
  BY DEF JoinInv, LinkInv, InOrder, ContextFollows, OwnRows, LeadsBack, TargetStays, Joined, Locked, Owner
<1> QED BY <1>1, <1>2 DEF JoinInv

\* migrate_completion_code: the account it retires was joined by no link.
LEMMA MigrateKeeps ==
  ASSUME JoinInv, MigrateCompletionCode
  PROVE  JoinInv'
<1>0. /\ JoinInv /\ TypeOK /\ users \in [Keys -> UserStatuses] /\ sessions \in [Keys -> 0..MaxSessions]
      /\ Known \in Keys /\ Known \notin Invites /\ Invites \subseteq Keys
  BY TablesTyped DEF JoinInv
<1>1. /\ users' = [users EXCEPT ![Known] = "DISABLED"]
      /\ sessions' = [sessions EXCEPT ![Known] = 0]
      /\ UNCHANGED <<invites, contexts, exchanging, enrollments, graduated>>
      /\ \A i \in Invites : ~ (invites[i].target = Known /\ contexts[i].enrollment = i
                               /\ contexts[i].status = "CONFIRMED")
  BY DEF MigrateCompletionCode
<1>2. /\ users' \in [Keys -> UserStatuses] /\ users'[Known] = "DISABLED"
      /\ \A u \in Keys : u # Known => users'[u] = users[u]
      /\ sessions' \in [Keys -> 0..MaxSessions] /\ sessions'[Known] = 0
      /\ \A u \in Keys : u # Known => sessions'[u] = sessions[u]
  BY <1>0, <1>1, BoundAssumption DEF UserStatuses
<1>3. TypeOK' /\ KnownStays' /\ OneOpen'
  BY <1>0, <1>1, <1>2 DEF JoinInv, TypeOK, KnownStays, OneOpen, UserStatuses, Owner
<1>4. InIsActive'
  BY <1>0, <1>2 DEF JoinInv, InIsActive
<1>5. ASSUME NEW i \in Invites PROVE LinkInv(i)'
  <2>1. InOrder(i) /\ ContextFollows(i) /\ OwnRows(i) /\ LeadsBack(i) /\ TargetStays(i)
    BY <1>0 DEF JoinInv, LinkInv
  <2>2. i \in Keys /\ i # Known /\ users'[i] = users[i] /\ Owner(i)' = Owner(i) /\ Owner(i) \in Keys
    BY <1>0, <1>1, <1>2, TablesTyped DEF Owner
  <2>3. InOrder(i)' /\ ContextFollows(i)' /\ LeadsBack(i)'
    BY <1>1, <2>1, <2>2 DEF InOrder, ContextFollows, LeadsBack, Joined, Locked
  <2>4. enrollments[i] \in Entered => Owner(i) # Known
    BY <1>1, <2>1, <2>2 DEF OwnRows, Owner
  <2>5. OwnRows(i)'
    BY <1>1, <1>2, <2>1, <2>2, <2>4 DEF OwnRows
  <2>6. TargetStays(i)'
    <3>1. invites[i].target # NoOne => invites[i].target \in Keys
      BY <1>0, SameAgain DEF InviteRows
    <3> QED BY <1>1, <1>2, <2>1, <3>1 DEF TargetStays, Locked
  <2> QED BY <2>3, <2>5, <2>6 DEF LinkInv
<1> QED BY <1>3, <1>4, <1>5 DEF JoinInv

\* cancel_enrollment: an Enrollment that still waits for its join takes its link with it,
\* since no other leads to it.
LEMMA CancelKeeps ==
  ASSUME JoinInv, NEW e \in Keys, CancelEnrollment(e)
  PROVE  JoinInv'
<1>0. /\ JoinInv /\ TypeOK /\ enrollments \in [Keys -> EnrollmentStatuses]
      /\ invites \in [Invites -> InviteRows] /\ contexts \in [Invites -> ContextRows]
      /\ NoOne \notin Keys /\ Known \in Keys /\ Known \notin Invites /\ Invites \subseteq Keys
  BY TablesTyped DEF JoinInv
<1>1. /\ enrollments' = [enrollments EXCEPT ![e] = "CANCELLED"] /\ enrollments[e] \in Open
      /\ UNCHANGED <<exchanging, users, graduated, sessions>>
  BY DEF CancelEnrollment
<1>2. /\ enrollments' \in [Keys -> EnrollmentStatuses] /\ enrollments'[e] = "CANCELLED"
      /\ \A f \in Keys : f # e => enrollments'[f] = enrollments[f]
  BY <1>0, <1>1 DEF EnrollmentStatuses
<1> DEFINE Same(i) == invites'[i] = invites[i] /\ contexts'[i] = contexts[i]
           Taken(i) == /\ contexts[i].status = "PENDING" /\ ~ Locked(i) /\ contexts[i].enrollment = e
                       /\ contexts'[i].status = "REVOKED" /\ contexts'[i].enrollment = e
                       /\ invites'[i].target = invites[i].target
                       /\ invites'[i].late = invites[i].late
                       /\ invites'[i].status =
                            IF invites[i].status = "ACTIVE" THEN "REVOKED" ELSE invites[i].status
           Led == /\ invites' \in [Invites -> InviteRows] /\ contexts' \in [Invites -> ContextRows]
                  /\ \A i \in Invites : Same(i) \/ Taken(i)
                  /\ \A i \in Invites : contexts[i].enrollment = e /\ contexts[i].status = "PENDING"
                       /\ (\A j \in Invites : contexts[j].enrollment = e => j = i) => Taken(i)
<1>3. Led
  <2>1. CASE UNCHANGED <<invites, contexts>> /\ ~ \E i \in Invites : contexts[i].enrollment = e
    BY <1>0, <2>1
  <2>2. ASSUME NEW i \in Invites, contexts[i].enrollment = e,
               contexts[i].status # "PENDING", UNCHANGED <<invites, contexts>>
        PROVE  Led
    BY <1>0, <2>2
  <2>3. ASSUME NEW i \in Invites, contexts[i].enrollment = e, contexts[i].status = "PENDING", ~ Locked(i),
               contexts' = [contexts EXCEPT ![i].status = "REVOKED"],
               invites' = [invites EXCEPT ![i].status = IF @ = "ACTIVE" THEN "REVOKED" ELSE @]
        PROVE  Led
    <3> DEFINE status == IF invites[i].status = "ACTIVE" THEN "REVOKED" ELSE invites[i].status
    <3>1. status \in {"NONE", "ACTIVE", "CONSUMED", "REVOKED", "EXPIRED"}
      BY <1>0 DEF InviteRows
    <3>2. /\ contexts' = [contexts EXCEPT ![i] = [contexts[i] EXCEPT !.status = "REVOKED"]]
          /\ invites' = [invites EXCEPT ![i] = [invites[i] EXCEPT !.status = status]]
      BY <2>3
    <3>3. /\ [contexts[i] EXCEPT !.status = "REVOKED"] \in ContextRows
          /\ [contexts[i] EXCEPT !.status = "REVOKED"].status = "REVOKED"
          /\ [contexts[i] EXCEPT !.status = "REVOKED"].enrollment = e
          /\ [invites[i] EXCEPT !.status = status] \in InviteRows
          /\ [invites[i] EXCEPT !.status = status].status = status
          /\ [invites[i] EXCEPT !.status = status].target = invites[i].target
          /\ [invites[i] EXCEPT !.status = status].late = invites[i].late
      <4>1. invites[i] \in InviteRows /\ contexts[i] \in ContextRows
        BY <1>0
      <4> HIDE DEF status
      <4>2. /\ [contexts[i] EXCEPT !.status = "REVOKED"] \in ContextRows
            /\ [contexts[i] EXCEPT !.status = "REVOKED"].status = "REVOKED"
            /\ [contexts[i] EXCEPT !.status = "REVOKED"].enrollment = e
        BY <2>3, <4>1, RowEdits
      <4>3. /\ [invites[i] EXCEPT !.status = status] \in InviteRows
            /\ [invites[i] EXCEPT !.status = status].status = status
            /\ [invites[i] EXCEPT !.status = status].target = invites[i].target
            /\ [invites[i] EXCEPT !.status = status].late = invites[i].late
        BY <3>1, <4>1 DEF InviteRows
      <4> QED BY <4>2, <4>3
    <3>4. /\ invites' \in [Invites -> InviteRows] /\ contexts' \in [Invites -> ContextRows]
          /\ Taken(i) /\ \A j \in Invites : j # i => Same(j)
      BY <1>0, <2>3, <3>2, <3>3
    <3> QED BY <2>3, <3>4
  <2> QED BY <2>1, <2>2, <2>3 DEF CancelEnrollment, RevokeOneLink
<1>4. \A i \in Invites : contexts[i].status = "PENDING" /\ contexts[i].enrollment = e
                         /\ enrollments[e] = "PENDING_IDENTITY" => e = i
  BY WaitingIsOwn
<1>5. ASSUME NEW i \in Invites, contexts[i].status = "PENDING", contexts[i].enrollment = i, e = i
      PROVE  Taken(i)
  <2>1. enrollments[i] = "PENDING_IDENTITY"
    BY <1>5 DEF JoinInv, LinkInv, OwnRows
  <2>2. \A j \in Invites : contexts[j].enrollment = e => j = i
    <3> SUFFICES ASSUME NEW j \in Invites, contexts[j].enrollment = e, j # i PROVE FALSE
      OBVIOUS
    <3>1. contexts[j].status # "NONE"
      BY <1>0 DEF JoinInv, LinkInv, InOrder
    <3>2. contexts[e].status = "CONFIRMED"
      BY <1>5, <3>1 DEF JoinInv, LinkInv, LeadsBack, Joined
    <3> QED BY <1>5, <3>2
  <2> QED BY <1>3, <1>5, <2>2
<1>6. TypeOK'
  BY <1>0, <1>1, <1>2, <1>3 DEF TypeOK, InviteRows, ContextRows, EnrollmentStatuses
<1>7. \A f \in Keys : Owner(f)' = Owner(f)
  BY <1>0, <1>3 DEF Owner, Keys
<1>8. KnownStays' /\ InIsActive'
  BY <1>0, <1>1, <1>2 DEF JoinInv, KnownStays, InIsActive
<1>9. OneOpen'
  BY <1>0, <1>2, <1>7 DEF JoinInv, OneOpen, Open
<1>10. ASSUME NEW i \in Invites PROVE LinkInv(i)'
  <2>1. /\ InOrder(i) /\ ContextFollows(i) /\ OwnRows(i) /\ LeadsBack(i) /\ TargetStays(i)
        /\ Same(i) \/ Taken(i)
        /\ i \in Keys /\ Owner(i)' = Owner(i)
    BY <1>0, <1>3, <1>7 DEF JoinInv, LinkInv
  <2>2. \A f : Joined(f) => Joined(f)'
    BY <1>3 DEF Joined
  <2>3. InOrder(i)'
    BY <1>0, <1>1, <1>2, <2>1 DEF InOrder, Locked, Open
  <2>4. ContextFollows(i)'
    BY <2>1 DEF ContextFollows
  <2>5. OwnRows(i)'
    BY <1>0, <1>1, <1>2, <1>5, <2>1 DEF OwnRows, Entered
  <2>6. LeadsBack(i)'
    BY <1>1, <2>1, <2>2 DEF LeadsBack, Locked
  <2>7. TargetStays(i)'
    BY <1>1, <2>1 DEF TargetStays, Locked
  <2> QED BY <2>3, <2>4, <2>5, <2>6, <2>7 DEF LinkInv
<1> QED BY <1>6, <1>8, <1>9, <1>10 DEF JoinInv

-----------------------------------------------------------------------------
(* Learners: the theorems. *)

\* One known learner, and nothing else.
LEMMA JoinStarts == Init => JoinInv
<1> SUFFICES ASSUME Init PROVE JoinInv
  OBVIOUS
<1>1. NoInvite \in InviteRows /\ NoContext \in ContextRows
  BY ReviewerAssumption DEF NoInvite, InviteRows, NoContext, ContextRows
<1>2. 0 \in 0..MaxSessions
  BY BoundAssumption
<1>3. TypeOK
  BY <1>1, <1>2 DEF Init, TypeOK, InviteRows, ContextRows
<1>4. Known \in Keys /\ NoOne \notin Keys /\ Known \notin Invites /\ Invites \subseteq Keys
  BY NameAssumption DEF Keys
<1>5. KnownStays /\ InIsActive /\ OneOpen
  BY <1>4 DEF Init, KnownStays, InIsActive, OneOpen, Open
<1>6. ASSUME NEW i \in Invites PROVE LinkInv(i)
  <2>1. /\ invites[i].status = "NONE" /\ contexts[i].status = "NONE" /\ contexts[i].enrollment = NoOne
        /\ exchanging[i] = NoOne /\ enrollments[i] = "NONE" /\ users[i] = "NONE"
        /\ invites[i].target = NoOne /\ i # NoOne
    BY <1>4, <1>6 DEF Init, NoInvite, NoContext
  <2> QED BY <2>1 DEF LinkInv, InOrder, ContextFollows, OwnRows, LeadsBack, TargetStays, Locked, Entered
<1> QED BY <1>3, <1>5, <1>6 DEF JoinInv

\* What a link may do.
LinkAction(i) ==
  \/ \E target \in Keys \cup {NoOne}, reviewer \in Reviewers : CreateInvite(i, target, reviewer)
  \/ \E e \in Keys : CreateLearnerReentry(i, e)
  \/ PassExpiry(i) \/ RevokeInvite(i)
  \/ ExchangeLate(i) \/ ExchangeReads(i) \/ ExchangeInserts(i) \/ ExchangeAborts(i)
  \/ ConfirmJoin(i) \/ ConfirmReentry(i)

\* Every step keeps the invariant.
LEMMA JoinStep == JoinInv /\ [Next]_vars => JoinInv'
<1> SUFFICES ASSUME JoinInv, [Next]_vars PROVE JoinInv'
  OBVIOUS
<1>0. /\ TypeOK /\ sessions \in [Keys -> 0..MaxSessions] /\ graduated \subseteq Keys
      /\ enrollments \in [Keys -> EnrollmentStatuses] /\ Known \in Keys /\ Owner(Known) = Known
  BY TablesTyped DEF JoinInv, Owner
<1>1. ASSUME NEW i \in Invites, LinkAction(i) PROVE JoinInv'
  BY <1>1, LinkKeeps, MadeChange, ExpiryChange, RevokeChange, ReadsChange, InsertsChange, AbortsChange,
     JoinChange, ReentryChange DEF LinkAction
<1>2. ASSUME NEW e \in Keys, Complete(e) PROVE JoinInv'
  BY <1>0, <1>2, EnrollmentKeeps DEF Complete, Entered
<1>3. ASSUME NEW e \in Keys, StartEvidenceRevision(e) PROVE JoinInv'
  BY <1>0, <1>3, EnrollmentKeeps DEF StartEvidenceRevision, Entered
<1>4. ASSUME SignIn PROVE JoinInv'
  <2>1. /\ sessions' = [sessions EXCEPT ![Known] = 1] /\ users[Known] = "ACTIVE"
        /\ UNCHANGED <<invites, contexts, exchanging, users, graduated>>
    BY <1>4 DEF SignIn, RotateSessions
  <2>2. /\ sessions' \in [Keys -> 0..MaxSessions]
        /\ \A u \in Keys : sessions'[u] > 0 => sessions[u] > 0 \/ users[u] = "ACTIVE"
    BY <1>0, <2>1, BoundAssumption
  <2>3. CASE EnrollmentsOf(Known) = {}
    <3>1. enrollments' = [enrollments EXCEPT ![Known] = "ACTIVE"]
      BY <1>4, <2>3 DEF SignIn, ProvisionLearner
    <3>2. UniqueOpen(Owner(Known), Known)
      BY <1>0, <2>3 DEF UniqueOpen, OpenOf
    <3> QED BY <1>0, <2>1, <2>2, <3>1, <3>2, EnrollmentKeeps DEF Entered
  <2>4. CASE EnrollmentsOf(Known) # {}
    <3>1. enrollments' = enrollments
      BY <1>4, <2>4 DEF SignIn, ProvisionLearner
    <3> QED BY <2>1, <2>2, <3>1, SessionsKeep
  <2> QED BY <2>3, <2>4
<1>5. ASSUME NEW u \in Keys, SessionEnds(u) PROVE JoinInv'
  <2>1. /\ sessions[u] > 0 /\ sessions' = [sessions EXCEPT ![u] = @ - 1]
        /\ UNCHANGED <<invites, contexts, exchanging, users, enrollments, graduated>>
    BY <1>5 DEF SessionEnds
  <2>2. sessions[u] - 1 \in 0..MaxSessions
    BY <1>0, <2>1, BoundAssumption
  <2>3. /\ sessions' \in [Keys -> 0..MaxSessions]
        /\ \A v \in Keys : sessions'[v] > 0 => sessions[v] > 0 \/ users[v] = "ACTIVE"
    BY <1>0, <2>1, <2>2
  <2> QED BY <2>1, <2>3, SessionsKeep
<1>6. CASE UNCHANGED vars
  <2>1. UNCHANGED <<invites, contexts, exchanging, users, enrollments, graduated, sessions>>
    BY <1>6 DEF vars
  <2> QED BY <1>0, <2>1, SessionsKeep
<1> QED BY <1>1, <1>2, <1>3, <1>4, <1>5, <1>6, CancelKeeps, MigrateKeeps DEF Next, LinkAction

\* The invariant of the learners' side, in every reachable state.
THEOREM JoinInvariant == Spec => []JoinInv
<1> QED BY JoinStarts, JoinStep, PTL DEF Spec

\* revoke_invite, and the expiry of a link: once it is taken back nobody holds a context of
\* it that was or can be confirmed, its user is not in and its Enrollment is not in use.
THEOREM TakenBackIsShut == Spec => []TakenBackOpensNothing
<1>1. JoinInv => TakenBackOpensNothing
  <2> SUFFICES ASSUME JoinInv, NEW i \in Invites, invites[i].status \in {"REVOKED", "EXPIRED"}
               PROVE  /\ contexts[i].status # "CONFIRMED"
                      /\ contexts[i].status = "PENDING" => contexts[i].late
                      /\ users[i] # "ACTIVE" /\ sessions[i] = 0
                      /\ enrollments[i] \notin Entered
                      /\ invites[i].status = "REVOKED" => enrollments[i] # "PENDING_IDENTITY"
    BY DEF TakenBackOpensNothing
  <2>1. ContextFollows(i) /\ OwnRows(i)
    BY DEF JoinInv, LinkInv
  <2>2. sessions[i] \in 0..MaxSessions /\ i \in Keys
    BY SameAgain DEF JoinInv
  <2>3. users[i] # "ACTIVE"
    BY <2>1 DEF ContextFollows, OwnRows
  <2>4. sessions[i] = 0
    BY <2>2, <2>3, BoundAssumption DEF JoinInv, InIsActive
  <2> QED BY <2>1, <2>3, <2>4 DEF ContextFollows, OwnRows
<1> QED BY <1>1, JoinInvariant, PTL

\* exchange_invite, confirm_identity, migrate_completion_code and cancel_enrollment: an
\* Enrollment is in use only through the confirmed context of its link and by an active
\* user, and no learner has two open ones.
THEOREM JoinsAreWhole == Spec => []JoinIsAllOrNothing
<1>1. JoinInv => JoinIsAllOrNothing
  <2> SUFFICES ASSUME JoinInv PROVE JoinIsAllOrNothing
    OBVIOUS
  <2>1. ASSUME NEW u \in Keys PROVE Cardinality(OpenOf(u)) <= 1
    <3>1. \A e, f \in OpenOf(u) : e = f
      BY DEF JoinInv, OneOpen, OpenOf, EnrollmentsOf
    <3>2. CASE OpenOf(u) = {}
      BY <3>2, FS_EmptySet
    <3>3. CASE OpenOf(u) # {}
      <4>1. PICK e \in OpenOf(u) : TRUE
        BY <3>3
      <4>2. OpenOf(u) = {e}
        BY <3>1, <4>1
      <4>3. Cardinality(OpenOf(u)) = 1
        BY <4>2, FS_Singleton, Zenon
      <4> QED BY <4>3
    <3> QED BY <3>2, <3>3
  <2>2. \A i \in Invites : enrollments[i] \in Entered =>
          /\ invites[i].status = "CONSUMED"
          /\ contexts[i].status = "CONFIRMED" /\ contexts[i].enrollment = i
          /\ users[Owner(i)] = "ACTIVE"
    BY DEF JoinInv, LinkInv, ContextFollows, OwnRows
  <2> QED BY <2>1, <2>2 DEF JoinInv, InIsActive, JoinIsAllOrNothing
<1> QED BY <1>1, JoinInvariant, PTL

\* What ReentryPreserves says of a step.
PreservingStep == \A i \in Invites :
  (invites'[i].status = "CONSUMED" /\ invites[i].status = "ACTIVE"
     /\ contexts[i].enrollment # i) =>
    LET e == contexts[i].enrollment IN
    /\ UNCHANGED <<users, enrollments>>
    /\ enrollments[e] \in Entered
    /\ sessions' = [sessions EXCEPT ![Owner(e)] = 1]

\* Only a confirmation consumes a link, its own.
LEMMA WhoConsumes ==
  ASSUME JoinInv, Next, NEW i \in Invites,
         invites'[i].status = "CONSUMED", invites[i].status # "CONSUMED"
  PROVE  ConfirmJoin(i) \/ ConfirmReentry(i)
<1>0. invites \in [Invites -> InviteRows]
  BY TablesTyped DEF JoinInv
<1>1. ASSUME NEW j \in Invites, ConfirmJoin(j) \/ ConfirmReentry(j) PROVE j = i
  <2>1. invites' = [invites EXCEPT ![j].status = "CONSUMED"]
    BY <1>1 DEF ConfirmJoin, ConfirmReentry, Consume
  <2> QED BY <1>0, <2>1
<1>2. ASSUME NEW j \in Invites, NEW status \in {"ACTIVE", "REVOKED", "EXPIRED"},
             invites' = [invites EXCEPT ![j].status = status]
      PROVE  FALSE
  BY <1>0, <1>2 DEF InviteRows
<1>3. ~ UNCHANGED invites
  OBVIOUS
<1>4. \A j \in Invites : ~ RevokeInvite(j) /\ ~ ExchangeLate(j)
  BY <1>2 DEF RevokeInvite, ExchangeLate
<1>5. \A j \in Invites : ~ PassExpiry(j)
  <2> SUFFICES ASSUME NEW j \in Invites, PassExpiry(j) PROVE FALSE
    OBVIOUS
  <2>1. invites' = [invites EXCEPT ![j].late = TRUE]
    BY <1>3 DEF PassExpiry
  <2> QED BY <1>0, <2>1 DEF InviteRows
<1>6. ASSUME NEW j \in Invites, NEW link, invites' = [invites EXCEPT ![j] = link], link.status = "ACTIVE"
      PROVE  FALSE
  BY <1>0, <1>6
<1>7. \A j \in Invites : /\ \A target \in Keys \cup {NoOne}, reviewer \in Reviewers :
                              ~ CreateInvite(j, target, reviewer)
                         /\ \A e \in Keys : ~ CreateLearnerReentry(j, e)
  <2> SUFFICES ASSUME NEW j \in Invites,
                      \/ \E target \in Keys \cup {NoOne}, reviewer \in Reviewers : CreateInvite(j, target, reviewer)
                      \/ \E e \in Keys : CreateLearnerReentry(j, e)
               PROVE  FALSE
    OBVIOUS
  <2>1. CASE \E target \in Keys \cup {NoOne}, reviewer \in Reviewers : CreateInvite(j, target, reviewer)
    <3>1. PICK target \in Keys \cup {NoOne}, reviewer \in Reviewers : CreateInvite(j, target, reviewer)
      BY <2>1
    <3> DEFINE link == [NoInvite EXCEPT !.status = "ACTIVE", !.target = target, !.reviewer = reviewer]
    <3>2. invites' = [invites EXCEPT ![j] = link] /\ link.status = "ACTIVE"
      BY <3>1 DEF CreateInvite, NoInvite
    <3> QED BY <1>6, <3>2
  <2>2. CASE \E e \in Keys : CreateLearnerReentry(j, e)
    <3>1. PICK e \in Keys : CreateLearnerReentry(j, e)
      BY <2>2
    <3> DEFINE link == [status |-> "ACTIVE", target |-> Owner(e), goal |-> e,
                        reviewer |-> ReviewerOf(e), late |-> FALSE]
    <3>2. invites' = [invites EXCEPT ![j] = link] /\ link.status = "ACTIVE"
      BY <3>1 DEF CreateLearnerReentry
    <3> QED BY <1>6, <3>2
  <2> QED BY <2>1, <2>2
<1>8. \A e \in Keys : ~ CancelEnrollment(e)
  <2> SUFFICES ASSUME NEW e \in Keys, CancelEnrollment(e) PROVE FALSE
    OBVIOUS
  <2>1. PICK j \in Invites :
          invites' = [invites EXCEPT ![j].status = IF @ = "ACTIVE" THEN "REVOKED" ELSE @]
    BY <1>3 DEF CancelEnrollment, RevokeOneLink
  <2>2. invites' = [invites EXCEPT ![j] = [invites[j] EXCEPT !.status =
                      IF invites[j].status = "ACTIVE" THEN "REVOKED" ELSE invites[j].status]]
    BY <2>1
  <2> QED BY <1>0, <2>2 DEF InviteRows
<1>9. \A j \in Invites : ~ ExchangeReads(j) /\ ~ ExchangeInserts(j) /\ ~ ExchangeAborts(j)
  BY <1>3 DEF ExchangeReads, ExchangeInserts, ExchangeAborts
<1>10. /\ \A e \in Keys : ~ Complete(e) /\ ~ StartEvidenceRevision(e) /\ ~ SessionEnds(e)
       /\ ~ SignIn /\ ~ MigrateCompletionCode
  BY <1>3 DEF Complete, StartEvidenceRevision, SessionEnds, SignIn, MigrateCompletionCode
<1> QED BY <1>1, <1>4, <1>5, <1>7, <1>8, <1>9, <1>10 DEF Next

\* confirm_identity of a re-entry: it changes no user and no Enrollment, whatever became of
\* them since the exchange, enters only what is in use, and leaves one session.
THEOREM ReentryChangesNothing == Spec => ReentryPreserves
<1>1. JoinInv /\ [Next]_vars => [PreservingStep]_vars
  <2> SUFFICES ASSUME JoinInv, Next, NEW i \in Invites,
                      invites'[i].status = "CONSUMED", invites[i].status = "ACTIVE",
                      contexts[i].enrollment # i
               PROVE  LET e == contexts[i].enrollment IN
                      /\ UNCHANGED <<users, enrollments>>
                      /\ enrollments[e] \in Entered
                      /\ sessions' = [sessions EXCEPT ![Owner(e)] = 1]
    BY DEF PreservingStep
  <2>1. ConfirmJoin(i) \/ ConfirmReentry(i)
    BY WhoConsumes
  <2>2. ~ ConfirmJoin(i)
    BY WaitingIsOwn DEF ConfirmJoin, Confirmable
  <2> QED BY <2>1, <2>2, ReentryMoves
<1> QED BY <1>1, JoinInvariant, PTL DEF Spec, ReentryPreserves, PreservingStep
===============================================================================
