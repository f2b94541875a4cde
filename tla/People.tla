------------------------------- MODULE People -------------------------------
(***************************************************************************)
(* People: the identities (apps) a person is made of, the name and the     *)
(* role they share, the codes that link a new app to a person, and the     *)
(* moderation that takes all of it away.  Every action is one request of   *)
(* the hub, so one transaction.                                            *)
(*                                                                         *)
(* A request that is refused changes nothing and is not a step.  That      *)
(* covers the limits on how often codes may be asked for and guessed.      *)
(* The length of a ban and the age of a code are not kept: a ban may run   *)
(* out, and a code expire, at any time.                                    *)
(***************************************************************************)
EXTENDS Naturals, FiniteSets, Functions

CONSTANTS
    Identities,  \* Reticulum identities, one for each app
    Owners,      \* those the configuration lists as admins
    Persons,     \* row IDs of people; SQLite gives a free one to a new row
    Names,       \* names that can be claimed, by skeleton
    Codes,       \* link codes
    MaxApps,     \* maxAppsPerPerson
    Guest,       \* a guest name: nobody can claim one
    None

ASSUME PeopleConstants ==
    /\ Owners \subseteq Identities
    /\ None \notin Persons \cup Names \cup Identities
    /\ Guest \notin Names /\ Guest # None
    /\ MaxApps \in Nat

VARIABLES
    person,      \* person[i]: the person i is an app of; None: never seen
    role,        \* role[p]: the role stored with the person
    name,        \* name[p]: the name the person holds
    ban,         \* ban[i]: the name i was banned under; None: not banned
    inside,      \* the identities in the LXMF group or in a room over RRC
    codes        \* codes[c]: the code's row, or None

peopleVars == <<person, role, name, ban, inside, codes>>

RankMember == 0
RankMod == 1
RankAdmin == 2
RankOwner == 3

Code == [issuedBy : Identities, person : Persons, redeemedBy : Identities \cup {None}]

PeopleInit ==
    /\ person = [i \in Identities |-> None]
    /\ role = [p \in Persons |-> RankMember]
    /\ name = [p \in Persons |-> None]
    /\ ban = [i \in Identities |-> None]
    /\ inside = {}
    /\ codes = [c \in Codes |-> None]
----------------------------------------------------------------------------
(* Who is who *)

Known(i) == person[i] # None
Banned(i) == ban[i] # None
AppsOfPerson(p) == {i \in Identities : person[i] = p}

\* An identity never seen is on its own.
IdentitiesOf(i) == IF Known(i) THEN AppsOfPerson(person[i]) ELSE {i}

\* The rank the rank rule compares: an owner's other apps share it.
PersonRank(p) == IF AppsOfPerson(p) \cap Owners # {} THEN RankOwner ELSE role[p]
RankOf(i) == IF Known(i) THEN PersonRank(person[i])
             ELSE IF i \in Owners THEN RankOwner ELSE RankMember

\* What one identity can do: an owner's other apps are admins.
IdentityRank(i) ==
    IF i \in Owners THEN RankOwner
    ELSE IF RankOf(i) = RankOwner THEN RankAdmin ELSE RankOf(i)

\* A command is refused to a banned identity, and makes a new one known first.
Command(a) == Known(a) /\ ~Banned(a)

SamePerson(a, t) == Known(t) /\ person[a] = person[t]

\* may, for the actions on someone else.
May(a, rank, t) ==
    /\ IdentityRank(a) >= rank
    /\ ~SamePerson(a, t)
    /\ RankOf(t) # RankOwner
    /\ IdentityRank(a) = RankOwner \/ RankOf(t) < IdentityRank(a)
----------------------------------------------------------------------------
(* Arriving, names, coming and going *)

Fresh == {p \in Persons : AppsOfPerson(p) = {}}

\* newPerson for each of S: rows of their own, without name or role.
Scatter(S) == \E f \in Injection(S, Fresh) :
                 person' = [i \in Identities |-> IF i \in S THEN f[i] ELSE person[i]]

Identify(i) ==
    /\ ~Known(i) /\ ~Banned(i)
    /\ Scatter({i})
    /\ UNCHANGED <<role, name, ban, inside, codes>>

Free(n, p) == \A q \in Persons : name[q] = n => q = p

\* The store's ClaimName, ReleaseName and SetRank.
SetName(p, n) == name' = [name EXCEPT ![p] = n]
ReleaseName(p) == name' = [name EXCEPT ![p] = None]
SetRank(p, rank) == role' = [role EXCEPT ![p] = rank]

\* /nick, a HELLO's nick and the page's name field.  The last two check for a
\* ban in an earlier request, and the ban may have come since.
ClaimName(i, n) ==
    /\ Known(i)
    /\ Free(n, person[i])
    /\ SetName(person[i], n)
    /\ UNCHANGED <<person, role, ban, inside, codes>>

\* A JOIN over RRC or a /join of the LXMF group.
Enter(i) ==
    /\ Known(i) /\ ~Banned(i)
    /\ inside' = inside \cup {i}
    /\ UNCHANGED <<person, role, name, ban, codes>>

\* A PART, a closed link or a /leave.
Leave(i) ==
    /\ i \in inside
    /\ inside' = inside \ {i}
    /\ UNCHANGED <<person, role, name, ban, codes>>

\* /forget: out of the LXMF group (not out of a room), every other app a person
\* of its own, the name free.  The role stays.
Forget(a) ==
    /\ Command(a)
    /\ \E left \in SUBSET ({a} \cap inside) :
        /\ name[person[a]] # None \/ left # {}
        /\ inside' = inside \ left
    /\ Scatter(AppsOfPerson(person[a]) \ {a})
    /\ ReleaseName(person[a])
    /\ UNCHANGED <<role, ban, codes>>
----------------------------------------------------------------------------
(* Linking *)

\* A person has at most one code not yet redeemed (PutLinkCode).
Unredeemed(c) == codes[c] # None /\ codes[c].redeemedBy = None

PutLinkCode(a, c) ==
    codes' = [d \in Codes |->
        IF d = c THEN [issuedBy |-> a, person |-> person[a], redeemedBy |-> None]
        ELSE IF Unredeemed(d) /\ codes[d].person = person[a] THEN None ELSE codes[d]]

LinkIssue(a, c) ==
    /\ Command(a)
    /\ Cardinality(AppsOfPerson(person[a])) < MaxApps
    /\ codes[c] = None
    /\ PutLinkCode(a, c)
    /\ UNCHANGED <<person, role, name, ban, inside>>

\* i becomes an app of the person to, and the code c is used up.  A person left
\* without apps goes, with its role and its codes.
LinkIdentity(i, to, c) ==
    LET from == person[i]
        gone == AppsOfPerson(from) = {i} /\ from # to
    IN  /\ person' = [person EXCEPT ![i] = to]
        /\ role' = IF gone THEN [role EXCEPT ![from] = RankMember] ELSE role
        /\ codes' = [d \in Codes |-> IF d = c \/ (codes[d] # None /\ gone /\ codes[d].person = from)
                                     THEN None ELSE codes[d]]

\* Mutant: the name is left behind with a person who has no app.
LinkNamed(i, to, c) == LinkIdentity(i, to, c) /\ UNCHANGED name

\* link: the name of someone with no other app is free.
Link(i, to, c) ==
    /\ IF AppsOfPerson(person[i]) = {i} THEN ReleaseName(person[i]) ELSE UNCHANGED name
    /\ LinkIdentity(i, to, c)

\* linkRedeem up to its last decision.
MayRedeem(a, c) ==
    /\ Command(a)
    /\ Unredeemed(c)
    /\ ~Banned(codes[c].issuedBy)
    /\ codes[c].person # person[a]
    /\ a \notin Owners
    /\ RankOf(a) <= PersonRank(codes[c].person)
    /\ Cardinality(AppsOfPerson(codes[c].person)) < MaxApps

\* A role holder's code waits for approval.
LinkRedeemPending(a, c) ==
    /\ MayRedeem(a, c)
    /\ PersonRank(codes[c].person) >= RankMod
    /\ codes' = [codes EXCEPT ![c].redeemedBy = a]
    /\ UNCHANGED <<person, role, name, ban, inside>>

\* Mutant: only what the issuing app itself can do is looked at.
LinkRedeemByIssuer(a, c) ==
    /\ MayRedeem(a, c)
    /\ IdentityRank(codes[c].issuedBy) < RankMod
    /\ Link(a, codes[c].person, c)
    /\ UNCHANGED <<ban, inside>>

\* A member's code links at once.
LinkRedeem(a, c) ==
    /\ MayRedeem(a, c)
    /\ PersonRank(codes[c].person) < RankMod
    /\ Link(a, codes[c].person, c)
    /\ UNCHANGED <<ban, inside>>

Pending(a, c) ==
    /\ codes[c] # None
    /\ codes[c].person = person[a]
    /\ codes[c].redeemedBy # None

\* /link approve and /link deny name the redeemer, who must match one code.
Matches(a, c) ==
    /\ Command(a)
    /\ Pending(a, c)
    /\ \A d \in Codes : Pending(a, d) /\ codes[d].redeemedBy = codes[c].redeemedBy => d = c

LinkApprove(a, c) ==
    /\ Matches(a, c)
    /\ ~Banned(codes[c].redeemedBy)
    /\ Link(codes[c].redeemedBy, person[a], c)
    /\ UNCHANGED <<ban, inside>>

\* A denial, or the approval of an app that has been banned since.
LinkDeny(a, c) ==
    /\ Matches(a, c)
    /\ codes' = [codes EXCEPT ![c] = None]
    /\ UNCHANGED <<person, role, name, ban, inside>>

CodeExpires(c) ==
    /\ codes[c] # None
    /\ codes' = [codes EXCEPT ![c] = None]
    /\ UNCHANGED <<person, role, name, ban, inside>>

\* /unlink of an app of one's own, or of someone below.
Unlink(a, t) ==
    /\ Command(a)
    /\ SamePerson(a, t) \/ May(a, RankMod, t)
    /\ Cardinality(IdentitiesOf(t)) > 1
    /\ t \in Owners => t = a
    /\ Scatter({t})
    /\ UNCHANGED <<role, name, ban, inside, codes>>
----------------------------------------------------------------------------
(* Moderation *)

\* Everyone out, the links dissolved, the name free, the role gone.
RemoveEverywhere(t) ==
    /\ inside' = inside \ IdentitiesOf(t)
    /\ Scatter(IdentitiesOf(t) \ {t})
    /\ IF Known(t) THEN ReleaseName(person[t]) ELSE UNCHANGED name
    /\ IF Known(t) /\ RankOf(t) \in {RankMod, RankAdmin}
       THEN SetRank(person[t], RankMember) ELSE UNCHANGED role
    /\ UNCHANGED codes

Kick(a, t) ==
    /\ Command(a)
    /\ May(a, RankMod, t)
    /\ RemoveEverywhere(t)
    /\ UNCHANGED ban

\* What the ban's row is called: a guest's name is made up.
BanName(t) == IF Known(t) /\ name[person[t]] # None THEN name[person[t]] ELSE Guest

AddBan(S, n) == ban' = [i \in Identities |-> IF i \in S THEN n ELSE ban[i]]
RemoveBan(S) == ban' = [i \in Identities |-> IF i \in S THEN None ELSE ban[i]]

\* Mutant: everyone of the person is banned, the app named is put out.
BanOneOut(a, t) ==
    /\ Command(a)
    /\ May(a, RankMod, t)
    /\ AddBan(IdentitiesOf(t), BanName(t))
    /\ inside' = inside \ {t}
    /\ UNCHANGED <<person, role, name, codes>>

Ban(a, t) ==
    /\ Command(a)
    /\ May(a, RankMod, t)
    /\ AddBan(IdentitiesOf(t), BanName(t))
    /\ RemoveEverywhere(t)

\* /unban of a name lifts every ban under it; of an identity, that one.
Unban(a, n) ==
    /\ Command(a)
    /\ IdentityRank(a) >= RankMod
    /\ \E i \in Identities : ban[i] = n
    /\ RemoveBan({i \in Identities : ban[i] = n})
    /\ UNCHANGED <<person, role, name, inside, codes>>

UnbanIdentity(a, i) ==
    /\ Command(a)
    /\ IdentityRank(a) >= RankMod
    /\ Banned(i)
    /\ RemoveBan({i})
    /\ UNCHANGED <<person, role, name, inside, codes>>

\* The bans that have run out by a minute's maintenance.
LiftExpiredBans ==
    /\ \E expired \in SUBSET {i \in Identities : Banned(i)} \ {{}} : RemoveBan(expired)
    /\ UNCHANGED <<person, role, name, inside, codes>>

Rename(a, t, n) ==
    /\ Command(a)
    /\ May(a, RankMod, t)
    /\ ClaimName(t, n)

\* /mod and /admin.
MakeRank(a, t, rank) ==
    /\ Command(a)
    /\ May(a, RankAdmin, t)
    /\ Known(t) /\ RankOf(t) # rank
    /\ SetRank(person[t], rank)
    /\ UNCHANGED <<person, name, ban, inside, codes>>

Demote(a, t) ==
    /\ Command(a)
    /\ May(a, RankAdmin, t)
    /\ Known(t) /\ RankOf(t) # RankMember
    /\ SetRank(person[t], RankMember)
    /\ UNCHANGED <<person, name, ban, inside, codes>>

\* /release, an owner's command: the name only.
Release(a, n) ==
    /\ Command(a)
    /\ IdentityRank(a) = RankOwner
    /\ \E p \in Persons : name[p] = n /\ ReleaseName(p)
    /\ UNCHANGED <<person, role, ban, inside, codes>>

PeopleNext ==
    \/ \E i \in Identities :
        \/ Identify(i) \/ Enter(i) \/ Leave(i) \/ Forget(i)
        \/ \E n \in Names : ClaimName(i, n) \/ Unban(i, n) \/ Release(i, n)
        \/ \E c \in Codes : LinkIssue(i, c) \/ LinkRedeemPending(i, c) \/ LinkRedeem(i, c)
                            \/ LinkApprove(i, c) \/ LinkDeny(i, c)
        \/ \E t \in Identities :
            \/ Unlink(i, t) \/ Kick(i, t) \/ Ban(i, t) \/ UnbanIdentity(i, t) \/ Demote(i, t)
            \/ \E n \in Names : Rename(i, t, n)
            \/ \E rank \in {RankMod, RankAdmin} : MakeRank(i, t, rank)
    \/ \E c \in Codes : CodeExpires(c)
    \/ LiftExpiredBans

PeopleSpec == PeopleInit /\ [][PeopleNext]_peopleVars
----------------------------------------------------------------------------
(* Properties *)

PeopleTypeOK ==
    /\ person \in [Identities -> Persons \cup {None}]
    /\ role \in [Persons -> {RankMember, RankMod, RankAdmin}]
    /\ name \in [Persons -> Names \cup {None}]
    /\ ban \in [Identities -> Names \cup {Guest, None}]
    /\ inside \subseteq Identities
    /\ codes \in [Codes -> Code \cup {None}]

\* A banned identity is in no room and not in the group, whichever app of theirs
\* the ban named and whatever they had linked or unlinked before (cmdBan).
BannedAreOut == \A i \in Identities : Banned(i) => i \notin inside

\* A name, a role or a code belongs to a person with at least one app, and no
\* two people hold one name.  (A name whose person has no app left would make
\* every lookup of it fail, and a row ID given again would inherit the rest.)
OwnedBySomeone ==
    /\ \A p \in Persons : AppsOfPerson(p) = {} => /\ name[p] = None
                                          /\ role[p] = RankMember
    /\ \A c \in Codes : codes[c] # None => AppsOfPerson(codes[c].person) # {}
    /\ \A p, q \in Persons : name[p] # None /\ name[p] = name[q] => p = q

\* Nobody becomes an app of someone who has a role unless that app redeemed a
\* code of theirs and waited for approval, whatever promotions, links and
\* expiries came between (ADR 0007: "A role holder needs a second approval").
Joins(i, p) == person[i] # p /\ person'[i] = p /\ AppsOfPerson(p) # {}
RoleNeedsApproval ==
    [][\A i \in Identities, p \in Persons :
          Joins(i, p) /\ PersonRank(p) >= RankMod =>
             \E c \in Codes : /\ codes[c] # None
                              /\ codes[c].person = p
                              /\ codes[c].redeemedBy = i]_peopleVars
=============================================================================
