---------------------------- MODULE PeopleProofs ----------------------------
(***************************************************************************)
(* For any number of identities, people, names and codes: a banned         *)
(* identity is nowhere, every name, role and code belongs to a person with *)
(* an app, and nobody becomes an app of a role holder unapproved.          *)
(*                                                                         *)
(* The three need one argument: which steps can leave a person without     *)
(* apps.  Taking apps away gives each of them a row of its own, and always *)
(* leaves the person one (Scattered); only a link can empty a person, and  *)
(* it takes the name, the role and the codes with it.                      *)
(*                                                                         *)
(* And for any number of apps and of messages: a recorded pause keeps its  *)
(* point, and the note at its end counts exactly what was missed.  The     *)
(* argument rests on the persons being a partition of the apps.  Then the  *)
(* apps whose pause a join begins, or a part ends, are the ones that       *)
(* autoPauseChanged goes through: the same person's members on auto.  An   *)
(* app whose pause was on before is not among them, so its cursor stays.   *)
(***************************************************************************)
EXTENDS People, Pause, FiniteSetTheorems, TLAPS

PeopleInv == PeopleTypeOK /\ BannedAreOut /\ OwnedBySomeone

\* Whoever has an app keeps one.
NobodyLeft == \A p \in Persons : AppsOfPerson(p) # {} => AppsOfPerson(p)' # {}

\* Taking S away leaves every person of it another app.
OthersStay(S) == \A i \in S : Known(i) => \E j \in Identities \ S : person[j] = person[i]

\* Apps that are taken away get rows nobody had, and nobody is left without.
LEMMA Scattered ==
    ASSUME PeopleTypeOK, NEW S \in SUBSET Identities, Scatter(S), OthersStay(S)
    PROVE  /\ person' \in [Identities -> Persons \cup {None}]
           /\ NobodyLeft
           /\ \A i \in Identities, p \in Persons : ~Joins(i, p)
<1>1. PICK f \in Injection(S, Fresh) :
          person' = [i \in Identities |-> IF i \in S THEN f[i] ELSE person[i]]
  BY DEF Scatter
<1>2. \A i \in S : f[i] \in Persons /\ AppsOfPerson(f[i]) = {}
  BY <1>1 DEF Injection, Fresh
<1>3. person' \in [Identities -> Persons \cup {None}]
  BY <1>1, <1>2 DEF PeopleTypeOK
<1>4. ASSUME NEW p \in Persons, AppsOfPerson(p) # {} PROVE AppsOfPerson(p)' # {}
  <2>1. PICK i \in Identities : person[i] = p
    BY <1>4 DEF AppsOfPerson
  <2>2. PICK j \in Identities \ S : person[j] = p
    BY <2>1, PeopleConstants DEF OthersStay, Known
  <2>3. person'[j] = p
    BY <1>1, <2>2
  <2> QED BY <2>3 DEF AppsOfPerson
<1>5. ASSUME NEW i \in Identities, NEW p \in Persons PROVE ~Joins(i, p)
  BY <1>1, <1>2 DEF Joins
<1> QED BY <1>3, <1>4, <1>5 DEF NobodyLeft

\* A step that takes names, roles and codes away but leaves everyone an app.
LEMMA OwnedKept ==
    ASSUME OwnedBySomeone, NobodyLeft,
           \A p \in Persons : name'[p] \in {name[p], None},
           \A p \in Persons : role'[p] \in {role[p], RankMember},
           \A c \in Codes : codes'[c] # None =>
               codes[c] # None /\ codes'[c].person = codes[c].person /\ codes[c].person \in Persons
    PROVE  OwnedBySomeone'
<1>1. ASSUME NEW p \in Persons, AppsOfPerson(p)' = {} PROVE name'[p] = None /\ role'[p] = RankMember
  BY <1>1 DEF NobodyLeft, OwnedBySomeone
<1>2. ASSUME NEW c \in Codes, codes'[c] # None PROVE AppsOfPerson(codes[c].person)' # {}
  BY <1>2 DEF NobodyLeft, OwnedBySomeone
<1>3. ASSUME NEW p \in Persons, NEW q \in Persons, name'[p] # None, name'[p] = name'[q] PROVE p = q
  BY <1>3 DEF OwnedBySomeone
<1> QED BY <1>1, <1>2, <1>3 DEF OwnedBySomeone

\* The parts of a code that is on the books.
LEMMA CodeKept ==
    ASSUME PeopleTypeOK, NEW c \in Codes, codes[c] # None
    PROVE  /\ codes[c] \in Code
           /\ codes[c].person \in Persons
           /\ codes[c].issuedBy \in Identities
           /\ codes[c].redeemedBy \in Identities \cup {None}
BY DEF PeopleTypeOK, Code

\* An identity that is known is an app of its person.
LEMMA KnownHasApp ==
    ASSUME PeopleTypeOK, NEW i \in Identities, Known(i)
    PROVE  person[i] \in Persons /\ i \in AppsOfPerson(person[i])
BY DEF PeopleTypeOK, Known, AppsOfPerson
----------------------------------------------------------------------------
\* At first nobody is known.
LEMMA InitPeople == PeopleInit => PeopleInv
<1> SUFFICES ASSUME PeopleInit PROVE PeopleInv
  OBVIOUS
<1>1. PeopleTypeOK
  BY DEF PeopleInit, PeopleTypeOK, RankMember, RankMod, RankAdmin
<1>2. BannedAreOut
  BY DEF PeopleInit, BannedAreOut
<1>3. OwnedBySomeone
  BY DEF PeopleInit, OwnedBySomeone
<1> QED BY <1>1, <1>2, <1>3 DEF PeopleInv

\* Arriving, coming and going.
LEMMA ArrivalSteps ==
    ASSUME PeopleInv, NEW i \in Identities, Identify(i) \/ Enter(i) \/ Leave(i) \/ Forget(i)
    PROVE  PeopleInv'
<1>0. PeopleTypeOK /\ BannedAreOut /\ OwnedBySomeone
  BY DEF PeopleInv
<1>c. \A c \in Codes : codes[c] # None => codes[c].person \in Persons
  BY <1>0, CodeKept
<1>1. CASE Identify(i)
  <2>1. OthersStay({i})
    BY <1>1 DEF Identify, OthersStay
  <2>2. person' \in [Identities -> Persons \cup {None}] /\ NobodyLeft
    BY <1>0, <1>1, <2>1, Scattered DEF Identify
  <2>3. PeopleTypeOK'
    BY <1>0, <1>1, <2>2 DEF Identify, PeopleTypeOK
  <2>4. BannedAreOut'
    BY <1>0, <1>1 DEF Identify, BannedAreOut, Banned
  <2>5. OwnedBySomeone'
    BY <1>0, <1>c, <1>1, <2>2, OwnedKept, Zenon DEF Identify
  <2> QED BY <2>3, <2>4, <2>5 DEF PeopleInv
<1>2. CASE Enter(i) \/ Leave(i)
  <2>1. PeopleTypeOK'
    BY <1>0, <1>2 DEF Enter, Leave, PeopleTypeOK
  <2>2. BannedAreOut'
    BY <1>0, <1>2 DEF Enter, Leave, BannedAreOut, Banned
  <2>3. OwnedBySomeone'
    BY <1>0, <1>2, Zenon DEF Enter, Leave, OwnedBySomeone, AppsOfPerson
  <2> QED BY <2>1, <2>2, <2>3 DEF PeopleInv
<1>3. CASE Forget(i)
  <2> DEFINE p == person[i]
  <2>1. p \in Persons /\ i \in AppsOfPerson(p)
    BY <1>0, <1>3, KnownHasApp DEF Forget, Command
  <2>2. OthersStay(AppsOfPerson(p) \ {i}) /\ AppsOfPerson(p) \ {i} \in SUBSET Identities
    BY <2>1 DEF OthersStay, AppsOfPerson
  <2>3. person' \in [Identities -> Persons \cup {None}] /\ NobodyLeft
    BY <1>0, <1>3, <2>2, Scattered DEF Forget
  <2>4. inside' \subseteq inside
    BY <1>3 DEF Forget
  <2>5. PeopleTypeOK'
    BY <1>0, <1>3, <2>1, <2>3, <2>4, Zenon DEF Forget, ReleaseName, PeopleTypeOK
  <2>6. BannedAreOut'
    BY <1>0, <1>3, <2>4 DEF Forget, BannedAreOut, Banned
  <2>7. \A q \in Persons : name'[q] \in {name[q], None}
    BY <1>0, <1>3, <2>1, Zenon DEF Forget, ReleaseName, PeopleTypeOK
  <2>8. OwnedBySomeone'
    BY <1>0, <1>c, <1>3, <2>3, <2>7, OwnedKept DEF Forget
  <2> QED BY <2>5, <2>6, <2>8 DEF PeopleInv
<1> QED BY <1>1, <1>2, <1>3

\* Names.
LEMMA ClaimStep ==
    ASSUME PeopleInv, NEW i \in Identities, NEW n \in Names, ClaimName(i, n)
    PROVE  PeopleInv'
<1>0. PeopleTypeOK /\ BannedAreOut /\ OwnedBySomeone
  BY DEF PeopleInv
<1>1. person[i] \in Persons /\ AppsOfPerson(person[i]) # {}
  BY <1>0, KnownHasApp DEF ClaimName
<1>2. name' = [name EXCEPT ![person[i]] = n] /\ name \in [Persons -> Names \cup {None}]
  BY <1>0 DEF ClaimName, SetName, PeopleTypeOK
<1>3. UNCHANGED <<person, role, ban, inside, codes>>
  BY DEF ClaimName
<1>4. PeopleTypeOK'
  BY <1>0, <1>1, <1>2, <1>3 DEF PeopleTypeOK
<1>5. BannedAreOut'
  BY <1>0, <1>3 DEF BannedAreOut, Banned
<1>6. \A p \in Persons : AppsOfPerson(p)' = AppsOfPerson(p)
  BY <1>3 DEF AppsOfPerson
<1>7. \A p \in Persons : AppsOfPerson(p)' = {} => name'[p] = None /\ role'[p] = RankMember
  BY <1>0, <1>1, <1>2, <1>3, <1>6 DEF OwnedBySomeone
<1>8. \A c \in Codes : codes'[c] # None => AppsOfPerson(codes[c].person)' # {}
  BY <1>0, <1>3 DEF OwnedBySomeone, AppsOfPerson
<1>9. ASSUME NEW p \in Persons, NEW q \in Persons, name'[p] # None, name'[p] = name'[q] PROVE p = q
  <2>1. \A r \in Persons : name[r] = n => r = person[i]
    BY DEF ClaimName, Free
  <2> QED BY <1>0, <1>1, <1>2, <1>9, <2>1 DEF OwnedBySomeone
<1>10. OwnedBySomeone'
  BY <1>7, <1>8, <1>9 DEF OwnedBySomeone
<1> QED BY <1>4, <1>5, <1>10 DEF PeopleInv

\* An owner's /release.
LEMMA ReleaseStep ==
    ASSUME PeopleInv, NEW i \in Identities, NEW n \in Names, Release(i, n)
    PROVE  PeopleInv'
<1>0. PeopleTypeOK /\ BannedAreOut /\ OwnedBySomeone
  BY DEF PeopleInv
<1>1. PICK p \in Persons : name' = [name EXCEPT ![p] = None]
  BY Zenon DEF Release, ReleaseName
<1>2. UNCHANGED <<person, role, ban, inside, codes>>
  BY DEF Release
<1>3. name \in [Persons -> Names \cup {None}]
  BY <1>0 DEF PeopleTypeOK
<1>4. PeopleTypeOK'
  BY <1>0, <1>1, <1>2, <1>3 DEF PeopleTypeOK
<1>5. BannedAreOut'
  BY <1>0, <1>2 DEF BannedAreOut, Banned
<1>6. NobodyLeft
  BY <1>2 DEF NobodyLeft, AppsOfPerson
<1>7. \A q \in Persons : name'[q] \in {name[q], None}
  BY <1>1, <1>3
<1>8. \A c \in Codes : codes[c] # None => codes[c].person \in Persons
  BY <1>0, CodeKept
<1>9. OwnedBySomeone'
  BY <1>0, <1>2, <1>6, <1>7, <1>8, OwnedKept
<1> QED BY <1>4, <1>5, <1>9 DEF PeopleInv
----------------------------------------------------------------------------
(* Linking *)

\* Only a link can leave a person without apps.
LEMMA LinkStep ==
    ASSUME PeopleInv, NEW i \in Identities, NEW to \in Persons, NEW c \in Codes,
           AppsOfPerson(to) # {}, Link(i, to, c), UNCHANGED <<ban, inside>>
    PROVE  PeopleInv'
<1> DEFINE from == person[i]
           gone == AppsOfPerson(from) = {i} /\ from # to
<1>0. PeopleTypeOK /\ BannedAreOut /\ OwnedBySomeone
  BY DEF PeopleInv
<1>1. /\ person \in [Identities -> Persons \cup {None}]
      /\ role \in [Persons -> {RankMember, RankMod, RankAdmin}]
      /\ name \in [Persons -> Names \cup {None}]
      /\ codes \in [Codes -> Code \cup {None}]
  BY <1>0 DEF PeopleTypeOK
<1>2. person' = [person EXCEPT ![i] = to]
  BY DEF Link, LinkIdentity
<1>3. \A p \in Persons : name'[p] \in {name[p], None} /\ (p = from /\ AppsOfPerson(from) = {i} => name'[p] = None)
  BY <1>1 DEF Link, ReleaseName
<1>4. \A p \in Persons : role'[p] \in {role[p], RankMember} /\ (p = from /\ gone => role'[p] = RankMember)
  BY <1>1 DEF Link, LinkIdentity
<1>5. \A d \in Codes : codes'[d] # None => codes'[d] = codes[d] /\ ~(gone /\ codes[d].person = from)
  BY DEF Link, LinkIdentity
<1>6. PeopleTypeOK'
  <2>1. person' \in [Identities -> Persons \cup {None}]
    BY <1>1, <1>2
  <2>2. name' \in [Persons -> Names \cup {None}]
    BY <1>1 DEF Link, ReleaseName
  <2>3. role' \in [Persons -> {RankMember, RankMod, RankAdmin}]
    BY <1>1, Zenon DEF Link, LinkIdentity
  <2>4. codes' \in [Codes -> Code \cup {None}]
    BY <1>1 DEF Link, LinkIdentity
  <2> QED BY <1>0, <2>1, <2>2, <2>3, <2>4 DEF PeopleTypeOK
<1>7. BannedAreOut'
  BY <1>0 DEF BannedAreOut, Banned
<1>8. ASSUME NEW p \in Persons, AppsOfPerson(p) # {}, AppsOfPerson(p)' = {} PROVE p = from /\ gone
  <2>1. person'[i] = to
    BY <1>1, <1>2
  <2>2. p # to
    BY <1>8, <2>1 DEF AppsOfPerson
  <2>3. \A j \in AppsOfPerson(p) : j = i
    BY <1>1, <1>2, <1>8 DEF AppsOfPerson
  <2>4. p = from /\ AppsOfPerson(p) = {i}
    BY <1>8, <2>3 DEF AppsOfPerson
  <2> QED BY <2>2, <2>4
<1>9. ASSUME NEW p \in Persons, AppsOfPerson(p)' = {} PROVE name'[p] = None /\ role'[p] = RankMember
  <2>1. CASE AppsOfPerson(p) = {}
    BY <1>0, <1>3, <1>4, <2>1 DEF OwnedBySomeone
  <2>2. CASE AppsOfPerson(p) # {}
    BY <1>3, <1>4, <1>8, <1>9, <2>2
  <2> QED BY <2>1, <2>2
<1>10. ASSUME NEW d \in Codes, codes'[d] # None PROVE AppsOfPerson(codes[d].person)' # {}
  <2>1. codes'[d] = codes[d] /\ codes[d] # None /\ ~(gone /\ codes[d].person = from)
    BY <1>5, <1>10, Zenon
  <2>2. codes[d].person \in Persons /\ AppsOfPerson(codes[d].person) # {}
    BY <1>0, <2>1, CodeKept DEF OwnedBySomeone
  <2>3. \A p \in Persons : AppsOfPerson(p) # {} /\ ~(gone /\ p = from) => AppsOfPerson(p)' # {}
    BY <1>8
  <2>4. ASSUME NEW p \in Persons, p = codes'[d].person PROVE AppsOfPerson(p)' # {}
    BY <2>1, <2>2, <2>3, <2>4
  <2> QED BY <2>1, <2>2, <2>4 DEF AppsOfPerson
<1>11. ASSUME NEW p \in Persons, NEW q \in Persons, name'[p] # None, name'[p] = name'[q] PROVE p = q
  BY <1>0, <1>3, <1>11, Zenon DEF OwnedBySomeone
<1>12. OwnedBySomeone'
  BY <1>9, <1>10, <1>11 DEF OwnedBySomeone
<1> QED BY <1>6, <1>7, <1>12 DEF PeopleInv

\* A new code belongs to the person of the app that asked for it.
LEMMA IssueStep ==
    ASSUME PeopleInv, NEW a \in Identities, NEW c \in Codes, LinkIssue(a, c)
    PROVE  PeopleInv'
<1>0. PeopleTypeOK /\ BannedAreOut /\ OwnedBySomeone
  BY DEF PeopleInv
<1>1. person[a] \in Persons /\ AppsOfPerson(person[a]) # {}
  BY <1>0, KnownHasApp DEF LinkIssue, Command
<1>2. UNCHANGED <<person, role, name, ban, inside>>
  BY DEF LinkIssue
<1>3. \A d \in Codes : \/ codes'[d] = None
                       \/ codes'[d] = codes[d]
                       \/ codes'[d] = [issuedBy |-> a, person |-> person[a], redeemedBy |-> None]
  BY DEF LinkIssue, PutLinkCode
<1>4. PeopleTypeOK'
  <2>1. [issuedBy |-> a, person |-> person[a], redeemedBy |-> None] \in Code
    BY <1>1 DEF Code
  <2>2. codes' \in [Codes -> Code \cup {None}]
    BY <1>0, <2>1 DEF LinkIssue, PutLinkCode, PeopleTypeOK
  <2> QED BY <1>0, <1>2, <2>2 DEF PeopleTypeOK
<1>5. BannedAreOut'
  BY <1>0, <1>2 DEF BannedAreOut, Banned
<1>6. \A d \in Codes : codes'[d] # None => AppsOfPerson(codes'[d].person) # {}
  BY <1>0, <1>1, <1>3 DEF OwnedBySomeone
<1>7. OwnedBySomeone'
  BY <1>0, <1>2, <1>6 DEF OwnedBySomeone, AppsOfPerson
<1> QED BY <1>4, <1>5, <1>7 DEF PeopleInv

\* A code is redeemed and waits, is denied or expires.
LEMMA CodeSteps ==
    ASSUME PeopleInv, NEW c \in Codes,
           \/ \E a \in Identities : LinkRedeemPending(a, c) \/ LinkDeny(a, c)
           \/ CodeExpires(c)
    PROVE  PeopleInv'
<1>0. PeopleTypeOK /\ BannedAreOut /\ OwnedBySomeone
  BY DEF PeopleInv
<1>1. codes[c] \in Code
  BY <1>0, CodeKept DEF LinkRedeemPending, MayRedeem, Unredeemed, LinkDeny, Matches, Pending, CodeExpires
<1>2. UNCHANGED <<person, role, name, ban, inside>>
  BY DEF LinkRedeemPending, LinkDeny, CodeExpires
<1>3. \/ codes' = [codes EXCEPT ![c] = None]
      \/ \E a \in Identities : codes' = [codes EXCEPT ![c].redeemedBy = a]
  BY DEF LinkRedeemPending, LinkDeny, CodeExpires
<1>4. codes \in [Codes -> Code \cup {None}]
  BY <1>0 DEF PeopleTypeOK
<1>5. codes' \in [Codes -> Code \cup {None}]
  BY <1>1, <1>3, <1>4 DEF Code
<1>6. PeopleTypeOK'
  BY <1>0, <1>2, <1>5 DEF PeopleTypeOK
<1>7. BannedAreOut'
  BY <1>0, <1>2 DEF BannedAreOut, Banned
<1>8. codes[c] # None
  BY DEF LinkRedeemPending, MayRedeem, Unredeemed, LinkDeny, Matches, Pending, CodeExpires
<1>9. \A d \in Codes : codes'[d] # None =>
          codes[d] # None /\ codes'[d].person = codes[d].person /\ codes[d].person \in Persons
  <2>1. \A d \in Codes : codes[d] # None => codes[d].person \in Persons
    BY <1>0, CodeKept
  <2> QED BY <1>1, <1>3, <1>4, <1>8, <2>1 DEF Code
<1>10. NobodyLeft
  BY <1>2 DEF NobodyLeft, AppsOfPerson
<1>11. OwnedBySomeone'
  BY <1>0, <1>2, <1>9, <1>10, OwnedKept
<1> QED BY <1>6, <1>7, <1>11 DEF PeopleInv

\* The two ways a redeemed code links.
LEMMA RedeemSteps ==
    ASSUME PeopleInv, NEW a \in Identities, NEW c \in Codes, LinkRedeem(a, c) \/ LinkApprove(a, c)
    PROVE  PeopleInv'
<1>0. PeopleTypeOK /\ OwnedBySomeone
  BY DEF PeopleInv
<1>1. CASE LinkRedeem(a, c)
  <2>1. codes[c] # None
    BY <1>1, Zenon DEF LinkRedeem, MayRedeem, Unredeemed
  <2>2. codes[c].person \in Persons /\ AppsOfPerson(codes[c].person) # {}
    BY <1>0, <2>1, CodeKept, Zenon DEF OwnedBySomeone
  <2> QED BY <1>1, <2>2, LinkStep, Zenon DEF LinkRedeem
<1>2. CASE LinkApprove(a, c)
  <2>1. codes[c] # None /\ codes[c].redeemedBy # None /\ Known(a)
    BY <1>2 DEF LinkApprove, Matches, Pending, Command
  <2>2. codes[c].redeemedBy \in Identities /\ person[a] \in Persons /\ AppsOfPerson(person[a]) # {}
    BY <1>0, <2>1, CodeKept, KnownHasApp
  <2> QED BY <1>2, <2>2, LinkStep, Zenon DEF LinkApprove
<1> QED BY <1>1, <1>2

\* /unlink wants a person of more than one app (AppsOf counts them).
LEMMA UnlinkLeavesOne ==
    ASSUME PeopleTypeOK, NEW a \in Identities, NEW t \in Identities, Unlink(a, t)
    PROVE  OthersStay({t})
<1>1. Cardinality({t}) = 1
  BY FS_Singleton, Zenon
<1>2. IdentitiesOf(t) # {t}
  BY <1>1 DEF Unlink
<1> QED BY <1>2 DEF IdentitiesOf, AppsOfPerson, OthersStay, Known

\* So nobody is left without one.
LEMMA UnlinkStep ==
    ASSUME PeopleInv, NEW a \in Identities, NEW t \in Identities, Unlink(a, t)
    PROVE  PeopleInv'
<1>0. PeopleTypeOK /\ BannedAreOut /\ OwnedBySomeone
  BY DEF PeopleInv
<1>1. person' \in [Identities -> Persons \cup {None}] /\ NobodyLeft
  BY <1>0, UnlinkLeavesOne, Scattered DEF Unlink
<1>2. UNCHANGED <<role, name, ban, inside, codes>>
  BY DEF Unlink
<1>3. PeopleTypeOK'
  BY <1>0, <1>1, <1>2 DEF PeopleTypeOK
<1>4. BannedAreOut'
  BY <1>0, <1>2 DEF BannedAreOut, Banned
<1>5. \A c \in Codes : codes[c] # None => codes[c].person \in Persons
  BY <1>0, CodeKept
<1>6. OwnedBySomeone'
  BY <1>0, <1>1, <1>2, <1>5, OwnedKept
<1> QED BY <1>3, <1>4, <1>6 DEF PeopleInv
----------------------------------------------------------------------------
(* Moderation *)

\* removeEverywhere leaves the app named where it is.
LEMMA RemovalLeavesOne ==
    ASSUME NEW t \in Identities
    PROVE  OthersStay(IdentitiesOf(t) \ {t}) /\ IdentitiesOf(t) \ {t} \in SUBSET Identities
BY DEF OthersStay, IdentitiesOf, AppsOfPerson, Known

\* A ban is under a name or a guest name.
LEMMA BanName_Type ==
    ASSUME PeopleTypeOK, NEW t \in Identities
    PROVE  BanName(t) \in Names \cup {Guest}
BY DEF PeopleTypeOK, BanName, Known

\* /kick and /ban put out every app they take away or ban.
LEMMA RemovalSteps ==
    ASSUME PeopleInv, NEW a \in Identities, NEW t \in Identities, Kick(a, t) \/ Ban(a, t)
    PROVE  PeopleInv'
<1>0. PeopleTypeOK /\ BannedAreOut /\ OwnedBySomeone
  BY DEF PeopleInv
<1>1. RemoveEverywhere(t)
  BY DEF Kick, Ban
<1>2. person' \in [Identities -> Persons \cup {None}] /\ NobodyLeft
  BY <1>0, <1>1, RemovalLeavesOne, Scattered DEF RemoveEverywhere
<1>3. name' \in [Persons -> Names \cup {None}] /\ \A q \in Persons : name'[q] \in {name[q], None}
  BY <1>0, <1>1 DEF RemoveEverywhere, ReleaseName, PeopleTypeOK
<1>4. /\ role' \in [Persons -> {RankMember, RankMod, RankAdmin}]
      /\ \A q \in Persons : role'[q] \in {role[q], RankMember}
  BY <1>0, <1>1 DEF RemoveEverywhere, SetRank, PeopleTypeOK
<1>5. inside' = inside \ IdentitiesOf(t) /\ codes' = codes
  BY <1>1 DEF RemoveEverywhere
<1>6. /\ ban' \in [Identities -> Names \cup {Guest, None}]
      /\ \A i \in Identities : i \notin IdentitiesOf(t) => ban'[i] = ban[i]
  BY <1>0, BanName_Type DEF Kick, Ban, AddBan, PeopleTypeOK
<1>7. PeopleTypeOK'
  BY <1>0, <1>2, <1>3, <1>4, <1>5, <1>6, Zenon DEF PeopleTypeOK
<1>8. BannedAreOut'
  BY <1>0, <1>5, <1>6 DEF BannedAreOut, Banned
<1>9. \A c \in Codes : codes[c] # None => codes[c].person \in Persons
  BY <1>0, CodeKept, Zenon
<1>10. OwnedBySomeone'
  BY <1>0, <1>2, <1>3, <1>4, <1>5, <1>9, OwnedKept, Zenon
<1> QED BY <1>7, <1>8, <1>10 DEF PeopleInv

\* Lifting bans.
LEMMA UnbanSteps ==
    ASSUME PeopleInv, NEW S \in SUBSET Identities, RemoveBan(S),
           UNCHANGED <<person, role, name, inside, codes>>
    PROVE  PeopleInv'
<1>0. PeopleTypeOK /\ BannedAreOut /\ OwnedBySomeone
  BY DEF PeopleInv
<1>1. PeopleTypeOK'
  BY <1>0 DEF RemoveBan, PeopleTypeOK
<1>2. BannedAreOut'
  BY <1>0, Zenon DEF RemoveBan, BannedAreOut, Banned
<1>3. OwnedBySomeone'
  BY <1>0 DEF OwnedBySomeone, AppsOfPerson
<1> QED BY <1>1, <1>2, <1>3 DEF PeopleInv

\* A role is given to someone who is known.
LEMMA RankSteps ==
    ASSUME PeopleInv, NEW t \in Identities, Known(t),
           NEW rank \in {RankMember, RankMod, RankAdmin}, SetRank(person[t], rank),
           UNCHANGED <<person, name, ban, inside, codes>>
    PROVE  PeopleInv'
<1>0. PeopleTypeOK /\ BannedAreOut /\ OwnedBySomeone
  BY DEF PeopleInv
<1>1. person[t] \in Persons /\ AppsOfPerson(person[t]) # {}
  BY <1>0, KnownHasApp
<1>2. role \in [Persons -> {RankMember, RankMod, RankAdmin}]
  BY <1>0 DEF PeopleTypeOK
<1>3. PeopleTypeOK'
  BY <1>0, <1>1, <1>2 DEF SetRank, PeopleTypeOK
<1>4. BannedAreOut'
  BY <1>0, Zenon DEF BannedAreOut, Banned
<1>5. \A p \in Persons : AppsOfPerson(p)' = {} => name'[p] = None /\ role'[p] = RankMember
  BY <1>0, <1>1, <1>2, Zenon DEF SetRank, OwnedBySomeone, AppsOfPerson
<1>6. OwnedBySomeone'
  BY <1>0, <1>5, Zenon DEF OwnedBySomeone, AppsOfPerson
<1> QED BY <1>3, <1>4, <1>6 DEF PeopleInv

\* Every request preserves the invariant.
LEMMA NextPeople == PeopleInv /\ [PeopleNext]_peopleVars => PeopleInv'
<1> SUFFICES ASSUME PeopleInv, [PeopleNext]_peopleVars PROVE PeopleInv'
  OBVIOUS
<1>1. CASE UNCHANGED peopleVars
  <2>1. PeopleTypeOK' /\ BannedAreOut' /\ OwnedBySomeone'
    BY <1>1 DEF peopleVars, PeopleInv, PeopleTypeOK, BannedAreOut, Banned, OwnedBySomeone, AppsOfPerson
  <2> QED BY <2>1, Zenon DEF PeopleInv
<1>2. ASSUME NEW i \in Identities, Identify(i) \/ Enter(i) \/ Leave(i) \/ Forget(i) PROVE PeopleInv'
  BY <1>2, ArrivalSteps
<1>3. ASSUME NEW i \in Identities, NEW n \in Names, ClaimName(i, n) \/ Unban(i, n) \/ Release(i, n)
      PROVE  PeopleInv'
  <2>1. CASE Unban(i, n)
    BY <2>1, UnbanSteps DEF Unban
  <2> QED BY <1>3, <2>1, ClaimStep, ReleaseStep, Zenon
<1>4. ASSUME NEW i \in Identities, NEW c \in Codes,
             \/ LinkIssue(i, c) \/ LinkRedeemPending(i, c) \/ LinkRedeem(i, c)
             \/ LinkApprove(i, c) \/ LinkDeny(i, c)
      PROVE  PeopleInv'
  BY <1>4, IssueStep, CodeSteps, RedeemSteps, Zenon
<1>5. ASSUME NEW a \in Identities, NEW t \in Identities,
             Unlink(a, t) \/ Kick(a, t) \/ Ban(a, t) \/ UnbanIdentity(a, t) \/ Demote(a, t)
      PROVE  PeopleInv'
  <2>1. CASE UnbanIdentity(a, t)
    BY <2>1, UnbanSteps DEF UnbanIdentity
  <2>2. CASE Demote(a, t)
    BY <2>2, RankSteps DEF Demote
  <2> QED BY <1>5, <2>1, <2>2, UnlinkStep, RemovalSteps
<1>6. ASSUME NEW a \in Identities, NEW t \in Identities, NEW n \in Names, Rename(a, t, n) PROVE PeopleInv'
  BY <1>6, ClaimStep DEF Rename
<1>7. ASSUME NEW a \in Identities, NEW t \in Identities, NEW rank \in {RankMod, RankAdmin},
             MakeRank(a, t, rank)
      PROVE  PeopleInv'
  BY <1>7, RankSteps DEF MakeRank
<1>8. ASSUME NEW c \in Codes, CodeExpires(c) PROVE PeopleInv'
  BY <1>8, CodeSteps
<1>9. CASE LiftExpiredBans
  BY <1>9, UnbanSteps DEF LiftExpiredBans
<1> QED BY <1>1, <1>2, <1>3, <1>4, <1>5, <1>6, <1>7, <1>8, <1>9, Zenon DEF PeopleNext
----------------------------------------------------------------------------
\* The invariant holds throughout.
THEOREM PeopleInvariant == PeopleSpec => []PeopleInv
<1> QED BY InitPeople, NextPeople, PTL DEF PeopleSpec

\* A banned identity is nowhere (cmdBan, removeEverywhere and the checks of a
\* join), for any number of linked apps.
THEOREM BannedStayOut == PeopleSpec => []BannedAreOut
<1>1. PeopleInv => BannedAreOut
  BY DEF PeopleInv
<1> QED BY <1>1, PeopleInvariant, PTL

\* No name, role or code outlives the last app of its person, and no name has
\* two holders (LinkIdentity, ClaimName).
THEOREM NothingUnowned == PeopleSpec => []OwnedBySomeone
<1>1. PeopleInv => OwnedBySomeone
  BY DEF PeopleInv
<1> QED BY <1>1, PeopleInvariant, PTL

Approved(i, p) == \E c \in Codes : codes[c] # None /\ codes[c].person = p /\ codes[c].redeemedBy = i
NoneJoins == \A i \in Identities, p \in Persons : ~Joins(i, p)

\* Taking apps away makes nobody an app of someone else.
LEMMA ScatterJoinsNobody ==
    ASSUME PeopleInv,
           \/ \E i \in Identities : Identify(i) \/ Forget(i)
           \/ \E a, t \in Identities : Unlink(a, t) \/ Kick(a, t) \/ Ban(a, t)
    PROVE  NoneJoins
<1>0. PeopleTypeOK
  BY DEF PeopleInv
<1>1. ASSUME NEW i \in Identities, Identify(i) PROVE NoneJoins
  <2>1. OthersStay({i})
    BY <1>1, Zenon DEF Identify, OthersStay
  <2> QED BY <1>0, <1>1, <2>1, Scattered DEF Identify, NoneJoins
<1>2. ASSUME NEW i \in Identities, Forget(i) PROVE NoneJoins
  <2>1. i \in AppsOfPerson(person[i])
    BY <1>0, <1>2, KnownHasApp DEF Forget, Command
  <2>2. OthersStay(AppsOfPerson(person[i]) \ {i}) /\ AppsOfPerson(person[i]) \ {i} \in SUBSET Identities
    BY <2>1, Zenon DEF OthersStay, AppsOfPerson
  <2> QED BY <1>0, <1>2, <2>2, Scattered, Zenon DEF Forget, NoneJoins
<1>3. ASSUME NEW a \in Identities, NEW t \in Identities, Unlink(a, t) PROVE NoneJoins
  BY <1>0, <1>3, UnlinkLeavesOne, Scattered, Zenon DEF Unlink, NoneJoins
<1>4. ASSUME NEW a \in Identities, NEW t \in Identities, Kick(a, t) \/ Ban(a, t) PROVE NoneJoins
  BY <1>0, <1>4, RemovalLeavesOne, Scattered, Zenon DEF Kick, Ban, RemoveEverywhere, NoneJoins
<1> QED BY <1>1, <1>2, <1>3, <1>4

\* A link moves one app to one person.
LEMMA LinkJoins ==
    ASSUME PeopleInv, NEW i \in Identities, NEW to, NEW c \in Codes, Link(i, to, c),
           NEW j \in Identities, NEW p \in Persons, Joins(j, p)
    PROVE  j = i /\ p = to
BY DEF PeopleInv, PeopleTypeOK, Link, LinkIdentity, Joins

\* Every way to become an app of a role holder goes through a code of theirs
\* that this app redeemed and one of theirs approved (linkRedeem, linkDecide).
THEOREM RoleAlwaysNeedsApproval == PeopleSpec => RoleNeedsApproval
<1> DEFINE Guarded == \A i \in Identities, p \in Persons :
                          Joins(i, p) /\ PersonRank(p) >= RankMod => Approved(i, p)
<1>1. ASSUME PeopleInv, PeopleNext PROVE Guarded
  <2>0. PeopleTypeOK
    BY <1>1 DEF PeopleInv
  <2>1. CASE UNCHANGED person
    BY <2>1 DEF Joins
  <2>2. CASE \/ \E i \in Identities : Identify(i) \/ Forget(i)
             \/ \E a, t \in Identities : Unlink(a, t) \/ Kick(a, t) \/ Ban(a, t)
    BY <1>1, <2>2, ScatterJoinsNobody DEF NoneJoins
  <2>3. ASSUME NEW a \in Identities, NEW c \in Codes, LinkRedeem(a, c) PROVE Guarded
    <3> SUFFICES ASSUME NEW i \in Identities, NEW p \in Persons, Joins(i, p), PersonRank(p) >= RankMod
                 PROVE  FALSE
      OBVIOUS
    <3>1. p = codes[c].person
      BY <1>1, <2>3, LinkJoins DEF LinkRedeem
    <3>2. PersonRank(p) < RankMod
      BY <2>3, <3>1, Zenon DEF LinkRedeem
    <3>3. PersonRank(p) \in Nat
      BY <2>0 DEF PersonRank, PeopleTypeOK, RankOwner, RankMember, RankMod, RankAdmin
    <3> QED BY <3>2, <3>3 DEF RankMod
  <2>4. ASSUME NEW a \in Identities, NEW c \in Codes, LinkApprove(a, c) PROVE Guarded
    <3> SUFFICES ASSUME NEW i \in Identities, NEW p \in Persons, Joins(i, p) PROVE Approved(i, p)
      BY Zenon
    <3>1. codes[c] # None /\ codes[c].redeemedBy # None /\ codes[c].person = person[a]
      BY <2>4 DEF LinkApprove, Matches, Pending
    <3>2. codes[c].redeemedBy \in Identities
      BY <2>0, <3>1, CodeKept, Zenon
    <3>3. i = codes[c].redeemedBy /\ p = person[a]
      BY <1>1, <2>4, <3>2, LinkJoins, Zenon DEF LinkApprove
    <3> QED BY <3>1, <3>3 DEF Approved
  <2>5. \/ UNCHANGED person
        \/ \E i \in Identities : Identify(i) \/ Forget(i)
        \/ \E a, t \in Identities : Unlink(a, t) \/ Kick(a, t) \/ Ban(a, t)
        \/ \E a \in Identities, c \in Codes : LinkRedeem(a, c) \/ LinkApprove(a, c)
    BY <1>1, Zenon
       DEF PeopleNext, Enter, Leave, ClaimName, Unban, Release, LinkIssue, LinkRedeemPending, LinkDeny,
                UnbanIdentity, Demote, Rename, MakeRank, CodeExpires, LiftExpiredBans
  <2> QED BY <2>1, <2>2, <2>3, <2>4, <2>5
<1>2. PeopleInv /\ [PeopleNext]_peopleVars => [Guarded]_peopleVars
  BY <1>1
<1>3. [Guarded]_peopleVars <=> [\A i \in Identities, p \in Persons :
          Joins(i, p) /\ PersonRank(p) >= RankMod =>
             \E c \in Codes : /\ codes[c] # None
                              /\ codes[c].person = p
                              /\ codes[c].redeemedBy = i]_peopleVars
  BY DEF Approved
<1> QED BY <1>2, <1>3, PeopleInvariant, PTL DEF PeopleSpec, RoleNeedsApproval
-----------------------------------------------------------------------------
(* The pause *)

\* Every app is an app of one person.
Partition ==
    /\ \A t \in team : t \subseteq Apps
    /\ \A a \in Apps : \E t \in team : a \in t
    /\ \A s, t \in team : s \cap t # {} => s = t

\* A recorded pause has a cursor.
HasCursor == \A a \in recorded : cursor[a] # NoCursor

PauseInv == PauseTypeOK /\ Partition /\ PausePointKept /\ HasCursor /\ NoteIsExact
----------------------------------------------------------------------------
(* Persons *)

\* identitiesOf finds the one person an app belongs to.
LEMMA AppsOfIsTheTeam ==
    ASSUME Partition, NEW a \in Apps
    PROVE  /\ AppsOf(a) \in team /\ a \in AppsOf(a) /\ AppsOf(a) \subseteq Apps
           /\ \A b \in AppsOf(a) : AppsOf(b) = AppsOf(a)
<1>1. \A b \in Apps : AppsOf(b) \in team /\ b \in AppsOf(b)
  BY DEF AppsOf, Partition
<1>2. AppsOf(a) \subseteq Apps
  BY <1>1 DEF Partition
<1>3. ASSUME NEW b \in AppsOf(a) PROVE AppsOf(b) = AppsOf(a)
  <2>1. b \in Apps
    BY <1>2
  <2>2. AppsOf(b) \in team /\ b \in AppsOf(b) /\ AppsOf(a) \in team
    BY <1>1, <2>1
  <2> QED BY <2>2 DEF Partition
<1> QED BY <1>1, <1>2, <1>3

\* Splitting apps off leaves a partition.
LEMMA SplitIsPartition ==
    ASSUME Partition, NEW S \in SUBSET Apps, team' = Split(S)
    PROVE  Partition'
<1>1. \A t \in team' : \/ \E u \in team : t = u \ S
                       \/ \E b \in S : t = {b}
  BY DEF Split
<1>2. ASSUME NEW t \in team' PROVE t \subseteq Apps
  BY <1>1 DEF Partition
<1>3. ASSUME NEW a \in Apps PROVE \E t \in team' : a \in t
  <2>1. CASE a \in S
    BY <2>1, Zenon DEF Split
  <2>2. CASE a \notin S
    <3>1. PICK u \in team : a \in u
      BY DEF Partition
    <3>2. a \in u \ S /\ u \ S \in team'
      BY <2>2, <3>1 DEF Split
    <3> QED BY <3>2
  <2> QED BY <2>1, <2>2
<1>4. ASSUME NEW s \in team', NEW t \in team', NEW a \in s \cap t PROVE s = t
  <2>1. CASE \E u \in team : s = u \ S
    <3>1. PICK u \in team : s = u \ S
      BY <2>1
    <3>2. a \notin S
      BY <1>4, <3>1
    <3>3. PICK v \in team : t = v \ S
      BY <1>1, <1>4, <3>2
    <3>4. u = v
      BY <1>4, <3>1, <3>3 DEF Partition
    <3> QED BY <3>1, <3>3, <3>4
  <2>2. CASE \E b \in S : s = {b}
    <3>1. s = {a} /\ a \in S
      BY <1>4, <2>2
    <3>2. t = {a}
      BY <1>1, <1>4, <3>1
    <3> QED BY <3>1, <3>2
  <2> QED BY <1>1, <2>1, <2>2
<1> QED BY <1>2, <1>3, <1>4 DEF Partition

\* So does moving an app to another person.
LEMMA LinkIsPartition ==
    ASSUME Partition, NEW a \in Apps, NEW b \in Apps, LinkApp(a, b)
    PROVE  Partition'
<1> DEFINE T == AppsOf(b)
           N == T \cup {a}
<1>1. T \in team /\ T \subseteq Apps /\ a \notin T
  BY AppsOfIsTheTeam DEF LinkApp
<1>2. team' = ({t \ {a} : t \in team \ {T}} \ {{}}) \cup {N}
  BY DEF LinkApp
<1>3. \A t \in team' : t = N \/ \E u \in team \ {T} : t = u \ {a}
  BY <1>2
<1>4. ASSUME NEW t \in team' PROVE t \subseteq Apps
  BY <1>1, <1>3 DEF Partition
<1>5. ASSUME NEW c \in Apps PROVE \E t \in team' : c \in t
  <2>1. CASE c \in N
    BY <1>2, <2>1, Zenon
  <2>2. CASE c \notin N
    <3>1. PICK u \in team : c \in u
      BY DEF Partition
    <3>2. u # T /\ c \in u \ {a}
      BY <2>2, <3>1
    <3>3. u \ {a} \in team'
      BY <1>2, <3>1, <3>2
    <3> QED BY <3>2, <3>3
  <2> QED BY <2>1, <2>2
<1>6. ASSUME NEW u \in team \ {T} PROVE (u \ {a}) \cap N = {}
  BY <1>1, <1>6 DEF Partition
<1>7. ASSUME NEW s \in team', NEW t \in team', NEW c \in s \cap t PROVE s = t
  <2>1. CASE s = N \/ t = N
    <3>1. ASSUME NEW u \in team', u # N PROVE u \cap N = {}
      <4>1. PICK v \in team \ {T} : u = v \ {a}
        BY <1>3, <3>1
      <4> QED BY <1>6, <4>1
    <3> QED BY <1>7, <2>1, <3>1, Zenon
  <2>2. CASE s # N /\ t # N
    <3>1. PICK u \in team, v \in team : s = u \ {a} /\ t = v \ {a}
      BY <1>3, <2>2
    <3>2. u = v
      BY <1>7, <3>1 DEF Partition
    <3> QED BY <3>1, <3>2
  <2> QED BY <2>1, <2>2
<1> QED BY <1>4, <1>5, <1>7 DEF Partition
----------------------------------------------------------------------------
(* Requests that look whether the pause changes *)

\* What such a request has to get right.
LEMMA WatchedKeeps ==
    ASSUME PauseInv, NextWatched,
           UNCHANGED <<team, member, last>>, present' \subseteq Apps,
           mode' \in [Apps -> {"on", "off", "auto"}],
           cursor' \in [Apps -> Nat \cup {NoCursor}], note' \in [Apps -> Int],
           \A b \in recorded : ~Ends(b) => cursor'[b] = cursor[b],
           \A b \in member : Begins(b) => cursor'[b] = last,
           \A b \in Apps : ~Ends(b) => note'[b] = 0,
           \A b \in recorded : Ends(b) => note'[b] = missed[b]
    PROVE  PauseInv'
<1>0. PauseTypeOK /\ Partition /\ PausePointKept /\ HasCursor
  BY Zenon DEF PauseInv
<1>1. /\ recorded' = (recorded \ {b \in Apps : Ends(b)}) \cup {b \in member : Begins(b)}
      /\ missed' = [b \in Apps |-> IF b \in recorded \cap recorded' THEN missed[b] ELSE 0]
      /\ due' = [b \in Apps |-> IF ~Ends(b) THEN 0 ELSE IF b \in recorded THEN missed[b] ELSE note'[b]]
  BY DEF NextWatched
<1>2. PauseTypeOK'
  <2>1. recorded' \subseteq Apps
    BY <1>0, <1>1, Zenon DEF PauseTypeOK
  <2>2. missed' \in [Apps -> Int] /\ due' \in [Apps -> Int]
    BY <1>0, <1>1 DEF PauseTypeOK
  <2> QED BY <1>0, <2>1, <2>2, Zenon DEF PauseTypeOK
<1>3. Partition'
  BY <1>0, Zenon DEF Partition
<1>4. \A b \in recorded : b \in Apps /\ b \in member /\ Paused(b) /\ cursor[b] = last - missed[b]
  BY <1>0, Zenon DEF PauseTypeOK, PausePointKept
<1>5. ASSUME NEW b \in recorded'
      PROVE  b \in member /\ Paused(b)' /\ cursor'[b] = last - missed'[b] /\ cursor'[b] # NoCursor
  <2>1. b \in Apps
    BY <1>0, <1>1, Zenon DEF PauseTypeOK
  <2>2. CASE b \in recorded /\ ~Ends(b)
    <3>1. missed'[b] = missed[b]
      BY <1>1, <1>5, <2>1, <2>2, Zenon
    <3>2. Paused(b)'
      BY <1>4, <2>2, Zenon DEF Ends
    <3> QED BY <1>0, <1>4, <2>2, <3>1, <3>2, Zenon DEF HasCursor
  <2>3. CASE b \in member /\ Begins(b)
    <3>1. b \notin recorded /\ Paused(b)'
      BY <1>4, <2>3, Zenon DEF Begins
    <3>2. missed'[b] = 0 /\ cursor'[b] = last
      BY <1>1, <2>1, <2>3, <3>1, Zenon
    <3>3. last \in Nat
      BY <1>0, Zenon DEF PauseTypeOK
    <3> QED BY <2>3, <3>1, <3>2, <3>3 DEF NoCursor
  <2> QED BY <1>1, <1>5, <2>1, <2>2, <2>3, Zenon
<1>6. PausePointKept' /\ HasCursor'
  BY <1>5, Zenon DEF PausePointKept, HasCursor
<1>7. \A b \in Apps : note'[b] = due'[b]
  BY <1>1, Zenon
<1>8. NoteIsExact'
  <2>1. due' \in [Apps -> Int]
    BY <1>2, Zenon DEF PauseTypeOK
  <2> QED BY <1>7, <2>1 DEF NoteIsExact
<1> QED BY <1>2, <1>3, <1>6, <1>8 DEF PauseInv

\* A first link of a person in the room.
LEMMA JoinRoomStep ==
    ASSUME PauseInv, NextWatched, NEW a \in Apps, JoinRoom(a)
    PROVE  PauseInv'
<1>0. PauseTypeOK /\ Partition /\ PausePointKept
  BY DEF PauseInv
<1>1. present' = present \cup {a} /\ UNCHANGED <<team, member, mode, last>>
  BY DEF JoinRoom
<1>2. \A b \in Apps : AppsOf(b)' = AppsOf(b)
  BY <1>1, Zenon DEF AppsOf
<1>3. \A b \in Apps : ~Ends(b)
  BY <1>1, <1>2, Zenon DEF Ends, Paused, PausedAs, OnRRC
<1>4. ASSUME NEW b \in member, Begins(b) PROVE b \in AutoApps(a) /\ ~OnRRC(a)
  <2>1. b \in Apps
    BY <1>0 DEF PauseTypeOK
  <2>2. mode[b] = "auto" /\ ~OnRRC(b) /\ OnRRC(b)'
    BY <1>1, <1>4 DEF Begins, Paused, PausedAs
  <2>3. a \in AppsOf(b)
    BY <1>1, <1>2, <2>1, <2>2, Zenon DEF OnRRC
  <2>4. AppsOf(a) = AppsOf(b) /\ b \in AppsOf(b)
    BY <1>0, <2>1, <2>3, AppsOfIsTheTeam, Zenon
  <2> QED BY <2>2, <2>4, Zenon DEF AutoApps, OnRRC
<1>5. ASSUME NEW b \in AutoApps(a), ~OnRRC(a) PROVE ~Paused(b)
  <2>1. AppsOf(b) = AppsOf(a) /\ mode[b] = "auto"
    BY <1>0, AppsOfIsTheTeam, Zenon DEF AutoApps
  <2> QED BY <1>5, <2>1 DEF Paused, PausedAs, OnRRC
<1>6. last \in Nat /\ cursor \in [Apps -> Nat \cup {NoCursor}] /\ present' \subseteq Apps
  BY <1>0, <1>1, Zenon DEF PauseTypeOK
<1>7. cursor' = [b \in Apps |-> IF ~OnRRC(a) /\ b \in AutoApps(a) THEN last ELSE cursor[b]]
  BY <1>6 DEF JoinRoom, NoChange, Pause
<1>8. note' = NoNote
  BY DEF JoinRoom, NoChange, Pause
<1>9. note' \in [Apps -> Int] /\ \A b \in Apps : note'[b] = 0
  BY <1>8 DEF NoNote
<1>10. cursor' \in [Apps -> Nat \cup {NoCursor}]
  BY <1>6, <1>7, Zenon
<1>11. recorded \subseteq Apps /\ \A b \in recorded : Paused(b)
  BY <1>0, Zenon DEF PauseTypeOK, PausePointKept
<1>12. \A b \in recorded : cursor'[b] = cursor[b]
  BY <1>5, <1>7, <1>11, Zenon
<1>13. \A b \in member : Begins(b) => cursor'[b] = last
  BY <1>0, <1>4, <1>7, Zenon DEF PauseTypeOK
<1>14. mode' \in [Apps -> {"on", "off", "auto"}]
  BY <1>0, <1>1, Zenon DEF PauseTypeOK
<1> QED BY <1>1, <1>3, <1>6, <1>9, <1>10, <1>11, <1>12, <1>13, <1>14, WatchedKeeps, Zenon

\* The note at the end of a recorded pause counts what was missed.
LEMMA ResumeCounts ==
    ASSUME PauseInv, NEW rs \in SUBSET Apps, Resume(rs)
    PROVE  /\ cursor' \in [Apps -> Nat \cup {NoCursor}] /\ note' \in [Apps -> Int]
           /\ \A b \in Apps \ rs : note'[b] = 0 /\ cursor'[b] = cursor[b]
           /\ \A b \in rs \cap recorded : note'[b] = missed[b]
<1>1. /\ last \in Nat /\ cursor \in [Apps -> Nat \cup {NoCursor}] /\ missed \in [Apps -> Int]
      /\ \A b \in recorded : cursor[b] = last - missed[b] /\ cursor[b] # NoCursor
  BY DEF PauseInv, PauseTypeOK, PausePointKept, HasCursor
<1>2. /\ note' = [b \in Apps |-> IF b \in rs /\ cursor[b] # NoCursor THEN last - cursor[b] ELSE 0]
      /\ cursor' = [b \in Apps |-> IF b \in rs /\ cursor[b] # NoCursor THEN last ELSE cursor[b]]
  BY DEF Resume
<1>3. cursor' \in [Apps -> Nat \cup {NoCursor}]
  BY <1>1, <1>2, Zenon
<1>4. \A b \in Apps : cursor[b] # NoCursor => last - cursor[b] \in Int
  BY <1>1
<1>5. note' \in [Apps -> Int]
  BY <1>2, <1>4
<1>6. \A b \in rs \cap recorded : note'[b] = missed[b]
  BY <1>1, <1>2
<1> QED BY <1>2, <1>3, <1>5, <1>6, Zenon

\* A last link out of the room.
LEMMA PartRoomStep ==
    ASSUME PauseInv, NextWatched, NEW a \in Apps, PartRoom(a)
    PROVE  PauseInv'
<1>0. PauseTypeOK /\ Partition /\ PausePointKept
  BY DEF PauseInv
<1>1. a \in present /\ present' = present \ {a} /\ UNCHANGED <<team, member, mode, last>>
  BY DEF PartRoom
<1>2. \A b \in Apps : AppsOf(b)' = AppsOf(b)
  BY <1>1, Zenon DEF AppsOf
<1>3. \A b \in Apps : ~Begins(b)
  BY <1>1, <1>2, Zenon DEF Begins, Paused, PausedAs, OnRRC
<1>4. a \in AppsOf(a) /\ \A b \in AppsOf(a) : AppsOf(b) = AppsOf(a)
  BY <1>0, AppsOfIsTheTeam, Zenon
<1>5. ASSUME NEW b \in Apps, Ends(b)
      PROVE  mode[b] = "auto" /\ b \in AppsOf(a) /\ AppsOf(a) \cap present = {a}
  <2>1. mode[b] = "auto" /\ OnRRC(b) /\ ~OnRRC(b)'
    BY <1>1, <1>5 DEF Ends, Paused, PausedAs
  <2>2. AppsOf(b) \cap present = {a}
    BY <1>1, <1>2, <2>1 DEF OnRRC
  <2>3. AppsOf(a) = AppsOf(b) /\ b \in AppsOf(b)
    BY <1>0, <2>2, AppsOfIsTheTeam, Zenon
  <2> QED BY <2>1, <2>2, <2>3
<1>6. ASSUME NEW b \in AutoApps(a), AppsOf(a) \cap present = {a} PROVE Ends(b)
  <2>1. AppsOf(b) = AppsOf(a) /\ mode[b] = "auto" /\ b \in Apps
    BY <1>0, <1>4 DEF AutoApps, PauseTypeOK
  <2>2. OnRRC(b)
    BY <1>6, <2>1 DEF OnRRC
  <2>3. ~OnRRC(b)'
    BY <1>1, <1>2, <1>6, <2>1, Zenon DEF OnRRC
  <2> QED BY <1>1, <2>1, <2>2, <2>3, Zenon DEF Ends, Paused, PausedAs
<1>7. /\ AutoApps(a) \in SUBSET Apps /\ recorded \subseteq Apps /\ present' \subseteq Apps
      /\ mode' \in [Apps -> {"on", "off", "auto"}]
      /\ recorded \subseteq member /\ member \subseteq Apps
  BY <1>0, <1>1, Zenon DEF AutoApps, PauseTypeOK, PausePointKept
<1>8. CASE AppsOf(a) \cap present = {a}
  <2>1. Resume(AutoApps(a))
    BY <1>8, Zenon DEF PartRoom
  <2>2. /\ cursor' \in [Apps -> Nat \cup {NoCursor}] /\ note' \in [Apps -> Int]
        /\ \A b \in Apps \ AutoApps(a) : note'[b] = 0 /\ cursor'[b] = cursor[b]
        /\ \A b \in AutoApps(a) \cap recorded : note'[b] = missed[b]
    BY <1>7, <2>1, ResumeCounts
  <2>3. \A b \in AutoApps(a) : Ends(b)
    BY <1>6, <1>8
  <2>4. \A b \in member : Ends(b) => b \in AutoApps(a)
    BY <1>5, <1>7, Zenon DEF AutoApps
  <2> QED BY <1>1, <1>3, <1>7, <2>2, <2>3, <2>4, WatchedKeeps, Zenon
<1>9. CASE AppsOf(a) \cap present # {a}
  <2>1. cursor' = cursor /\ note' = NoNote
    BY <1>9 DEF PartRoom, NoChange
  <2>2. note' \in [Apps -> Int] /\ \A b \in Apps : note'[b] = 0
    BY <2>1 DEF NoNote
  <2>3. cursor' \in [Apps -> Nat \cup {NoCursor}]
    BY <1>0, <2>1 DEF PauseTypeOK
  <2>4. \A b \in Apps : ~Ends(b)
    BY <1>5, <1>9
  <2> QED BY <1>1, <1>3, <1>7, <2>1, <2>2, <2>3, <2>4, WatchedKeeps, Zenon
<1> QED BY <1>8, <1>9

\* A change of the setting touches one app.
LEMMA SetModeStep ==
    ASSUME PauseInv, NextWatched, NEW a \in Apps, NEW m \in {"on", "off", "auto"}, SetLXMFMode(a, m)
    PROVE  PauseInv'
<1>0. PauseTypeOK /\ Partition /\ PausePointKept
  BY DEF PauseInv
<1>1. mode' = [mode EXCEPT ![a] = m] /\ UNCHANGED <<team, member, present, last>>
  BY DEF SetLXMFMode
<1>2. mode \in [Apps -> {"on", "off", "auto"}] /\ mode' \in [Apps -> {"on", "off", "auto"}]
  BY <1>0, <1>1 DEF PauseTypeOK
<1>3. \A b \in Apps : OnRRC(b)' = OnRRC(b)
  BY <1>1 DEF OnRRC, AppsOf
<1>4. \A b \in Apps : b # a => mode'[b] = mode[b]
  BY <1>1, <1>2, Zenon
<1>5. \A b \in Apps : b # a => ~Begins(b) /\ ~Ends(b)
  BY <1>3, <1>4, Zenon DEF Begins, Ends, Paused, PausedAs
<1>6. Paused(a)' = PausedAs(m, a)
  BY <1>1, <1>2, <1>3, Zenon DEF Paused, PausedAs
<1>7. /\ recorded \subseteq member /\ member \subseteq Apps /\ present' \subseteq Apps
      /\ last \in Nat /\ cursor \in [Apps -> Nat \cup {NoCursor}]
      /\ \A b \in recorded : Paused(b)
  BY <1>0, <1>1 DEF PauseTypeOK, PausePointKept
<1>8. NoNote \in [Apps -> Int] /\ \A b \in Apps : NoNote[b] = 0
  BY DEF NoNote
<1>9. CASE a \in member /\ ~Paused(a) /\ PausedAs(m, a)
  <2>1. Pause({a})
    BY <1>9 DEF SetLXMFMode
  <2>2. note' = NoNote /\ cursor' = [b \in Apps |-> IF b \in {a} THEN last ELSE cursor[b]]
    BY <2>1 DEF Pause
  <2>3. cursor' \in [Apps -> Nat \cup {NoCursor}] /\ cursor'[a] = last
    BY <1>7, <2>2, Zenon
  <2>4. \A b \in recorded : cursor'[b] = cursor[b] /\ ~Ends(b)
    BY <1>5, <1>7, <1>9, <2>2, Zenon
  <2>5. \A b \in member : Begins(b) => cursor'[b] = last
    BY <1>5, <1>7, <2>3, Zenon
  <2> QED BY <1>1, <1>2, <1>7, <1>8, <2>2, <2>3, <2>4, <2>5, WatchedKeeps, Zenon
<1>10. CASE a \in member /\ Paused(a) /\ ~PausedAs(m, a)
  <2>1. Resume({a}) /\ {a} \in SUBSET Apps
    BY <1>10, Zenon DEF SetLXMFMode
  <2>2. /\ cursor' \in [Apps -> Nat \cup {NoCursor}] /\ note' \in [Apps -> Int]
        /\ \A b \in Apps \ {a} : note'[b] = 0 /\ cursor'[b] = cursor[b]
        /\ \A b \in {a} \cap recorded : note'[b] = missed[b]
    BY <2>1, ResumeCounts
  <2>3. Ends(a) /\ ~Begins(a)
    BY <1>6, <1>10 DEF Ends, Begins
  <2>4. \A b \in member : ~Begins(b)
    BY <1>5, <1>7, <2>3, Zenon
  <2> QED BY <1>1, <1>2, <1>5, <1>7, <2>2, <2>3, <2>4, WatchedKeeps, Zenon
<1>11. CASE /\ ~(a \in member /\ ~Paused(a) /\ PausedAs(m, a))
            /\ ~(a \in member /\ Paused(a) /\ ~PausedAs(m, a))
  <2>1. cursor' = cursor /\ note' = NoNote
    BY <1>11, Zenon DEF SetLXMFMode, NoChange
  <2>2. \A b \in member : ~Begins(b) /\ ~Ends(b)
    BY <1>5, <1>6, <1>7, <1>11, Zenon DEF Begins, Ends
  <2> QED BY <1>1, <1>2, <1>7, <1>8, <2>1, <2>2, WatchedKeeps, Zenon
<1> QED BY <1>9, <1>10, <1>11, Zenon
----------------------------------------------------------------------------
(* Requests that do not *)

\* A pause that goes on through such a request keeps its point.
LEMMA UnwatchedKeeps ==
    ASSUME PauseInv, NextUnwatched, NoChange, Partition',
           member' \subseteq Apps, present' \subseteq Apps,
           mode' \in [Apps -> {"on", "off", "auto"}], last' \in Nat
    PROVE  PauseInv'
<1>0. PauseTypeOK /\ PausePointKept /\ HasCursor
  BY DEF PauseInv
<1>1. /\ recorded' = (recorded \cap member') \ {b \in Apps : Ends(b)}
      /\ missed' = [b \in Apps |-> IF b \in recorded' THEN missed[b] + (last' - last) ELSE 0]
      /\ due' = NoNote
  BY DEF NextUnwatched
<1>2. cursor' = cursor /\ note' = NoNote
  BY DEF NoChange
<1>3. /\ recorded' \subseteq recorded /\ recorded \subseteq Apps /\ last \in Nat
      /\ missed \in [Apps -> Int] /\ cursor \in [Apps -> Nat \cup {NoCursor}]
  BY <1>0, <1>1 DEF PauseTypeOK
<1>4. missed' \in [Apps -> Int]
  BY <1>1, <1>3
<1>5. NoNote \in [Apps -> Int]
  BY DEF NoNote
<1>6. PauseTypeOK'
  BY <1>1, <1>2, <1>3, <1>4, <1>5, Zenon DEF PauseTypeOK
<1>7. ASSUME NEW b \in recorded'
      PROVE  b \in member' /\ Paused(b)' /\ cursor'[b] = last' - missed'[b] /\ cursor'[b] # NoCursor
  <2>1. b \in recorded /\ b \in Apps /\ b \in member' /\ ~Ends(b)
    BY <1>1, <1>3, <1>7, Zenon
  <2>2. Paused(b) /\ cursor[b] = last - missed[b] /\ cursor[b] # NoCursor
    BY <1>0, <2>1, Zenon DEF PausePointKept, HasCursor
  <2>3. missed'[b] = missed[b] + (last' - last) /\ missed[b] \in Int
    BY <1>1, <1>3, <1>7, <2>1, Zenon
  <2>4. Paused(b)'
    BY <2>1, <2>2, Zenon DEF Ends
  <2> QED BY <1>2, <1>3, <2>1, <2>2, <2>3, <2>4
<1>8. PausePointKept' /\ HasCursor'
  BY <1>7 DEF PausePointKept, HasCursor
<1>9. NoteIsExact'
  BY <1>1, <1>2 DEF NoteIsExact
<1> QED BY <1>6, <1>8, <1>9, Zenon DEF PauseInv

\* Each of them leaves the persons a partition, and touches no cursor.
LEMMA UnwatchedStep ==
    ASSUME PauseInv, NextUnwatched
    PROVE  PauseInv'
<1>0. PauseTypeOK /\ Partition
  BY Zenon DEF PauseInv
<1>1. CASE UNCHANGED team
  <2>1. Partition'
    BY <1>0, <1>1, Zenon DEF Partition
  <2>2. CASE Post \/ Restart
    BY <1>0, <2>1, <2>2, UnwatchedKeeps DEF Post, Restart, PauseTypeOK
  <2>3. ASSUME NEW a \in Apps, JoinGroup(a) \/ LeaveGroup(a) \/ RoomRemove(a) PROVE PauseInv'
    BY <1>0, <2>1, <2>3, UnwatchedKeeps, Zenon DEF JoinGroup, LeaveGroup, RoomRemove, PauseTypeOK
  <2>4. ASSUME NEW a \in Apps,
               UnlinkApp(a) \/ ForgetApp(a) \/ RemovePerson(a) \/ \E b \in Apps : LinkApp(a, b)
        PROVE  PauseInv'
    BY <1>0, <2>1, <2>4, UnwatchedKeeps, Zenon
       DEF UnlinkApp, ForgetApp, RemovePerson, LinkApp, PauseTypeOK
  <2> QED BY <2>2, <2>3, <2>4 DEF NextUnwatched, Unwatched
<1>2. CASE ~UNCHANGED team
  <2>1. PICK a \in Apps : UnlinkApp(a) \/ ForgetApp(a) \/ RemovePerson(a) \/ \E b \in Apps : LinkApp(a, b)
    BY <1>2 DEF NextUnwatched, Unwatched, Post, Restart, JoinGroup, LeaveGroup, RoomRemove
  <2>2. AppsOf(a) \in SUBSET Apps /\ {a} \in SUBSET Apps
    BY <1>0, AppsOfIsTheTeam, Zenon
  <2>3. Partition'
    BY <1>0, <2>1, <2>2, SplitIsPartition, LinkIsPartition, Zenon
       DEF UnlinkApp, ForgetApp, RemovePerson
  <2> QED BY <1>0, <2>1, <2>3, UnwatchedKeeps, ZenonT(30)
             DEF UnlinkApp, ForgetApp, RemovePerson, LinkApp, PauseTypeOK
<1> QED BY <1>1, <1>2
----------------------------------------------------------------------------
\* The invariant holds throughout.
THEOREM PauseInvariant == Spec => []PauseInv
<1>1. Init => PauseInv
  <2> SUFFICES ASSUME Init PROVE PauseInv
    OBVIOUS
  <2>1. PauseTypeOK
    BY DEF Init, PauseTypeOK, NoNote
  <2>2. Partition
    <3>1. team = {{a} : a \in Apps}
      BY DEF Init
    <3>2. \A t \in team : \E a \in Apps : t = {a}
      BY <3>1
    <3>3. \A a \in Apps : {a} \in team
      BY <3>1
    <3>4. \A t \in team : t \subseteq Apps
      BY <3>2
    <3>5. ASSUME NEW s \in team, NEW t \in team, NEW b \in s \cap t PROVE s = t
      <4>1. PICK c \in Apps, d \in Apps : s = {c} /\ t = {d}
        BY <3>2
      <4>2. c = b /\ d = b
        BY <4>1
      <4> QED BY <4>1, <4>2, Zenon
    <3>6. \A s, t \in team : s \cap t # {} => s = t
      BY <3>5
    <3>7. \A a \in Apps : \E t \in team : a \in t
      BY <3>3, Zenon
    <3> QED BY <3>4, <3>6, <3>7, Zenon DEF Partition
  <2>3. PausePointKept /\ HasCursor /\ NoteIsExact
    BY DEF Init, PausePointKept, HasCursor, NoteIsExact
  <2> QED BY <2>1, <2>2, <2>3, Zenon DEF PauseInv
<1>2. PauseInv /\ [Next]_vars => PauseInv'
  <2> SUFFICES ASSUME PauseInv, [Next]_vars PROVE PauseInv'
    OBVIOUS
  <2>1. CASE NextWatched
    BY <2>1, JoinRoomStep, PartRoomStep, SetModeStep, Zenon DEF NextWatched, Watched
  <2>2. CASE NextUnwatched
    BY <2>2, UnwatchedStep
  <2>3. CASE UNCHANGED vars
    <3>1. PauseTypeOK' /\ Partition'
      BY <2>3, Zenon DEF vars, PauseInv, PauseTypeOK, Partition
    <3>2. PausePointKept' /\ HasCursor' /\ NoteIsExact'
      BY <2>3 DEF vars, PauseInv, PausePointKept, HasCursor, NoteIsExact, Paused, PausedAs, OnRRC, AppsOf
    <3> QED BY <3>1, <3>2, Zenon DEF PauseInv
  <2> QED BY <2>1, <2>2, <2>3 DEF Next
<1> QED BY <1>1, <1>2, PTL DEF Spec

\* While a recorded pause lasts the app's cursor stays where it began
\* (lxmfPauseChanged), for any number of apps, persons and messages.
THEOREM PausePointAlwaysKept == Spec => []PausePointKept
<1>1. PauseInv => PausePointKept
  BY DEF PauseInv
<1> QED BY <1>1, PauseInvariant, PTL

\* The note at the end of a recorded pause gives the number of messages missed,
\* and nobody else gets one (autoPauseChanged, SetLXMFMode).
THEOREM NoteAlwaysExact == Spec => []NoteIsExact
<1>1. PauseInv => NoteIsExact
  BY DEF PauseInv
<1> QED BY <1>1, PauseInvariant, PTL
=============================================================================
