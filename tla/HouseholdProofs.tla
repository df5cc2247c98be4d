-------------------------- MODULE HouseholdProofs ---------------------------
(***************************************************************************)
(* Theorems about Household, for any number of people, links and           *)
(* transactions, every max_uses and every room configuration.              *)
(***************************************************************************)
EXTENDS Household, Sums

(* A transaction is a record: the ten fields of Fresh. *)
IsTx(r) ==
  r = [at |-> r.at, kind |-> r.kind, who |-> r.who, link |-> r.link, existing |-> r.existing,
       room |-> r.room, plan |-> r.plan, put |-> r.put, rows |-> r.rows, splits |-> r.splits]

TxShape == tx = [t \in Txs |-> tx[t]] /\ \A t \in Txs : IsTx(tx[t])

(* A request, as the route validated it, and how far its kind can be.      *)
RequestOK(r) ==
  /\ r.at \in {"new", "opened", "locked", "read", "done", "paused", "failed"}
  /\ r.rows \subseteq People
  /\ r.at = "locked" => r.kind = "accept"
  /\ r.at = "opened" => r.kind \in {"accept", "rooms"}
  /\ r.kind = "accept" /\ r.at \in {"new", "opened", "locked"} =>
       r.who \in Joiners /\ r.link \in Invites
  /\ r.kind = "rooms" /\ r.at \in {"new", "opened", "read"} =>
       /\ r.plan \in Seq(1..Whole) /\ DOMAIN r.put \subseteq People
       /\ \A u \in DOMAIN r.put : r.put[u] \in DOMAIN r.plan

(* What an accept knows while it holds its locks: the invite has a use     *)
(* left, the membership it read is still what it was unless another accept *)
(* inserted one, and the placeholder is as it was locked.                  *)
AcceptOK(r) ==
  r.kind = "accept" /\ r.at \in {"opened", "locked"} =>
    /\ invite[r.link].live # "none" /\ invite[r.link].uses < MaxUses
    /\ r.existing \in {"absent", "active", "left"}
    /\ r.existing = "left" => r.who \in Returning
    /\ r.existing = "active" => Active(r.who)
    /\ r.existing = "absent" => member[r.who].status # "left"
    /\ r.at = "locked" => LET p == invite[r.link].whom
                          IN  p \in Placeholders /\ Unclaimed(p) /\ r.room = member[p].room

(* What setRooms knows of its occupants: their rows are there, and are     *)
(* among those it picked.                                                  *)
RoomsOK(r) ==
  r.kind = "rooms" /\ r.at \in {"opened", "read"} =>
    \A u \in DOMAIN r.put : /\ member[u].status # "absent"
                            /\ r.at = "read" => u \in r.rows

TxInv == \A t \in Txs : RequestOK(tx[t]) /\ AcceptOK(tx[t]) /\ RoomsOK(tx[t])

(* The locks exclude: one accept of a link, one claim of a placeholder.    *)
LockInv ==
  \A s, t \in Txs : s # t /\ tx[s].kind = "accept" /\ tx[t].kind = "accept" =>
    /\ tx[s].at \in {"opened", "locked"} /\ tx[t].at \in {"opened", "locked"} =>
         tx[s].link # tx[t].link
    /\ tx[s].at = "locked" /\ tx[t].at = "locked" =>
         invite[tx[s].link].whom # invite[tx[t].link].whom

(* Of those with an account only the returning ever left, and who never    *)
(* joined has no date.                                                     *)
JoinerInv ==
  \A u \in Joiners : /\ member[u].status = "left" => u \in Returning
                     /\ member[u].status = "absent" => member[u].since = 0

(* The dates of joining are bounded, so that there is a latest.            *)
SinceInv == \E N \in Nat : \A u \in People : member[u].since =< N

(* A bound link is to a placeholder who is there until the claim.          *)
BoundInv ==
  \A i \in Invites :
    invite[i].live # "none" /\ invite[i].whom # None /\ claimedBy[invite[i].whom] = None =>
      Active(invite[i].whom)

IndInv == /\ TypeOK /\ TxShape /\ TxInv /\ LockInv /\ JoinerInv /\ SinceInv /\ BoundInv
          /\ UsesWithinMax /\ JoinedToldOnce

-----------------------------------------------------------------------------
(* The latest date of joining *)

LEMMA MaxExists ==
  ASSUME NEW S \in SUBSET Nat, S # {}, NEW N \in Nat, \A n \in S : n =< N
  PROVE  \E m \in S : \A n \in S : n =< m
<1>. DEFINE D == {N - n : n \in S}
            R == {ss \in Nat \X Nat : ss[1] < ss[2]}
<1>1. D \subseteq Nat
  <2>1. ASSUME NEW n \in S
        PROVE  N - n \in Nat
    OBVIOUS
  <2>. QED
    BY <2>1
<1>2. D # {}
  OBVIOUS
<1>3. IsWellFoundedOn(R, Nat)
  BY NatLessThanWellFounded DEF OpToRel
<1>4. PICK x \in D : \A y \in D : ~ (<<y, x>> \in R)
  <2>. HIDE DEF D, R
  <2>. QED
    BY <1>1, <1>2, <1>3, WFMin
<1>5. PICK m \in S : x = N - m
  OBVIOUS
<1>6. ASSUME NEW n \in S
      PROVE  n =< m
  <2>1. N - n \in D /\ N - n \in Nat /\ x \in Nat
    BY <1>1
  <2>2. ~ (N - n < x)
    BY <2>1, <1>4
  <2>. QED
    BY <2>2, <1>5
<1>. QED
  BY <1>6

LEMMA LatestType ==
  ASSUME TypeOK, SinceInv
  PROVE  Latest \in Nat /\ \A u \in People : member[u].since =< Latest
<1>. DEFINE S == {member[u].since : u \in People}
<1>1. S \subseteq Nat /\ S # {}
  BY DEF TypeOK, People
<1>2. PICK N \in Nat : \A u \in People : member[u].since =< N
  BY DEF SinceInv
<1>3. \A n \in S : n =< N
  BY <1>2
<1>4. \E m \in S : \A n \in S : n =< m
  <2>. HIDE DEF S
  <2>. QED
    BY <1>1, <1>3, MaxExists
<1>5. \E m \in S : \A u \in People : member[u].since =< m
  BY <1>4
<1>. QED
  BY <1>1, <1>5 DEF Latest

-----------------------------------------------------------------------------
(* Steps of one transaction *)


(* A step that assigns two fields leaves the others, and a record still.   *)
Fields == {"at", "kind", "who", "link", "existing", "room", "plan", "put", "rows", "splits"}
Step(q, a, f, v) == [q EXCEPT !.at = a, ![f] = v]

(* What r keeps of q. *)
Keeps(q, r, S) == \A g \in Fields \ S : r[g] = q[g]

LEMMA StepShape ==
  ASSUME NEW q, IsTx(q), NEW a, NEW v
  PROVE  \A f \in {"existing", "room", "rows", "splits"} :
           LET r == Step(q, a, f, v)
           IN  IsTx(r) /\ r.at = a /\ r[f] = v /\ Keeps(q, r, {"at", f})
<1>. DEFINE o == [q EXCEPT !.at = a]
            Goal(f) == LET r == Step(q, a, f, v)
                       IN  IsTx(r) /\ r.at = a /\ r[f] = v /\ Keeps(q, r, {"at", f})
<1>1. IsTx(o) /\ o.at = a /\ Keeps(q, o, {"at"})
  BY DEF IsTx, Keeps, Fields
<1>2. \A f : Step(q, a, f, v) = [o EXCEPT ![f] = v]
  BY DEF Step
<1>. HIDE DEF o
<1>3. Goal("existing")
  BY <1>1, <1>2 DEF IsTx, Keeps, Fields
<1>4. Goal("room")
  BY <1>1, <1>2 DEF IsTx, Keeps, Fields
<1>5. Goal("rows")
  BY <1>1, <1>2 DEF IsTx, Keeps, Fields
<1>6. Goal("splits")
  BY <1>1, <1>2 DEF IsTx, Keeps, Fields
<1>. QED
  BY <1>3, <1>4, <1>5, <1>6

(* What a transaction may come to be without touching anybody else's:      *)
(* nothing that it or another one holds is contradicted.                   *)
Fits(t, r) ==
  /\ IsTx(r) /\ RequestOK(r) /\ AcceptOK(r) /\ RoomsOK(r)
  /\ r.kind = "accept" /\ r.at \in {"opened", "locked"} =>
       \A s \in Others(t) :
         tx[s].kind = "accept" /\ tx[s].at \in {"opened", "locked"} =>
           /\ tx[s].link # r.link
           /\ tx[s].at = "locked" /\ r.at = "locked" => invite[tx[s].link].whom # invite[r.link].whom

LEMMA MoveKeeps ==
  ASSUME IndInv, NEW t \in Txs, NEW r, Move(t, r), Fits(t, r),
         UNCHANGED <<member, claimedBy, rooms, invite, joined>>
  PROVE  IndInv'
<1>1. /\ TxShape' /\ tx'[t] = r /\ \A s \in Others(t) : tx'[s] = tx[s]
  BY DEF IndInv, TxShape, Move, Fits, Others
<1>2. TypeOK'
  BY <1>1 DEF IndInv, TypeOK, Fits, RequestOK, Others
<1>3. TxInv'
  <2>. SUFFICES ASSUME NEW s \in Txs
                PROVE  (RequestOK(tx[s]) /\ AcceptOK(tx[s]) /\ RoomsOK(tx[s]))'
    BY DEF TxInv
  <2>1. \E q : tx'[s] = q /\ RequestOK(q) /\ AcceptOK(q) /\ RoomsOK(q)
    BY <1>1 DEF IndInv, TxInv, Fits, Others
  <2>. QED
    BY <2>1 DEF RequestOK, AcceptOK, RoomsOK, Active, Unclaimed
<1>4. LockInv'
  BY <1>1 DEF IndInv, LockInv, Fits, Others
<1>5. JoinerInv' /\ SinceInv' /\ BoundInv' /\ UsesWithinMax' /\ JoinedToldOnce'
  BY DEF IndInv, JoinerInv, SinceInv, BoundInv, UsesWithinMax, JoinedToldOnce, Active
<1>. QED
  BY <1>1, <1>2, <1>3, <1>4, <1>5 DEF IndInv

LEMMA FreshShape ==
  ASSUME NEW kind
  PROVE  IsTx(Fresh(kind))
BY DEF IsTx, Fresh

(* A transaction that ends holds nothing. *)
Ended(t, at) == [Fresh(tx[t].kind) EXCEPT !.at = at, !.splits = tx[t].splits, !.rows = tx[t].rows]

LEMMA EndedShape ==
  ASSUME NEW t \in Txs, NEW at
  PROVE  IsTx(Ended(t, at)) /\ Ended(t, at).at = at /\ Ended(t, at).rows = tx[t].rows
<1>. DEFINE o == [Fresh(tx[t].kind) EXCEPT !.at = at, !.splits = tx[t].splits]
<1>1. IsTx(o) /\ o.at = at
  <2>1. o = Step(Fresh(tx[t].kind), at, "splits", tx[t].splits)
    BY DEF Step
  <2>. QED
    BY <2>1, FreshShape, StepShape
<1>2. Ended(t, at) = [o EXCEPT !.rows = tx[t].rows]
  BY DEF Ended
<1>. HIDE DEF o
<1>. QED
  BY <1>1, <1>2 DEF IsTx

LEMMA EndFits ==
  ASSUME IndInv, NEW t \in Txs, NEW at \in {"done", "paused", "failed"}
  PROVE  Fits(t, Ended(t, at))
<1>1. tx[t].rows \subseteq People
  BY DEF IndInv, TxInv, RequestOK
<1>. QED
  BY <1>1, EndedShape DEF Fits, RequestOK, AcceptOK, RoomsOK

LEMMA EndKeeps ==
  ASSUME IndInv, NEW t \in Txs, NEW at \in {"done", "paused", "failed"}, End(t, at),
         UNCHANGED <<member, claimedBy, rooms, invite, joined>>
  PROVE  IndInv'
BY EndFits, MoveKeeps DEF End, Ended

LEMMA OpenKeeps ==
  ASSUME IndInv, NEW t \in Txs, Open(t)
  PROVE  IndInv'
<1>. DEFINE i == tx[t].link
            u == tx[t].who
            r == Step(tx[t], "opened", "existing", member[u].status)
<1>1. CASE ~ Usable(i)
  BY <1>1, EndKeeps DEF Open
<1>2. CASE Usable(i) /\ Active(u) /\ invite[i].whom = None
  BY <1>2, EndKeeps DEF Open
<1>3. CASE Usable(i) /\ ~ (Active(u) /\ invite[i].whom = None)
  <2>1. /\ Move(t, r) /\ UNCHANGED <<member, claimedBy, rooms, invite, joined>>
        /\ tx[t].kind = "accept" /\ tx[t].at = "new"
        /\ \A s \in Others(t) : ~ LocksInvite(s, i)
    BY <1>3 DEF Open, Step
  <2>2. /\ IsTx(tx[t]) /\ u \in Joiners /\ i \in Invites /\ tx[t].rows \subseteq People
    BY <2>1 DEF IndInv, TxShape, TxInv, RequestOK
  <2>3. /\ IsTx(r) /\ r.at = "opened" /\ r.kind = "accept" /\ r.who = u /\ r.link = i
        /\ r.existing = member[u].status /\ r.rows = tx[t].rows
    BY <2>1, <2>2, StepShape DEF Keeps, Fields
  <2>4. member[u].status \in {"absent", "active", "left"} /\ invite[i].whom = invite[i].whom
    BY <2>2 DEF IndInv, TypeOK, People
  <2>5. RequestOK(r) /\ RoomsOK(r)
    BY <2>2, <2>3 DEF RequestOK, RoomsOK
  <2>6. AcceptOK(r)
    BY <1>3, <2>2, <2>3, <2>4 DEF AcceptOK, Usable, IndInv, JoinerInv, Active
  <2>7. Fits(t, r)
    BY <2>1, <2>3, <2>5, <2>6 DEF Fits, LocksInvite
  <2>. QED
    BY <2>1, <2>7, MoveKeeps
<1>. QED
  BY <1>1, <1>2, <1>3

LEMMA LockPlaceholderKeeps ==
  ASSUME IndInv, NEW t \in Txs, LockPlaceholder(t)
  PROVE  IndInv'
<1>. DEFINE p == invite[tx[t].link].whom
            r == Step(tx[t], "locked", "room", member[p].room)
<1>1. CASE ~ Unclaimed(p)
  BY <1>1, EndKeeps DEF LockPlaceholder
<1>2. CASE Unclaimed(p)
  <2>1. /\ Move(t, r) /\ UNCHANGED <<member, claimedBy, rooms, invite, joined>>
        /\ tx[t].kind = "accept" /\ tx[t].at = "opened" /\ p # None
        /\ \A s \in Others(t) : ~ LocksMember(s, p)
    BY <1>2 DEF LockPlaceholder, Step
  <2>2. /\ IsTx(tx[t]) /\ RequestOK(tx[t]) /\ AcceptOK(tx[t]) /\ tx[t].link \in Invites
    BY <2>1 DEF IndInv, TxShape, TxInv, RequestOK
  <2>3. p \in Placeholders
    BY <2>1, <2>2 DEF IndInv, TypeOK
  <2>4. /\ IsTx(r) /\ r.at = "locked" /\ r.kind = "accept" /\ r.who = tx[t].who
        /\ r.link = tx[t].link /\ r.existing = tx[t].existing /\ r.rows = tx[t].rows
        /\ r.room = member[p].room
    <3>1. IsTx(r) /\ r.at = "locked" /\ r.room = member[p].room /\ Keeps(tx[t], r, {"at", "room"})
      BY <2>2, StepShape
    <3>. HIDE DEF r
    <3>. QED
      BY <2>1, <3>1 DEF Keeps, Fields
  <2>5. RequestOK(r) /\ RoomsOK(r)
    BY <2>1, <2>2, <2>4 DEF RequestOK, RoomsOK
  <2>6. AcceptOK(r)
    BY <1>2, <2>1, <2>2, <2>3, <2>4 DEF AcceptOK
  <2>7. \A s \in Others(t) :
          tx[s].kind = "accept" /\ tx[s].at \in {"opened", "locked"} =>
            /\ tx[s].link # r.link
            /\ tx[s].at = "locked" => invite[tx[s].link].whom # p
    BY <2>1, <2>4 DEF IndInv, LockInv, LocksMember, Others
  <2>8. Fits(t, r)
    BY <2>4, <2>5, <2>6, <2>7 DEF Fits
  <2>. QED
    BY <2>1, <2>8, MoveKeeps
<1>. QED
  BY <1>1, <1>2

LEMMA ValidateRoomsKeeps ==
  ASSUME IndInv, NEW t \in Txs, ValidateRooms(t)
  PROVE  IndInv'
<1>. DEFINE r == [tx[t] EXCEPT !.at = "opened"]
<1>1. CASE ~ \A u \in DOMAIN tx[t].put : Active(u)
  BY <1>1, EndKeeps DEF ValidateRooms
<1>2. CASE \A u \in DOMAIN tx[t].put : Active(u)
  <2>1. /\ Move(t, r) /\ UNCHANGED <<member, claimedBy, rooms, invite, joined>>
        /\ tx[t].kind = "rooms" /\ tx[t].at = "new"
    BY <1>2 DEF ValidateRooms
  <2>2. IsTx(tx[t]) /\ RequestOK(tx[t])
    BY DEF IndInv, TxShape, TxInv
  <2>3. /\ IsTx(r) /\ r.at = "opened" /\ r.kind = "rooms" /\ r.rows = tx[t].rows
        /\ r.plan = tx[t].plan /\ r.put = tx[t].put
    BY <2>1, <2>2 DEF IsTx
  <2>4. RequestOK(r) /\ AcceptOK(r)
    BY <2>1, <2>2, <2>3 DEF RequestOK, AcceptOK
  <2>5. RoomsOK(r)
    BY <1>2, <2>3 DEF RoomsOK, Active
  <2>. QED
    BY <2>1, <2>3, <2>4, <2>5, MoveKeeps DEF Fits
<1>. QED
  BY <1>1, <1>2

LEMMA PickRowsKeeps ==
  ASSUME IndInv, NEW t \in Txs, PickRows(t)
  PROVE  IndInv'
<1>. DEFINE S == {u \in People : member[u].status # "absent"}
            r == Step(tx[t], "read", "rows", S)
<1>1. /\ Move(t, r) /\ UNCHANGED <<member, claimedBy, rooms, invite, joined>>
      /\ tx[t].kind = "rooms" /\ tx[t].at = "opened"
  BY DEF PickRows, Step
<1>2. IsTx(tx[t]) /\ RequestOK(tx[t]) /\ RoomsOK(tx[t])
  BY DEF IndInv, TxShape, TxInv
<1>3. /\ IsTx(r) /\ r.at = "read" /\ r.kind = "rooms" /\ r.rows = S
      /\ r.plan = tx[t].plan /\ r.put = tx[t].put
  BY <1>1, <1>2, StepShape DEF Keeps, Fields
<1>4. RequestOK(r) /\ AcceptOK(r)
  BY <1>1, <1>2, <1>3 DEF RequestOK, AcceptOK
<1>5. RoomsOK(r)
  BY <1>1, <1>2, <1>3 DEF RoomsOK, RequestOK
<1>. QED
  BY <1>1, <1>3, <1>4, <1>5, MoveKeeps DEF Fits

LEMMA ReadMembersKeeps ==
  ASSUME IndInv, NEW t \in Txs, ReadMembers(t)
  PROVE  IndInv'
<1>. DEFINE S == {u \in People : Active(u)}
            r == Step(tx[t], "read", "rows", S)
<1>1. /\ Move(t, r) /\ UNCHANGED <<member, claimedBy, rooms, invite, joined>>
      /\ tx[t].kind = "bill"
  BY DEF ReadMembers, Step
<1>2. IsTx(tx[t])
  BY DEF IndInv, TxShape
<1>3. IsTx(r) /\ r.at = "read" /\ r.kind = "bill" /\ r.rows = S
  BY <1>1, <1>2, StepShape DEF Keeps, Fields
<1>4. RequestOK(r) /\ AcceptOK(r) /\ RoomsOK(r)
  BY <1>3 DEF RequestOK, AcceptOK, RoomsOK
<1>. QED
  BY <1>1, <1>3, <1>4, MoveKeeps DEF Fits

LEMMA PostBillKeeps ==
  ASSUME IndInv, NEW t \in Txs, PostBill(t)
  PROVE  IndInv'
<1>. DEFINE in == RoomSplit({u \in tx[t].rows : Active(u) /\ member[u].room # None})
            r == Step(tx[t], "done", "splits", ComputeSplits(in))
<1>1. /\ UNCHANGED <<member, claimedBy, rooms, invite, joined>>
      /\ IF Accepts(in) THEN Move(t, r) ELSE End(t, "paused")
      /\ tx[t].kind = "bill"
  BY DEF PostBill, Step
<1>. HIDE DEF in
<1>2. CASE ~ Accepts(in)
  BY <1>1, <1>2, EndKeeps
<1>3. CASE Accepts(in)
  <2>1. IsTx(tx[t]) /\ RequestOK(tx[t])
    BY DEF IndInv, TxShape, TxInv
  <2>2. IsTx(r) /\ r.at = "done" /\ r.kind = "bill" /\ r.rows = tx[t].rows
    BY <1>1, <2>1, StepShape DEF Keeps, Fields
  <2>3. RequestOK(r) /\ AcceptOK(r) /\ RoomsOK(r)
    BY <2>1, <2>2 DEF RequestOK, AcceptOK, RoomsOK
  <2>. QED
    BY <1>1, <1>3, <2>2, <2>3, MoveKeeps DEF Fits
<1>. QED
  BY <1>2, <1>3

LEMMA AbortKeeps ==
  ASSUME IndInv, NEW t \in Txs, Abort(t)
  PROVE  IndInv'
BY EndKeeps DEF Abort

-----------------------------------------------------------------------------
(* The house and its links *)

LEMMA CreatePlaceholderKeeps ==
  ASSUME IndInv, NEW p \in Placeholders, CreatePlaceholder(p)
  PROVE  IndInv'
<1>1. /\ member[p].status = "absent" /\ p \in People /\ p \notin Joiners
      /\ member' = [member EXCEPT ![p] = [NoOne EXCEPT !.status = "active"]]
      /\ UNCHANGED <<claimedBy, rooms, invite, joined, tx>>
  BY HouseAssumption DEF CreatePlaceholder, People
<1>2. /\ member'[p] = [status |-> "active", room |-> None, since |-> 0]
      /\ \A u \in People \ {p} : member'[u] = member[u]
  BY <1>1 DEF IndInv, TypeOK, NoOne
<1>3. TypeOK'
  BY <1>1 DEF IndInv, TypeOK, NoOne, RoomIds
<1>4. TxShape' /\ LockInv'
  BY <1>1 DEF IndInv, TxShape, LockInv
<1>5. TxInv'
  <2>. SUFFICES ASSUME NEW t \in Txs
                PROVE  (RequestOK(tx[t]) /\ AcceptOK(tx[t]) /\ RoomsOK(tx[t]))'
    BY DEF TxInv
  <2>1. RequestOK(tx[t]) /\ AcceptOK(tx[t]) /\ RoomsOK(tx[t]) /\ tx'[t] = tx[t]
    BY <1>1 DEF IndInv, TxInv
  <2>2. AcceptOK(tx[t])'
    BY <1>1, <1>2, <2>1 DEF AcceptOK, RequestOK, Active, Unclaimed, People
  <2>3. RoomsOK(tx[t])'
    BY <1>1, <1>2, <2>1 DEF RoomsOK, RequestOK
  <2>. QED
    BY <2>1, <2>2, <2>3 DEF RequestOK
<1>6. JoinerInv' /\ JoinedToldOnce'
  BY <1>1, <1>2 DEF IndInv, JoinerInv, JoinedToldOnce, People
<1>7. SinceInv'
  BY <1>2 DEF IndInv, SinceInv
<1>8. BoundInv' /\ UsesWithinMax'
  BY <1>1, <1>2 DEF IndInv, BoundInv, UsesWithinMax, Active, TypeOK, People
<1>. QED
  BY <1>3, <1>4, <1>5, <1>6, <1>7, <1>8 DEF IndInv

LEMMA CreateInviteKeeps ==
  ASSUME IndInv, NEW i \in Invites, CreateInvite(i)
  PROVE  IndInv'
<1>1. PICK p \in Placeholders \cup {None} :
        /\ p # None => Unclaimed(p)
        /\ invite' = [invite EXCEPT ![i] = [live |-> "live", whom |-> p, uses |-> 0]]
  BY DEF CreateInvite
<1>2. invite[i].live = "none" /\ UNCHANGED <<member, claimedBy, rooms, joined, tx>>
  BY DEF CreateInvite
<1>3. /\ invite'[i].live = "live" /\ invite'[i].whom = p /\ invite'[i].uses = 0
      /\ \A j \in Invites \ {i} : invite'[j] = invite[j]
  BY <1>1 DEF IndInv, TypeOK
<1>4. TypeOK'
  BY <1>1, <1>2 DEF IndInv, TypeOK
<1>5. \A t \in Txs : tx[t].kind = "accept" /\ tx[t].at \in {"opened", "locked"} =>
        tx[t].link \in Invites \ {i}
  BY <1>2 DEF IndInv, TxInv, RequestOK, AcceptOK
<1>6. TxShape' /\ LockInv'
  BY <1>2, <1>3, <1>5 DEF IndInv, TxShape, LockInv
<1>7. TxInv'
  <2>. SUFFICES ASSUME NEW t \in Txs
                PROVE  (RequestOK(tx[t]) /\ AcceptOK(tx[t]) /\ RoomsOK(tx[t]))'
    BY DEF TxInv
  <2>1. RequestOK(tx[t]) /\ AcceptOK(tx[t]) /\ RoomsOK(tx[t]) /\ tx'[t] = tx[t]
    BY <1>2 DEF IndInv, TxInv
  <2>. QED
    BY <1>2, <1>3, <1>5, <2>1 DEF AcceptOK, RoomsOK, RequestOK, Active, Unclaimed
<1>8. JoinerInv' /\ JoinedToldOnce' /\ SinceInv'
  BY <1>2 DEF IndInv, JoinerInv, JoinedToldOnce, SinceInv
<1>9. BoundInv' /\ UsesWithinMax'
  BY <1>1, <1>2, <1>3, HouseAssumption
     DEF IndInv, BoundInv, UsesWithinMax, Active, Unclaimed, TypeOK
<1>. QED
  BY <1>4, <1>6, <1>7, <1>8, <1>9 DEF IndInv

LEMMA ExpireKeeps ==
  ASSUME IndInv, NEW i \in Invites, Expire(i)
  PROVE  IndInv'
<1>1. /\ invite[i].live = "live" /\ invite' = [invite EXCEPT ![i].live = "expired"]
      /\ UNCHANGED <<member, claimedBy, rooms, joined, tx>>
  BY DEF Expire
<1>2. TypeOK'
  BY <1>1 DEF IndInv, TypeOK
<1>3. \A j \in Invites : /\ invite'[j].whom = invite[j].whom /\ invite'[j].uses = invite[j].uses
                         /\ invite'[j].live = "none" <=> invite[j].live = "none"
  BY <1>1 DEF IndInv, TypeOK
<1>4. TxShape' /\ LockInv'
  <2>1. \A t \in Txs : tx[t].kind = "accept" /\ tx[t].at = "locked" => tx[t].link \in Invites
    BY DEF IndInv, TxInv, RequestOK
  <2>. QED
    BY <1>1, <1>3, <2>1 DEF IndInv, TxShape, LockInv
<1>5. TxInv'
  <2>. SUFFICES ASSUME NEW t \in Txs
                PROVE  (RequestOK(tx[t]) /\ AcceptOK(tx[t]) /\ RoomsOK(tx[t]))'
    BY DEF TxInv
  <2>1. RequestOK(tx[t]) /\ AcceptOK(tx[t]) /\ RoomsOK(tx[t]) /\ tx'[t] = tx[t]
    BY <1>1 DEF IndInv, TxInv
  <2>. QED
    BY <1>1, <1>3, <2>1 DEF AcceptOK, RoomsOK, RequestOK, Active, Unclaimed
<1>6. JoinerInv' /\ JoinedToldOnce' /\ SinceInv'
  BY <1>1 DEF IndInv, JoinerInv, JoinedToldOnce, SinceInv
<1>7. BoundInv' /\ UsesWithinMax'
  BY <1>1, <1>3 DEF IndInv, BoundInv, UsesWithinMax, Active
<1>. QED
  BY <1>2, <1>4, <1>5, <1>6, <1>7 DEF IndInv

-----------------------------------------------------------------------------
(* What changes memberships and rooms *)

(* Its transaction over, those of the others stand where they stood.       *)
LEMMA EndLeavesOthers ==
  ASSUME IndInv, NEW t \in Txs, NEW at \in {"done", "paused", "failed"}, End(t, at)
  PROVE  /\ TxShape' /\ tx'[t].at = at /\ tx'[t].rows \subseteq People
         /\ RequestOK(tx'[t])
         /\ \A s \in Others(t) : tx'[s] = tx[s]
<1>1. tx' = [tx EXCEPT ![t] = Ended(t, at)]
  BY DEF End, Move, Ended
<1>2. IsTx(Ended(t, at)) /\ RequestOK(Ended(t, at))
  BY EndFits DEF Fits
<1>3. TxShape' /\ tx'[t] = Ended(t, at) /\ \A s \in Others(t) : tx'[s] = tx[s]
  BY <1>1, <1>2 DEF IndInv, TxShape, Others
<1>. QED
  BY <1>2, <1>3, EndedShape DEF RequestOK

LEMMA JoinPlainKeeps ==
  ASSUME IndInv, NEW t \in Txs, JoinPlain(t)
  PROVE  IndInv'
<1>. DEFINE u == tx[t].who
            i == tx[t].link
<1>1. /\ tx[t].kind = "accept" /\ tx[t].at = "opened" /\ invite[i].whom = None
      /\ End(t, "done") /\ UNCHANGED <<claimedBy, rooms>>
      /\ IF Joins(t)
         THEN /\ member' = [member EXCEPT ![u] = [status |-> "active", room |-> None,
                                                  since |-> Latest + 1]]
              /\ invite' = [invite EXCEPT ![i].uses = @ + 1]
              /\ joined' = [joined EXCEPT ![u] = @ + 1]
         ELSE UNCHANGED <<member, invite, joined>>
  BY DEF JoinPlain
<1>2. CASE ~ Joins(t)
  BY <1>1, <1>2, EndKeeps
<1>3. CASE Joins(t)
  <2>1. /\ u \in Joiners /\ i \in Invites /\ u \in People /\ u \notin Placeholders
        /\ invite[i].live # "none" /\ invite[i].uses < MaxUses
        /\ tx[t].existing = "left" => u \in Returning
    BY <1>1, HouseAssumption DEF IndInv, TxInv, RequestOK, AcceptOK, People
  <2>2. Latest \in Nat /\ \A v \in People : member[v].since =< Latest
    BY LatestType DEF IndInv
  <2>3. /\ member'[u] = [status |-> "active", room |-> None, since |-> Latest + 1]
        /\ \A v \in People \ {u} : member'[v] = member[v]
    BY <1>1, <1>3, <2>1 DEF IndInv, TypeOK
  <2>4. /\ \A j \in Invites : /\ invite'[j].live = invite[j].live
                              /\ invite'[j].whom = invite[j].whom
                              /\ invite'[j].uses = IF j = i THEN invite[j].uses + 1
                                                   ELSE invite[j].uses
    BY <1>1, <1>3, <2>1 DEF IndInv, TypeOK
  <2>14. /\ joined' \in [Joiners -> Nat] /\ joined'[u] = joined[u] + 1
         /\ \A v \in Joiners \ {u} : joined'[v] = joined[v]
    BY <1>1, <1>3, <2>1 DEF IndInv, TypeOK
  <2>5. /\ TxShape' /\ tx'[t].at = "done" /\ RequestOK(tx'[t])
        /\ \A s \in Others(t) : tx'[s] = tx[s]
    BY <1>1, EndLeavesOthers
  <2>6. TypeOK'
    <3>1. member' \in [People -> [status : {"absent", "active", "left"},
                                  room : RoomIds \cup {None}, since : Nat]]
      BY <1>1, <1>3, <2>2 DEF IndInv, TypeOK
    <3>2. invite' \in [Invites -> [live : {"none", "live", "expired"},
                                   whom : Placeholders \cup {None}, uses : Nat]]
      BY <1>1, <1>3, <2>1 DEF IndInv, TypeOK
    <3>3. \A v \in People : member'[v].room \in DOMAIN rooms \cup {None}
      BY <2>3 DEF IndInv, TypeOK
    <3>4. \A s \in Txs : tx'[s].at \in
            {"new", "opened", "locked", "read", "done", "paused", "failed"}
      BY <2>5 DEF IndInv, TypeOK, Others
    <3>. QED
      BY <1>1, <2>14, <3>1, <3>2, <3>3, <3>4 DEF IndInv, TypeOK
  <2>7. LockInv'
    <3>1. \A s \in Txs : tx[s].kind = "accept" /\ tx[s].at = "locked" => tx[s].link \in Invites
      BY DEF IndInv, TxInv, RequestOK
    <3>. QED
      BY <2>4, <2>5, <3>1 DEF IndInv, LockInv, Others
  <2>8. TxInv'
    <3>. SUFFICES ASSUME NEW s \in Txs
                  PROVE  (RequestOK(tx[s]) /\ AcceptOK(tx[s]) /\ RoomsOK(tx[s]))'
      BY DEF TxInv
    <3>1. CASE s = t
      BY <2>5, <3>1 DEF RequestOK, AcceptOK, RoomsOK
    <3>2. CASE s # t
      <4>1. /\ RequestOK(tx[s]) /\ AcceptOK(tx[s]) /\ RoomsOK(tx[s]) /\ tx'[s] = tx[s]
            /\ tx[s].kind = "accept" /\ tx[s].at \in {"opened", "locked"} => tx[s].link # i
        BY <1>1, <2>5, <3>2 DEF IndInv, TxInv, LockInv, Others
      <4>2. AcceptOK(tx[s])'
        <5>. SUFFICES ASSUME tx[s].kind = "accept", tx[s].at \in {"opened", "locked"}
                      PROVE  AcceptOK(tx[s])'
          BY <4>1 DEF AcceptOK
        <5>1. /\ tx[s].link \in Invites \ {i} /\ tx[s].who \in People
              /\ \A p \in Placeholders : member'[p] = member[p]
          BY <2>1, <2>3, <4>1 DEF RequestOK, People
        <5>2. Active(tx[s].who) => Active(tx[s].who)'
          BY <2>3, <4>1, <5>1 DEF Active
        <5>3. member[tx[s].who].status # "left" => member'[tx[s].who].status # "left"
          BY <2>3, <5>1
        <5>. QED
          BY <1>1, <2>4, <4>1, <5>1, <5>2, <5>3 DEF AcceptOK, Active, Unclaimed
      <4>3. RoomsOK(tx[s])'
        BY <2>3, <4>1 DEF RoomsOK, RequestOK
      <4>. QED
        BY <4>1, <4>2, <4>3 DEF RequestOK
    <3>. QED
      BY <3>1, <3>2
  <2>9. JoinerInv'
    BY <2>1, <2>3 DEF IndInv, JoinerInv, People
  <2>10. JoinedToldOnce'
    <3>1. u \notin Returning => joined[u] = 0
      BY <1>3, <2>1 DEF Joins, IndInv, JoinerInv, JoinedToldOnce
    <3>. QED
      BY <2>1, <2>2, <2>3, <2>14, <3>1 DEF IndInv, JoinedToldOnce, People
  <2>11. SinceInv'
    <3>1. Latest + 1 \in Nat /\ \A v \in People : member'[v].since =< Latest + 1
      BY <2>2, <2>3 DEF IndInv, TypeOK
    <3>. QED
      BY <3>1 DEF SinceInv
  <2>12. BoundInv'
    BY <1>1, <2>1, <2>3, <2>4 DEF IndInv, BoundInv, Active, TypeOK, People
  <2>13. UsesWithinMax'
    <3>1. \A j \in Invites : invite[j].uses \in Nat /\ invite[j].uses =< MaxUses
      BY DEF IndInv, TypeOK, UsesWithinMax
    <3>. QED
      BY <2>1, <2>4, <3>1, HouseAssumption DEF UsesWithinMax
  <2>. QED
    BY <2>5, <2>6, <2>7, <2>8, <2>9, <2>10, <2>11, <2>12, <2>13 DEF IndInv
<1>. QED
  BY <1>2, <1>3

(* What a claim is when it commits, of a placeholder still there.          *)
LEMMA ClaimFacts ==
  ASSUME IndInv, NEW t \in Txs, Claim(t)
  PROVE  LET u == tx[t].who
             i == tx[t].link
             p == invite[i].whom
         IN  /\ tx[t].kind = "accept" /\ End(t, "done") /\ rooms' = rooms
             /\ u \in Joiners /\ u \in People /\ i \in Invites
             /\ p \in Placeholders /\ p \in People /\ p # u /\ Unclaimed(p)
             /\ invite[i].live # "none" /\ invite[i].uses < MaxUses
             /\ tx[t].existing \in {"absent", "active", "left"}
             /\ tx[t].existing = "left" => u \in Returning
             /\ tx[t].existing = "active" => Active(u)
             /\ tx[t].existing = "absent" => member[u].status # "left"
             /\ tx[t].room = member[p].room
             /\ member'[u] = IF Joins(t) THEN [status |-> "active", room |-> tx[t].room,
                                               since |-> Latest + 1]
                             ELSE IF member[u].room = None /\ Active(u)
                                  THEN [member[u] EXCEPT !.room = tx[t].room] ELSE member[u]
             /\ member'[p] = [status |-> "left", room |-> None, since |-> member[p].since]
             /\ \A v \in People \ {u, p} : member'[v] = member[v]
             /\ claimedBy' = [claimedBy EXCEPT ![p] = u]
<1>. DEFINE u == tx[t].who
            i == tx[t].link
            p == invite[i].whom
<1>1. /\ tx[t].at = "locked" /\ member' = Settled(t, p) /\ End(t, "done") /\ rooms' = rooms
      /\ claimedBy' = [claimedBy EXCEPT ![p] = u]
  BY DEF Claim
<1>2. RequestOK(tx[t]) /\ AcceptOK(tx[t])
  BY DEF IndInv, TxInv
<1>3. tx[t].kind = "accept" /\ u \in Joiners /\ i \in Invites /\ p \in Placeholders
  BY <1>1, <1>2 DEF RequestOK, AcceptOK
<1>4. u \in People /\ p \in People /\ p # u
  BY <1>3, HouseAssumption DEF People
<1>5. /\ member \in [People -> [status : {"absent", "active", "left"},
                                room : RoomIds \cup {None}, since : Nat]]
  BY DEF IndInv, TypeOK
<1>6. /\ member'[u] = IF Joins(t) THEN [status |-> "active", room |-> tx[t].room,
                                        since |-> Latest + 1]
                      ELSE IF member[u].room = None /\ Active(u)
                           THEN [member[u] EXCEPT !.room = tx[t].room] ELSE member[u]
      /\ member'[p] = [member[p] EXCEPT !.status = "left", !.room = None]
      /\ \A v \in People \ {u, p} : member'[v] = member[v]
  BY <1>1, <1>4, <1>5 DEF Settled
<1>7. member'[p] = [status |-> "left", room |-> None, since |-> member[p].since]
  <2>. DEFINE o == [member[p] EXCEPT !.status = "left"]
  <2>1. o = [status |-> "left", room |-> member[p].room, since |-> member[p].since]
    <3>1. member[p] \in [status : {"absent", "active", "left"}, room : RoomIds \cup {None}, since : Nat]
      BY <1>4, <1>5
    <3>2. \A S, R, N : \A q \in [status : S, room : R, since : N] :
            [q EXCEPT !.status = "left"] = [status |-> "left", room |-> q.room, since |-> q.since]
      OBVIOUS
    <3>. HIDE DEF p
    <3>. QED
      BY <3>1, <3>2
  <2>2. member'[p] = [o EXCEPT !.room = None]
    BY <1>6
  <2>3. \A x, y, z, n : [[status |-> x, room |-> y, since |-> z] EXCEPT !.room = n]
                          = [status |-> x, room |-> n, since |-> z]
    OBVIOUS
  <2>. HIDE DEF o
  <2>. QED
    BY <2>1, <2>2, <2>3
<1>. QED
  BY <1>1, <1>2, <1>3, <1>4, <1>6, <1>7 DEF AcceptOK

LEMMA ClaimKeepsIndInv ==
  ASSUME IndInv, NEW t \in Txs, Claim(t)
  PROVE  IndInv'
<1>. DEFINE u == tx[t].who
            i == tx[t].link
            p == invite[i].whom
            Joining == Joins(t)
            Inherited == tx[t].room
            People3 == [status : {"absent", "active", "left"}, room : RoomIds \cup {None}, since : Nat]
<1>1. /\ u \in Joiners /\ u \in People /\ i \in Invites
      /\ p \in Placeholders /\ p \in People /\ p # u /\ Unclaimed(p)
      /\ invite[i].live # "none" /\ invite[i].uses < MaxUses
      /\ tx[t].existing = "left" => u \in Returning
      /\ tx[t].existing = "active" => Active(u)
      /\ tx[t].kind = "accept" /\ End(t, "done") /\ rooms' = rooms
  BY ClaimFacts
<1>2. /\ Inherited = member[p].room
      /\ member'[u] = IF Joining THEN [status |-> "active", room |-> Inherited,
                                       since |-> Latest + 1]
                      ELSE IF member[u].room = None /\ Active(u)
                           THEN [member[u] EXCEPT !.room = Inherited] ELSE member[u]
      /\ member'[p] = [status |-> "left", room |-> None, since |-> member[p].since]
      /\ \A v \in People \ {u, p} : member'[v] = member[v]
      /\ claimedBy' = [claimedBy EXCEPT ![p] = u]
  BY ClaimFacts
<1>3. /\ invite' = [invite EXCEPT ![i].uses = @ + 1]
      /\ joined' = [joined EXCEPT ![u] = IF Joining THEN @ + 1 ELSE @]
      /\ tx[t].at = "locked"
      /\ DOMAIN member' = People /\ member' = [v \in People |-> member'[v]]
  BY DEF Claim, Settled, IndInv, TypeOK
<1>4. Latest \in Nat /\ \A v \in People : member[v].since =< Latest
  BY LatestType DEF IndInv
<1>5. /\ TxShape' /\ tx'[t].at = "done" /\ RequestOK(tx'[t])
      /\ \A s \in Others(t) : tx'[s] = tx[s]
  BY <1>1, EndLeavesOthers
<1>6. /\ Joining <=> \/ tx[t].existing = "absent" /\ member[u].status = "absent"
                     \/ tx[t].existing = "left"
      /\ tx[t].existing \in {"absent", "active", "left"}
  BY ClaimFacts DEF Joins
<1>7. /\ \A v \in People : member[v] \in People3
      /\ \A v \in People : member[v].room \in DOMAIN rooms \cup {None}
      /\ DOMAIN rooms \subseteq RoomIds
  BY DEF IndInv, TypeOK
<1>8. /\ \A j \in Invites : /\ invite'[j].live = invite[j].live
                            /\ invite'[j].whom = invite[j].whom
                            /\ invite'[j].uses = IF j = i THEN invite[j].uses + 1
                                                 ELSE invite[j].uses
  BY <1>1, <1>3 DEF IndInv, TypeOK
<1>9. joined' \in [Joiners -> Nat] /\ joined'[u] = (IF Joining THEN joined[u] + 1 ELSE joined[u])
  <2>. HIDE DEF Joining
  <2>. QED
    BY <1>1, <1>3 DEF IndInv, TypeOK
<1>10. \A v \in Joiners \ {u} : joined'[v] = joined[v]
  BY <1>1, <1>3 DEF IndInv, TypeOK
<1>11. /\ claimedBy' \in [Placeholders -> Joiners \cup {None}] /\ claimedBy'[p] = u /\ u # None
       /\ \A q \in Placeholders \ {p} : claimedBy'[q] = claimedBy[q]
  BY <1>1, <1>2, HouseAssumption DEF IndInv, TypeOK
<1>. HIDE DEF Joining, Inherited
(* The claimer after the claim. *)
<1>12. /\ member'[u] \in People3
       /\ member'[u].room \in {member[p].room, member[u].room}
       /\ member'[u].status = (IF Joining THEN "active" ELSE member[u].status)
       /\ member'[u].since = (IF Joining THEN Latest + 1 ELSE member[u].since)
  <2>1. member[u] \in People3 /\ member[p].room \in RoomIds \cup {None}
    BY <1>1, <1>7
  <2>2. CASE Joining
    <3>1. \A r \in RoomIds \cup {None}, n \in Nat :
            [status |-> "active", room |-> r, since |-> n] \in People3
      OBVIOUS
    <3>2. member'[u] = [status |-> "active", room |-> member[p].room, since |-> Latest + 1]
      BY <1>2, <2>2
    <3>3. member[p].room \in RoomIds \cup {None} /\ Latest + 1 \in Nat
      BY <1>4, <2>1
    <3>4. member'[u] \in People3
      <4>. HIDE DEF People3, u, p
      <4>. QED
        BY <3>1, <3>2, <3>3
    <3>5. /\ member'[u].status = "active" /\ member'[u].room = member[p].room
          /\ member'[u].since = Latest + 1
      <4>. HIDE DEF u, p
      <4>. QED
        BY <3>2
    <3>. HIDE DEF People3, u, p
    <3>. QED
      BY <2>2, <3>4, <3>5
  <2>3. CASE ~ Joining /\ member[u].room = None /\ Active(u)
    <3>1. \A q \in People3, r \in RoomIds \cup {None} :
            /\ [q EXCEPT !.room = r] \in People3 /\ [q EXCEPT !.room = r].room = r
            /\ [q EXCEPT !.room = r].status = q.status /\ [q EXCEPT !.room = r].since = q.since
      OBVIOUS
    <3>2. member'[u] = [member[u] EXCEPT !.room = member[p].room]
      BY <1>2, <2>3
    <3>. HIDE DEF People3
    <3>. QED
      BY <2>1, <2>3, <3>1, <3>2
  <2>4. CASE ~ Joining /\ ~ (member[u].room = None /\ Active(u))
    BY <1>2, <2>1, <2>4
  <2>. QED
    BY <2>2, <2>3, <2>4
<1>. HIDE DEF People3
<1>22. /\ member'[p].status = "left" /\ member'[p].room = None /\ member'[p].since = member[p].since
       /\ \A v \in People \ {u, p} : member'[v] = member[v]
  <2>1. /\ member'[p] = [status |-> "left", room |-> None, since |-> member[p].since]
        /\ \A v \in People \ {u, p} : member'[v] = member[v]
    BY <1>2
  <2>. HIDE DEF u, p
  <2>. QED
    BY <2>1
<1>23. invite' \in [Invites -> [live : {"none", "live", "expired"},
                                whom : Placeholders \cup {None}, uses : Nat]]
  <2>1. i \in Invites /\ invite' = [invite EXCEPT ![i].uses = @ + 1]
    BY <1>1, <1>3
  <2>. HIDE DEF i
  <2>. QED
    BY <2>1 DEF IndInv, TypeOK
<1>. HIDE DEF u, p
<1>13. TypeOK'
  <2>1. \A v \in People : member'[v] \in People3
    <3>1. member'[p] \in People3
      BY <1>1, <1>2, <1>7 DEF People3
    <3>. QED
      BY <1>2, <1>7, <1>12, <3>1
  <2>2. member' \in [People -> People3]
    BY <1>3, <2>1
  <2>3. \A v \in People : member'[v].room \in DOMAIN rooms \cup {None}
    BY <1>1, <1>7, <1>12, <1>22
  <2>5. \A s \in Txs : tx'[s].at \in
          {"new", "opened", "locked", "read", "done", "paused", "failed"}
    BY <1>5 DEF IndInv, TypeOK, Others
  <2>. QED
    BY <1>1, <1>7, <1>9, <1>11, <1>23, <2>2, <2>3, <2>5 DEF TypeOK, People3
<1>14. LockInv'
  <2>1. \A s \in Txs : tx[s].kind = "accept" /\ tx[s].at = "locked" => tx[s].link \in Invites
    BY DEF IndInv, TxInv, RequestOK
  <2>. QED
    BY <1>5, <1>8, <2>1 DEF IndInv, LockInv, Others
<1>15. TxInv'
  <2>. SUFFICES ASSUME NEW s \in Txs
                PROVE  (RequestOK(tx[s]) /\ AcceptOK(tx[s]) /\ RoomsOK(tx[s]))'
    BY DEF TxInv
  <2>1. CASE s = t
    BY <1>5, <2>1 DEF RequestOK, AcceptOK, RoomsOK
  <2>2. CASE s # t
    <3>1. /\ RequestOK(tx[s]) /\ AcceptOK(tx[s]) /\ RoomsOK(tx[s]) /\ tx'[s] = tx[s]
      BY <1>5, <2>2 DEF IndInv, TxInv, Others
    <3>2. tx[s].kind = "accept" /\ tx[s].at \in {"opened", "locked"} =>
            tx[s].link # i /\ (tx[s].at = "locked" => invite[tx[s].link].whom # p)
      BY <1>1, <1>3, <2>2 DEF IndInv, LockInv, p
    <3>3. AcceptOK(tx[s])'
      <4>. SUFFICES ASSUME tx[s].kind = "accept", tx[s].at \in {"opened", "locked"}
                    PROVE  AcceptOK(tx[s])'
        BY <3>1 DEF AcceptOK
      <4>1. tx[s].link \in Invites \ {i} /\ tx[s].who \in People \ {p}
        BY <1>1, <3>1, <3>2, HouseAssumption DEF RequestOK, People
      <4>2. \A q \in Placeholders \ {p} : member'[q] = member[q] /\ claimedBy'[q] = claimedBy[q]
        BY <1>1, <1>11, <1>22, HouseAssumption DEF People
      <4>3. Active(tx[s].who) => Active(tx[s].who)'
        BY <1>12, <1>22, <3>1, <4>1 DEF Active
      <4>4. member[tx[s].who].status # "left" => member'[tx[s].who].status # "left"
        BY <1>12, <1>22, <4>1
      <4>. QED
        BY <1>8, <3>1, <3>2, <4>1, <4>2, <4>3, <4>4 DEF AcceptOK, Active, Unclaimed
    <3>4. RoomsOK(tx[s])'
      <4>1. \A v \in People : member[v].status # "absent" => member'[v].status # "absent"
        BY <1>12, <1>22
      <4>. QED
        BY <3>1, <4>1 DEF RoomsOK, RequestOK
    <3>. QED
      BY <3>1, <3>3, <3>4 DEF RequestOK
  <2>. QED
    BY <2>1, <2>2
<1>16. \A v \in Joiners \ {u} : member'[v] = member[v] /\ v \in People
  BY <1>1, <1>2, HouseAssumption DEF People
<1>17. JoinerInv'
  BY <1>1, <1>12, <1>16 DEF IndInv, JoinerInv
<1>18. JoinedToldOnce'
  <2>1. Joining /\ u \notin Returning => joined[u] = 0
    BY <1>1, <1>6 DEF IndInv, JoinerInv, JoinedToldOnce
  <2>. QED
    BY <1>1, <1>4, <1>9, <1>10, <1>12, <1>16, <2>1 DEF IndInv, JoinedToldOnce
<1>19. SinceInv'
  <2>1. Latest + 1 \in Nat /\ \A v \in People : member'[v].since =< Latest + 1
    <3>1. \A v \in People : member[v].since \in Nat
      BY <1>7 DEF People3
    <3>. QED
      BY <1>1, <1>4, <1>12, <1>22, <3>1
  <2>. QED
    BY <2>1 DEF SinceInv
<1>20. BoundInv'
  <2>1. \A j \in Invites : invite[j].whom \in Placeholders \cup {None}
    BY DEF IndInv, TypeOK
  <2>2. \A q \in Placeholders \ {p} : member'[q] = member[q]
    BY <1>1, <1>2, HouseAssumption DEF People
  <2>. QED
    BY <1>8, <1>11, <2>1, <2>2 DEF IndInv, BoundInv, Active
<1>21. UsesWithinMax'
  <2>1. \A j \in Invites : invite[j].uses \in Nat /\ invite[j].uses =< MaxUses
    BY DEF IndInv, TypeOK, UsesWithinMax
  <2>. QED
    BY <1>1, <1>8, <2>1, HouseAssumption DEF UsesWithinMax
<1>. QED
  BY <1>5, <1>13, <1>14, <1>15, <1>17, <1>18, <1>19, <1>20, <1>21 DEF IndInv

LEMMA ReplaceRoomsKeeps ==
  ASSUME IndInv, NEW t \in Txs, ReplaceRooms(t)
  PROVE  IndInv'
<1>. DEFINE put == tx[t].put
            picked == tx[t].rows
            Person == [status : {"absent", "active", "left"}, room : RoomIds \cup {None}, since : Nat]
<1>1. /\ tx[t].kind = "rooms" /\ tx[t].at = "read"
      /\ \A s \in Others(t), p \in picked : ~ LocksMember(s, p)
      /\ UNCHANGED <<claimedBy, invite, joined>>
  BY DEF ReplaceRooms
<1>2. CASE Referred(t)
  BY <1>1, <1>2, EndKeeps DEF ReplaceRooms
<1>3. CASE ~ Referred(t)
  <2>1. /\ End(t, "done")
        /\ member' = [u \in People |-> [member[u] EXCEPT !.room =
                        IF u \in DOMAIN put THEN <<t, put[u]>>
                        ELSE IF u \in picked THEN None ELSE member[u].room]]
        /\ rooms' = [r \in {<<t, i>> : i \in DOMAIN tx[t].plan} |-> tx[t].plan[r[2]]]
    BY <1>3 DEF ReplaceRooms
  <2>2. /\ tx[t].plan \in Seq(1..Whole) /\ DOMAIN put \subseteq People
        /\ \A u \in DOMAIN put : put[u] \in DOMAIN tx[t].plan /\ u \in picked
    BY <1>1 DEF IndInv, TxInv, RequestOK, RoomsOK
  <2>3. DOMAIN tx[t].plan \subseteq Nat \ {0} /\ DOMAIN rooms' = {<<t, i>> : i \in DOMAIN tx[t].plan}
    BY <2>1, <2>2
  <2>4. DOMAIN rooms' \subseteq RoomIds
    BY <2>3 DEF RoomIds
  <2>5. \A u \in People : member[u] \in Person
    BY DEF IndInv, TypeOK
  <2>6. \A u \in People \ picked : member[u].room = None
    BY <1>3 DEF Referred
  <2>7. \A u \in People :
          (IF u \in DOMAIN put THEN <<t, put[u]>> ELSE IF u \in picked THEN None ELSE member[u].room)
            \in DOMAIN rooms' \cup {None}
    BY <2>2, <2>3, <2>6
  <2>8. ASSUME NEW u \in People
        PROVE  /\ member'[u] \in Person /\ member'[u].room \in DOMAIN rooms' \cup {None}
               /\ member'[u].status = member[u].status /\ member'[u].since = member[u].since
               /\ u \notin picked => member'[u].room = member[u].room
    <3>1. PICK r : /\ member'[u] = [member[u] EXCEPT !.room = r] /\ r \in DOMAIN rooms' \cup {None}
                   /\ u \notin picked => r = member[u].room
      BY <2>1, <2>2, <2>7
    <3>. QED
      BY <2>4, <2>5, <3>1
  <2>9. /\ TxShape' /\ tx'[t].at = "done" /\ RequestOK(tx'[t])
        /\ \A s \in Others(t) : tx'[s] = tx[s]
    BY <2>1, EndLeavesOthers
  <2>10. TypeOK'
    <3>1. member' \in [People -> Person]
      BY <2>1, <2>8
    <3>2. \A s \in Txs : tx'[s].at \in
            {"new", "opened", "locked", "read", "done", "paused", "failed"}
      BY <2>9 DEF IndInv, TypeOK, Others
    <3>. QED
      BY <1>1, <2>4, <2>8, <3>1, <3>2 DEF IndInv, TypeOK
  <2>11. LockInv'
    BY <1>1, <2>9 DEF IndInv, LockInv, Others
  <2>12. TxInv'
    <3>. SUFFICES ASSUME NEW s \in Txs
                  PROVE  (RequestOK(tx[s]) /\ AcceptOK(tx[s]) /\ RoomsOK(tx[s]))'
      BY DEF TxInv
    <3>1. CASE s = t
      BY <2>9, <3>1 DEF RequestOK, AcceptOK, RoomsOK
    <3>2. CASE s # t
      <4>1. RequestOK(tx[s]) /\ AcceptOK(tx[s]) /\ RoomsOK(tx[s]) /\ tx'[s] = tx[s]
        BY <2>9, <3>2 DEF IndInv, TxInv, Others
      <4>2. AcceptOK(tx[s])'
        <5>. SUFFICES ASSUME tx[s].kind = "accept", tx[s].at \in {"opened", "locked"}
                      PROVE  AcceptOK(tx[s])'
          BY <4>1 DEF AcceptOK
        <5>1. tx[s].who \in People /\ \A p \in Placeholders : p \in People
          BY <4>1 DEF RequestOK, People
        <5>2. tx[s].at = "locked" => invite[tx[s].link].whom \notin picked
          BY <1>1, <3>2 DEF LocksMember, Others
        <5>. QED
          BY <1>1, <2>8, <4>1, <5>1, <5>2 DEF AcceptOK, Active, Unclaimed
      <4>3. RoomsOK(tx[s])'
        BY <2>8, <4>1 DEF RoomsOK, RequestOK
      <4>. QED
        BY <4>1, <4>2, <4>3 DEF RequestOK
    <3>. QED
      BY <3>1, <3>2
  <2>13. \A u \in Joiners : u \in People
    BY DEF People
  <2>14. JoinerInv' /\ JoinedToldOnce'
    BY <1>1, <2>8, <2>13 DEF IndInv, JoinerInv, JoinedToldOnce
  <2>15. SinceInv'
    BY <2>8 DEF IndInv, SinceInv
  <2>16. BoundInv'
    <3>1. \A i \in Invites : invite[i].whom \in People \cup {None}
      BY DEF IndInv, TypeOK, People
    <3>. QED
      BY <1>1, <2>8, <3>1 DEF IndInv, BoundInv, Active
  <2>17. UsesWithinMax'
    BY <1>1 DEF IndInv, UsesWithinMax
  <2>. QED
    BY <2>9, <2>10, <2>11, <2>12, <2>14, <2>15, <2>16, <2>17 DEF IndInv
<1>. QED
  BY <1>2, <1>3

-----------------------------------------------------------------------------
(* What may be asked for. *)
LEMMA RequestsOK ==
  ASSUME NEW q \in Requests
  PROVE  IsTx(q) /\ q.at = "new" /\ RequestOK(q)
<1>1. CASE q \in Accepting
  <2>1. PICK u \in Joiners, i \in Invites : q = AcceptOf(u, i)
    BY <1>1 DEF Accepting
  <2>2. q = [at |-> "new", kind |-> "accept", who |-> u, link |-> i, existing |-> None,
             room |-> None, plan |-> <<>>, put |-> <<>>, rows |-> {}, splits |-> <<>>]
    BY <2>1 DEF AcceptOf, Fresh
  <2>. QED
    BY <2>2 DEF IsTx, RequestOK
<1>2. CASE q = Fresh("bill")
  BY <1>2 DEF Fresh, IsTx, RequestOK
<1>3. ASSUME NEW w \in Plans, q \in Setting(w)
      PROVE  IsTx(q) /\ q.at = "new" /\ RequestOK(q)
  <2>1. PICK f \in Put(w) : q = [Fresh("rooms") EXCEPT !.plan = w, !.put = f]
    BY <1>3 DEF Setting
  <2>2. q = [at |-> "new", kind |-> "rooms", who |-> None, link |-> None, existing |-> None,
             room |-> None, plan |-> w, put |-> f, rows |-> {}, splits |-> <<>>]
    BY <2>1 DEF Fresh
  <2>3. DOMAIN f \subseteq People /\ \A u \in DOMAIN f : f[u] \in DOMAIN w
    <3>1. PICK S \in SUBSET Named : f \in [S -> DOMAIN w]
      BY DEF Put
    <3>. QED
      BY <3>1, HouseAssumption
  <2>4. w \in Seq(1..Whole)
    BY HouseAssumption
  <2>. QED
    BY <2>2, <2>3, <2>4 DEF IsTx, RequestOK
<1>. QED
  BY <1>1, <1>2, <1>3 DEF Requests

LEMMA InitIndInv == Init => IndInv
<1>. SUFFICES ASSUME Init PROVE IndInv
  OBVIOUS
<1>1. PICK J \in SUBSET Joiners, R \in SUBSET Returning, w \in Plans \cup {<<>>} :
        /\ member = [u \in People |-> [status |-> Standing(u, J, R), room |-> GivenRoom(u, w),
                                       since |-> 0]]
        /\ rooms = FirstRooms(w)
  BY ZenonT(40) DEF Init
<1>2. /\ claimedBy = [p \in Placeholders |-> None]
      /\ invite = [i \in Invites |-> [live |-> "none", whom |-> None, uses |-> 0]]
      /\ joined = [u \in Joiners |-> 0]
      /\ tx \in [Txs -> Requests]
  BY DEF Init
<1>3. DOMAIN w = 1..Len(w) /\ Len(w) \in Nat
  BY HouseAssumption
<1>4. DOMAIN rooms = {<<None, i>> : i \in DOMAIN w}
  BY <1>1 DEF FirstRooms
<1>5. DOMAIN rooms \subseteq RoomIds
  BY <1>3, <1>4 DEF RoomIds
<1>6. \A u \in People : GivenRoom(u, w) \in DOMAIN rooms \cup {None}
  BY <1>3, <1>4 DEF GivenRoom
<1>7. \A u \in People : /\ Standing(u, J, R) \in {"absent", "active", "left"}
                        /\ Standing(u, J, R) = "left" => u \in Returning
  BY DEF Standing
<1>8. \A t \in Txs : IsTx(tx[t]) /\ tx[t].at = "new" /\ RequestOK(tx[t])
  BY <1>2, RequestsOK
<1>9. TypeOK
  <2>1. member \in [People -> [status : {"absent", "active", "left"},
                               room : RoomIds \cup {None}, since : Nat]]
    BY <1>1, <1>5, <1>6, <1>7
  <2>. QED
    BY <1>1, <1>2, <1>5, <1>6, <1>8, <2>1 DEF TypeOK
<1>10. TxShape /\ TxInv /\ LockInv
  BY <1>2, <1>8 DEF TxShape, TxInv, LockInv, AcceptOK, RoomsOK
<1>11. JoinerInv
  BY <1>1, <1>7 DEF JoinerInv, People
<1>12. SinceInv
  <2>1. \A u \in People : member[u].since =< 0
    BY <1>1
  <2>. QED
    BY <2>1 DEF SinceInv
<1>13. BoundInv /\ UsesWithinMax
  BY <1>2, HouseAssumption DEF BoundInv, UsesWithinMax
<1>14. JoinedToldOnce
  BY <1>1, <1>2 DEF JoinedToldOnce, People
<1>. QED
  BY <1>9, <1>10, <1>11, <1>12, <1>13, <1>14 DEF IndInv

LEMMA NextIndInv ==
  ASSUME IndInv, [Next]_vars
  PROVE  IndInv'
<1>1. CASE UNCHANGED vars
  <2>. USE <1>1 DEF vars
  <2>1. TypeOK' /\ TxShape'
    BY DEF IndInv, TypeOK, TxShape
  <2>2. TxInv'
    BY DEF IndInv, TxInv, RequestOK, AcceptOK, RoomsOK, Active, Unclaimed
  <2>3. LockInv' /\ JoinerInv'
    BY DEF IndInv, LockInv, JoinerInv, Active, Unclaimed
  <2>4. SinceInv' /\ BoundInv'
    BY DEF IndInv, SinceInv, BoundInv, Active, Unclaimed
  <2>5. UsesWithinMax' /\ JoinedToldOnce'
    BY DEF IndInv, UsesWithinMax, JoinedToldOnce
  <2>. QED
    BY <2>1, <2>2, <2>3, <2>4, <2>5 DEF IndInv
<1>2. ASSUME NEW p \in Placeholders, CreatePlaceholder(p) PROVE IndInv'
  BY <1>2, CreatePlaceholderKeeps
<1>3. ASSUME NEW i \in Invites, CreateInvite(i) PROVE IndInv'
  BY <1>3, CreateInviteKeeps
<1>4. ASSUME NEW i \in Invites, Expire(i) PROVE IndInv'
  BY <1>4, ExpireKeeps
<1>5. ASSUME NEW t \in Txs, Open(t) \/ LockPlaceholder(t) \/ JoinPlain(t) \/ Claim(t)
      PROVE  IndInv'
  BY <1>5, OpenKeeps, LockPlaceholderKeeps, JoinPlainKeeps, ClaimKeepsIndInv
<1>6. ASSUME NEW t \in Txs, ValidateRooms(t) \/ PickRows(t) \/ ReplaceRooms(t)
      PROVE  IndInv'
  BY <1>6, ValidateRoomsKeeps, PickRowsKeeps, ReplaceRoomsKeeps
<1>7. ASSUME NEW t \in Txs, ReadMembers(t) \/ PostBill(t) \/ Abort(t)
      PROVE  IndInv'
  BY <1>7, ReadMembersKeeps, PostBillKeeps, AbortKeeps
<1>. QED
  BY <1>1, <1>2, <1>3, <1>4, <1>5, <1>6, <1>7 DEF Next

(* The types, the lock discipline and what the counters say hold together. *)
THEOREM Inductive == Spec => []IndInv
BY InitIndInv, NextIndInv, PTL DEF Spec

(* Every variable has its type; no member is in a room that is gone.       *)
THEOREM TypeCorrect == Spec => []TypeOK
BY Inductive, PTL DEF IndInv

(* However many accepts of a link run at once, no more than max_uses of    *)
(* them commit.                                                            *)
THEOREM InviteUses == Spec => []UsesWithinMax
BY Inductive, PTL DEF IndInv

(* However accepts of any links interleave, those who had never left are   *)
(* told of once in the feed.                                               *)
THEOREM ToldOnce == Spec => []JoinedToldOnce
BY Inductive, PTL DEF IndInv

(* A link whose preview offers a roommate to join as is one whose accept   *)
(* finds them unclaimed.                                                   *)
THEOREM PreviewTrue == Spec => []PreviewKeepsWord
<1>1. IndInv => PreviewKeepsWord
  BY DEF IndInv, BoundInv, PreviewKeepsWord, PreviewInvite, Usable, Unclaimed
<1>. QED
  BY <1>1, Inductive, PTL

(* Where a claim leaves the claimer: in the placeholder's room, unless they *)
(* are a member who stays in another.                                      *)
LEMMA ClaimHouses ==
  ASSUME IndInv, NEW t \in Txs, Claim(t), ~ BroughtBack(t)
  PROVE  LET u == tx[t].who
             p == invite[tx[t].link].whom
         IN  /\ member'[u].status = "active"
             /\ \/ member'[u].room = member[p].room /\ (Active(u) => member[u].room \in {None, member[p].room})
                \/ /\ Active(u) /\ member[u].room \notin {None, member[p].room}
                   /\ member'[u].room = member[u].room
<1>. DEFINE u == tx[t].who
            p == invite[tx[t].link].whom
            Person == [status : {"absent", "active", "left"}, room : RoomIds \cup {None}, since : Nat]
<1>1. /\ u \in People
      /\ tx[t].existing \in {"absent", "active", "left"}
      /\ tx[t].existing = "active" => Active(u)
      /\ tx[t].existing = "absent" => member[u].status # "left"
      /\ tx[t].room = member[p].room
  BY ClaimFacts
<1>2. member'[u] = IF Joins(t) THEN [status |-> "active", room |-> tx[t].room, since |-> Latest + 1]
                   ELSE IF member[u].room = None /\ Active(u)
                        THEN [member[u] EXCEPT !.room = tx[t].room] ELSE member[u]
  BY ClaimFacts
<1>3. member[u] \in Person
  BY <1>1 DEF IndInv, TypeOK
<1>4. Joins(t) <=> ~ Active(u)
  <2>1. Joins(t) <=> \/ tx[t].existing = "absent" /\ member[u].status = "absent"
                     \/ tx[t].existing = "left"
    BY DEF Joins
  <2>2. tx[t].existing = "left" => ~ Active(u)
    BY DEF BroughtBack
  <2>3. member[u].status \in {"absent", "active", "left"}
    BY <1>3
  <2>. QED
    BY <1>1, <2>1, <2>2, <2>3 DEF Active
<1>. HIDE DEF u, p
<1>5. CASE ~ Active(u)
  BY <1>1, <1>2, <1>4, <1>5 DEF u, p
<1>6. CASE Active(u) /\ member[u].room = None
  <2>1. member'[u] = [member[u] EXCEPT !.room = tx[t].room] /\ member[u].status = "active"
    BY <1>2, <1>4, <1>6 DEF Active
  <2>2. member'[u].status = "active" /\ member'[u].room = tx[t].room
    BY <1>3, <2>1
  <2>. QED
    BY <1>1, <1>6, <2>2 DEF u, p
<1>7. CASE Active(u) /\ member[u].room # None
  <2>1. member'[u] = member[u] /\ member[u].status = "active"
    BY <1>2, <1>4, <1>7 DEF Active
  <2>. QED
    BY <1>7, <2>1 DEF u, p
<1>. QED
  BY <1>5, <1>6, <1>7

LEMMA ClaimHolds ==
  ASSUME IndInv, NEW t \in Txs, Claim(t), ~ BroughtBack(t)
  PROVE  KeepsRooms(t)
<1>. DEFINE u == tx[t].who
            p == invite[tx[t].link].whom
            stays == /\ Active(u) /\ member[u].room \notin {None, member[p].room}
                     /\ member'[u].room = member[u].room
<1>. SUFFICES ASSUME NEW r \in DOMAIN rooms, Held(r)
              PROVE  Held(r)' \/ (stays /\ r = member[p].room)
  BY DEF KeepsRooms
<1>1. PICK v \in People : member[v].status = "active" /\ member[v].room = r
  BY DEF Held, Active
<1>2. u \in People /\ \A x \in People \ {u, p} : member'[x] = member[x]
  BY ClaimFacts
<1>3. /\ member'[u].status = "active"
      /\ \/ member'[u].room = member[p].room /\ (Active(u) => member[u].room \in {None, member[p].room})
         \/ stays
  BY ClaimHouses
<1>4. r # None
  BY RoomsAssumption DEF IndInv, TypeOK
<1>5. member'[u].room = r => Held(r)'
  BY <1>2, <1>3 DEF Held, Active
<1>6. CASE v \notin {u, p}
  BY <1>1, <1>2, <1>6 DEF Held, Active
<1>7. CASE v = p
  BY <1>1, <1>3, <1>5, <1>7
<1>8. CASE v = u
  BY <1>1, <1>3, <1>4, <1>5, <1>8 DEF Active
<1>. QED
  BY <1>6, <1>7, <1>8

(* A claim keeps every room it finds somebody in, be the claimer new, a    *)
(* member or back after having left, unless another accept has brought     *)
(* them back since this one looked.                                        *)
THEOREM ClaimsKeepRooms == Spec => ClaimKeepsRooms
<1>. DEFINE Kept == \A t \in Txs : Claims(t) /\ ~ BroughtBack(t) => KeepsRooms(t)
<1>1. ASSUME IndInv, NEW s \in Txs, Claim(s)
      PROVE  Kept
  <2>. SUFFICES ASSUME NEW t \in Txs, Claims(t), ~ BroughtBack(t)
                PROVE  KeepsRooms(t)
    OBVIOUS
  <2>. DEFINE p == invite[tx[t].link].whom
              q == invite[tx[s].link].whom
  <2>1. tx[t].at = "locked" /\ claimedBy'[p] # claimedBy[p]
    BY DEF Claims
  <2>2. /\ tx[s].at = "locked" /\ tx[s].kind = "accept"
        /\ claimedBy' = [claimedBy EXCEPT ![q] = tx[s].who]
    BY <1>1, ClaimFacts DEF Claim
  <2>3. tx[t].kind = "accept" /\ p \in Placeholders
    BY <1>1, <2>1 DEF IndInv, TxInv, RequestOK, AcceptOK
  <2>4. p = q
    BY <1>1, <2>1, <2>2, <2>3 DEF IndInv, TypeOK
  <2>5. s = t
    BY <1>1, <2>1, <2>2, <2>3, <2>4 DEF IndInv, LockInv
  <2>. QED
    BY <1>1, <2>5, ClaimHolds
<1>2. ASSUME IndInv, [Next]_vars, ~ \E t \in Txs : Claim(t)
      PROVE  claimedBy' = claimedBy
  BY <1>2 DEF Next, vars, CreatePlaceholder, CreateInvite, Expire, Open, LockPlaceholder, JoinPlain,
     ValidateRooms, PickRows, ReplaceRooms, ReadMembers, PostBill, Abort
<1>3. claimedBy' = claimedBy => Kept
  BY DEF Claims
<1>4. IndInv /\ [Next]_vars => [Kept]_vars
  BY <1>1, <1>2, <1>3
<1>5. Spec => [][Kept]_vars
  BY <1>4, Inductive, PTL DEF Spec
<1>. QED
  BY <1>5 DEF ClaimKeepsRooms

-----------------------------------------------------------------------------
(* A room's occupants, in their order                                      *)

Before(S, since, u) == {v \in S : since[v] < since[u] \/ (since[v] = since[u] /\ v =< u)}
Rank(S, since, u)   == Cardinality(Before(S, since, u))

Placed(S, since) ==
  /\ Cardinality(S) \in Nat
  /\ \A u \in S : Rank(S, since, u) \in 1..Cardinality(S)
  /\ \A u, v \in S : Rank(S, since, u) = Rank(S, since, v) => u = v
  /\ \A i \in 1..Cardinality(S) : \E u \in S : Rank(S, since, u) = i

(* Each has a place of their own, and no place is left out.                *)
LEMMA RankIsPlace ==
  ASSUME NEW S, IsFiniteSet(S), S \subseteq Nat, NEW since, \A u \in S : since[u] \in Nat
  PROVE  Placed(S, since)
<1>. DEFINE n == Cardinality(S)
            B(u) == Before(S, since, u)
            f == [u \in S |-> Rank(S, since, u)]
<1>1. ASSUME NEW u \in S
      PROVE  u \in B(u) /\ B(u) \in SUBSET S
  BY DEF Before
<1>2. ASSUME NEW u \in S, NEW v \in S
      PROVE  /\ B(u) \subseteq B(v) \/ B(v) \subseteq B(u)
             /\ u \in B(v) /\ v \in B(u) => u = v
  <2>1. \A a, b, c, d \in Nat :
          /\ a < b \/ b < a \/ (a = b /\ c =< d) \/ (a = b /\ d =< c)
          /\ a < b => ~ b < a /\ a # b
          /\ c =< d /\ d =< c => c = d
    OBVIOUS
  <2>2. \A a, b, c \in Nat : (a < b /\ b < c => a < c) /\ (a =< b /\ b =< c => a =< c)
    OBVIOUS
  <2>3. \A x \in S : x \in Nat /\ since[x] \in Nat
    OBVIOUS
  <2>4. u \in B(v) \/ v \in B(u)
    BY <2>1, <2>3 DEF Before
  <2>5. u \in B(v) => B(u) \subseteq B(v)
    BY <2>2, <2>3 DEF Before
  <2>6. v \in B(u) => B(v) \subseteq B(u)
    BY <2>2, <2>3 DEF Before
  <2>7. u \in B(v) /\ v \in B(u) => u = v
    BY <2>1, <2>3 DEF Before
  <2>. QED
    BY <2>4, <2>5, <2>6, <2>7
<1>. HIDE DEF B
<1>3. n \in Nat
  BY FS_CardinalityType
<1>4. ASSUME NEW u \in S
      PROVE  IsFiniteSet(B(u)) /\ Cardinality(B(u)) \in 1..n
  <2>1. IsFiniteSet(B(u)) /\ Cardinality(B(u)) =< n
    BY <1>1, FS_Subset
  <2>2. Cardinality(B(u)) \in Nat
    BY <2>1, FS_CardinalityType
  <2>3. Cardinality(B(u)) # 0
    BY <1>1, <2>1, FS_EmptySet
  <2>. QED
    BY <1>3, <2>1, <2>2, <2>3
<1>5. ASSUME NEW u \in S, NEW v \in S, Cardinality(B(u)) = Cardinality(B(v))
      PROVE  u = v
  <2>1. B(u) = B(v)
    <3>1. B(u) \in SUBSET B(v) \/ B(v) \in SUBSET B(u)
      BY <1>2
    <3>. QED
      BY <1>4, <1>5, <3>1, FS_Subset
  <2>. QED
    BY <1>1, <1>2, <2>1
<1>6. \A u \in S : Rank(S, since, u) = Cardinality(B(u))
  BY DEF Rank, B
<1>7. f \in Injection(S, 1..n)
  BY <1>4, <1>5, <1>6 DEF Injection, IsInjective
<1>8. IsFiniteSet(1..n) /\ Cardinality(1..n) = n
  BY <1>3, FS_Interval
<1>9. f \in Surjection(S, 1..n)
  <2>. HIDE DEF f, n
  <2>1. Cardinality(S) = Cardinality(1..n)
    BY <1>8 DEF n
  <2>. QED
    BY <1>7, <1>8, <2>1, FS_Injection
<1>10. \A i \in 1..n : \E u \in S : Rank(S, since, u) = i
  BY <1>9 DEF Surjection
<1>. QED
  BY <1>3, <1>4, <1>5, <1>6, <1>10 DEF Placed

(* The points of a room divided among its occupants are the room's points. *)
Odd(points, n) == points - (points \div n) * n
Portion(points, n, i) == points \div n + (IF i =< Odd(points, n) THEN 1 ELSE 0)

LEMMA PortionsAddUp ==
  ASSUME NEW points \in Nat, NEW n \in Nat \ {0}
  PROVE  /\ \A i \in 1..n : Portion(points, n, i) \in Nat
         /\ SumFunction([i \in 1..n |-> Portion(points, n, i)]) = points
<1>. DEFINE base == points \div n
            odd == Odd(points, n)
            f == [i \in 1..n |-> base]
            g == [i \in 1..n |-> IF i =< odd THEN 1 ELSE 0]
            h == [i \in 1..n |-> Portion(points, n, i)]
<1>1. base \in Nat /\ odd \in 0..n /\ points = base * n + odd
  <2>1. base \in Int /\ points % n \in 0..(n - 1) /\ points = base * n + (points % n)
    OBVIOUS
  <2>2. base \in Nat
    OBVIOUS
  <2>. QED
    BY <2>1, <2>2 DEF Odd
<1>. HIDE DEF base, odd
<1>2. \A i \in 1..n : Portion(points, n, i) = base + (IF i =< odd THEN 1 ELSE 0)
  BY DEF Portion, base, odd
<1>3. /\ DOMAIN f = 1..n /\ DOMAIN g = 1..n /\ DOMAIN h = 1..n
      /\ \A i \in 1..n : f[i] = base /\ f[i] \in Int /\ g[i] \in Int /\ h[i] = f[i] + g[i]
  BY <1>1, <1>2
<1>4. IsFiniteSet(1..n) /\ Cardinality(1..n) = n
  BY FS_Interval
<1>5. SumFunction(g) = odd
  BY <1>1, SumOnes
<1>. HIDE DEF f, g, h
<1>6. SumFunction(f) = base * n
  BY <1>1, <1>3, <1>4, SumConstant
<1>7. SumFunction(h) = SumFunction(f) + SumFunction(g)
  BY <1>3, <1>4, SumAdd
<1>8. SumFunction(h) = points
  BY <1>1, <1>5, <1>6, <1>7
<1>. QED
  BY <1>1, <1>2, <1>8 DEF h


InRoom(D, roomOf, r) == {u \in D : roomOf[u] = r}
Points(w, S) == SumFunction([u \in S |-> w[u]])
Divided(D, roomOf, weightOf, since, r) ==
  LET w == DeriveRoomWeights(roomOf, weightOf, since)
  IN  /\ \A u \in InRoom(D, roomOf, r) : w[u] \in Nat
      /\ Points(w, InRoom(D, roomOf, r)) = weightOf[r]

(* Each room's points go to its occupants, whatever else there is.         *)
LEMMA PointsOfRoom ==
  ASSUME NEW D, IsFiniteSet(D), D \subseteq Nat, NEW roomOf, DOMAIN roomOf = D,
         NEW weightOf, NEW since, \A u \in D : since[u] \in Nat,
         NEW r, weightOf[r] \in Nat, \E u \in D : roomOf[u] = r
  PROVE  Divided(D, roomOf, weightOf, since, r)
<1>. DEFINE S == {u \in D : roomOf[u] = r}
            n == Cardinality(S)
            rank(u) == Rank(S, since, u)
            o == [i \in 1..n |-> CHOOSE u \in S : rank(u) = i]
            w == DeriveRoomWeights(roomOf, weightOf, since)
            points == weightOf[r]
<1>1. IsFiniteSet(S) /\ S \subseteq Nat /\ S # {} /\ \A u \in S : since[u] \in Nat
  BY FS_Subset
<1>2. n \in Nat \ {0} /\ points \in Nat
  BY <1>1, FS_CardinalityType, FS_EmptySet
<1>3. /\ \A u \in S : rank(u) \in 1..n
      /\ \A u, v \in S : rank(u) = rank(v) => u = v
      /\ \A i \in 1..n : \E u \in S : rank(u) = i
  <2>. HIDE DEF S
  <2>1. Placed(S, since)
    BY <1>1, RankIsPlace
  <2>. QED
    BY <2>1 DEF Placed
<1>4. Occupants(r, roomOf, since) = o
  BY DEF Occupants, Rank, Before
<1>5. \A u \in S : w[u] = DivideRoomWeight(points, o)[CHOOSE i \in DOMAIN o : o[i] = u]
  <2>. SUFFICES ASSUME NEW u \in S
                PROVE  w[u] = DivideRoomWeight(points, o)[CHOOSE i \in DOMAIN o : o[i] = u]
    OBVIOUS
  <2>1. u \in DOMAIN roomOf /\ roomOf[u] = r
    OBVIOUS
  <2>. HIDE DEF S, o, points
  <2>2. w[u] = LET q == Occupants(roomOf[u], roomOf, since)
               IN  DivideRoomWeight(weightOf[roomOf[u]], q)[CHOOSE i \in DOMAIN q : q[i] = u]
    BY <2>1 DEF DeriveRoomWeights
  <2>. QED
    BY <1>4, <2>1, <2>2 DEF points
<1>. HIDE DEF S, n, rank, w, points
<1>6. \A i \in 1..n : o[i] \in S /\ rank(o[i]) = i
  BY <1>3
<1>7. DOMAIN o = 1..n /\ Len(o) = n
  <2>1. o \in [1..n -> S]
    BY <1>6
  <2>. QED
    BY <1>2, <2>1
<1>. HIDE DEF o
<1>8. \A u \in S : (CHOOSE i \in DOMAIN o : o[i] = u) = rank(u)
  <2>. SUFFICES ASSUME NEW u \in S
                PROVE  (CHOOSE i \in DOMAIN o : o[i] = u) = rank(u)
    OBVIOUS
  <2>1. rank(u) \in DOMAIN o /\ o[rank(u)] = u
    BY <1>3, <1>6, <1>7
  <2>2. \A i \in DOMAIN o : o[i] = u => i = rank(u)
    BY <1>6, <1>7
  <2>. QED
    BY <2>1, <2>2
<1>9. \A i \in 1..n : DivideRoomWeight(points, o)[i] = Portion(points, n, i)
  BY <1>7 DEF DivideRoomWeight, Portion, Odd
<1>10. \A u \in S : w[u] = Portion(points, n, rank(u))
  BY <1>3, <1>5, <1>8, <1>9
<1>. DEFINE f == [u \in S |-> w[u]]
            g == [i \in 1..n |-> Portion(points, n, i)]
            h == [u \in S |-> rank(u)]
<1>11. SumFunction(g) = points /\ \A i \in 1..n : Portion(points, n, i) \in Nat
  BY <1>2, PortionsAddUp
<1>12. /\ DOMAIN f = S /\ DOMAIN g = 1..n
       /\ \A u \in S : f[u] = Portion(points, n, rank(u)) /\ h[u] = rank(u)
       /\ \A i \in 1..n : g[i] = Portion(points, n, i)
  BY <1>10
<1>13. \A u \in S : w[u] \in Nat
  BY <1>3, <1>10, <1>11
<1>. HIDE DEF f, g, h
<1>14. SumFunction(f) = SumFunction(g)
  <2>1. IsFiniteSet(DOMAIN f) /\ IsFiniteSet(DOMAIN g)
    BY <1>1, <1>2, <1>12, FS_Interval
  <2>2. \A u \in DOMAIN f : f[u] \in Int /\ h[u] \in DOMAIN g /\ g[h[u]] = f[u]
    BY <1>3, <1>11, <1>12
  <2>3. \A u, v \in DOMAIN f : h[u] = h[v] => u = v
    BY <1>3, <1>12
  <2>4. \A i \in DOMAIN g : g[i] = 0 \/ \E u \in DOMAIN f : h[u] = i
    BY <1>3, <1>12
  <2>. QED
    BY <2>1, <2>2, <2>3, <2>4, SumImage
<1>. QED
  BY <1>11, <1>13, <1>14 DEF f, S, w, points, InRoom, Points, Divided

DividedAll(D, roomOf, weightOf, since) ==
  LET w == DeriveRoomWeights(roomOf, weightOf, since)
  IN  /\ DOMAIN w = D /\ \A u \in D : w[u] \in Nat
      /\ SumFunction(w) = SumFunction(weightOf)

(* So the people's points are the rooms', if every room is held.           *)
LEMMA PointsOfHouse ==
  ASSUME NEW D, IsFiniteSet(D), D \subseteq Nat, NEW roomOf, DOMAIN roomOf = D,
         NEW weightOf, IsFiniteSet(DOMAIN weightOf), \A r \in DOMAIN weightOf : weightOf[r] \in Nat,
         NEW since, \A u \in D : since[u] \in Nat,
         \A u \in D : roomOf[u] \in DOMAIN weightOf,
         \A r \in DOMAIN weightOf : \E u \in D : roomOf[u] = r
  PROVE  DividedAll(D, roomOf, weightOf, since)
<1>. DEFINE R == DOMAIN weightOf
            w == DeriveRoomWeights(roomOf, weightOf, since)
            S(r) == InRoom(D, roomOf, r)
            m == [p \in R \X D |-> IF roomOf[p[2]] = p[1] THEN w[p[2]] ELSE 0]
<1>1. DOMAIN w = D
  BY DEF DeriveRoomWeights
<1>. HIDE DEF w
<1>2. ASSUME NEW r \in R
      PROVE  /\ \A u \in S(r) : w[u] \in Nat
             /\ Points(w, S(r)) = weightOf[r]
  <2>1. weightOf[r] \in Nat /\ \E u \in D : roomOf[u] = r
    OBVIOUS
  <2>2. Divided(D, roomOf, weightOf, since, r)
    BY <2>1, PointsOfRoom
  <2>. QED
    BY <2>2 DEF w, Divided
<1>3. \A u \in D : w[u] \in Nat
  <2>1. \A u \in D : u \in S(roomOf[u]) /\ roomOf[u] \in R
    BY DEF InRoom
  <2>. QED
    BY <1>2, <2>1
<1>4. \A r \in R, u \in D : /\ m[<<r, u>>] = IF roomOf[u] = r THEN w[u] ELSE 0
                            /\ m[<<r, u>>] \in Int
  BY <1>3
<1>. HIDE DEF m
<1>5. ASSUME NEW r \in R
      PROVE  SumFunction(Row(m, D, r)) = weightOf[r]
  <2>. DEFINE f == [u \in S(r) |-> w[u]]
              g == Row(m, D, r)
              h == [u \in S(r) |-> u]
  <2>1. /\ DOMAIN f = S(r) /\ DOMAIN g = D /\ S(r) \subseteq D
        /\ \A u \in S(r) : f[u] = w[u] /\ h[u] = u
        /\ \A u \in D : g[u] = IF u \in S(r) THEN w[u] ELSE 0
    BY <1>4 DEF Row, InRoom
  <2>2. SumFunction(f) = weightOf[r]
    BY <1>2 DEF Points
  <2>. HIDE DEF f, g, h, S
  <2>3. IsFiniteSet(DOMAIN f) /\ IsFiniteSet(DOMAIN g)
    BY <2>1, FS_Subset
  <2>4. \A u \in DOMAIN f : f[u] \in Int /\ h[u] \in DOMAIN g /\ g[h[u]] = f[u]
    <3>1. \A u \in D : w[u] \in Int
      BY <1>3
    <3>. QED
      BY <2>1, <3>1, ZenonT(40)
  <2>5. \A u, v \in DOMAIN f : h[u] = h[v] => u = v
    BY <2>1
  <2>6. \A u \in DOMAIN g : g[u] = 0 \/ \E v \in DOMAIN f : h[v] = u
    BY <2>1
  <2>7. SumFunction(f) = SumFunction(g)
    BY <2>3, <2>4, <2>5, <2>6, SumImage
  <2>. QED
    BY <2>2, <2>7 DEF g
<1>6. ASSUME NEW u \in D
      PROVE  SumFunction(Column(m, R, u)) = w[u]
  <2>. DEFINE c == Column(m, R, u)
              r == roomOf[u]
  <2>1. DOMAIN c = R /\ r \in R /\ c[r] = w[u] /\ \A q \in R : q # r => c[q] = 0
    BY <1>4 DEF Column
  <2>2. c[r] \in Int
    BY <1>3, <2>1
  <2>. HIDE DEF c, r
  <2>3. SumFunction(c) = c[r]
    BY <2>1, <2>2, SumSingle
  <2>. QED
    BY <2>1, <2>3 DEF c
<1>7. SumFunction(Rows(m, R, D)) = SumFunction(Columns(m, R, D))
  <2>1. \A r \in R, u \in D : m[<<r, u>>] \in Int
    BY <1>4
  <2>. HIDE DEF R
  <2>2. IsFiniteSet(R)
    BY DEF R
  <2>. QED
    BY <2>1, <2>2, SumExchange
<1>8. SumFunction(weightOf) = SumFunction(Rows(m, R, D))
  <2>. DEFINE g == Rows(m, R, D)
  <2>1. DOMAIN g = R /\ \A r \in R : weightOf[r] = g[r]
    BY <1>5 DEF Rows
  <2>. HIDE DEF g
  <2>2. SumFunction(weightOf) = SumFunction(g)
    BY <2>1, SumAgree
  <2>. QED
    BY <2>2 DEF g
<1>9. SumFunction(w) = SumFunction(Columns(m, R, D))
  <2>. DEFINE g == Columns(m, R, D)
  <2>1. DOMAIN g = D /\ \A u \in D : w[u] = g[u]
    BY <1>6 DEF Columns
  <2>. HIDE DEF g
  <2>2. SumFunction(w) = SumFunction(g)
    BY <1>1, <2>1, SumAgree
  <2>. QED
    BY <2>2 DEF g
<1>. QED
  BY <1>1, <1>3, <1>7, <1>8, <1>9 DEF w, DividedAll


-----------------------------------------------------------------------------
(* The rooms' points are the whole house, and so are those of any request  *)
(* that is still to replace them.                                          *)
Plan(w) == w = <<>> \/ (w \in Seq(1..Whole) /\ SumFunction(w) = Whole)
RoomsFrom(k, w) == [r \in {<<k, i>> : i \in DOMAIN w} |-> w[r[2]]]
House(f) == /\ IsFiniteSet(DOMAIN f) /\ \A r \in DOMAIN f : f[r] \in Nat
            /\ DOMAIN f # {} => SumFunction(f) = Whole
WholeInv == House(rooms) /\ \A t \in Txs : Plan(tx[t].plan)

LEMMA PlanNumbers ==
  ASSUME NEW w, Plan(w)
  PROVE  IsFiniteSet(DOMAIN w) /\ \A i \in DOMAIN w : w[i] \in Nat
<1>1. w \in Seq(1..Whole)
  <2>1. \A S : <<>> \in Seq(S)
    OBVIOUS
  <2>. QED
    BY <2>1 DEF Plan
<1>2. DOMAIN w = 1..Len(w) /\ Len(w) \in Nat
  BY <1>1
<1>3. \A i \in DOMAIN w : w[i] \in 1..Whole
  <2>1. \A S : \A v \in Seq(S) : \A i \in 1..Len(v) : v[i] \in S
    OBVIOUS
  <2>. QED
    BY <1>1, <1>2, <2>1
<1>4. IsFiniteSet(1..Len(w))
  BY <1>2, FS_Interval
<1>. QED
  BY <1>2, <1>3, <1>4, WholeAssumption

LEMMA RoomsOfPlan ==
  ASSUME NEW w, Plan(w), NEW k
  PROVE  House(RoomsFrom(k, w))
<1>. DEFINE h == [i \in DOMAIN w |-> <<k, i>>]
            f == RoomsFrom(k, w)
<1>1. IsFiniteSet(DOMAIN w) /\ \A i \in DOMAIN w : w[i] \in Nat
  BY PlanNumbers
<1>2. /\ DOMAIN h = DOMAIN w /\ \A i \in DOMAIN w : h[i] \in DOMAIN f /\ f[h[i]] = w[i]
      /\ \A i, j \in DOMAIN w : h[i] = h[j] => i = j
      /\ \A r \in DOMAIN f : \E i \in DOMAIN w : h[i] = r
  BY DEF RoomsFrom
<1>. HIDE DEF f
<1>3. IsFiniteSet(DOMAIN f)
  <2>1. h \in Surjection(DOMAIN w, DOMAIN f)
    BY <1>2 DEF Surjection
  <2>. HIDE DEF h
  <2>. QED
    BY <1>1, <2>1, FS_Surjection
<1>. HIDE DEF h
<1>4. \A r \in DOMAIN f : f[r] \in Nat
  BY <1>1, <1>2
<1>5. SumFunction(w) = SumFunction(f)
  <2>1. \A i \in DOMAIN w : w[i] \in Int /\ h[i] \in DOMAIN f /\ f[h[i]] = w[i]
    BY <1>1, <1>2
  <2>2. \A r \in DOMAIN f : f[r] = 0 \/ \E i \in DOMAIN w : h[i] = r
    BY <1>2
  <2>. QED
    BY <1>1, <1>2, <1>3, <2>1, <2>2, SumImage
<1>6. DOMAIN f # {} => w # <<>>
  BY <1>2
<1>. QED
  BY <1>3, <1>4, <1>5, <1>6 DEF Plan, House, f

LEMMA MovePlan ==
  ASSUME IndInv, NEW t \in Txs, NEW r, Move(t, r), r.plan \in {tx[t].plan, <<>>}
  PROVE  \A s \in Txs : tx'[s].plan \in {tx[s].plan, <<>>}
BY DEF Move, IndInv, TxShape

LEMMA EndPlan ==
  ASSUME IndInv, NEW t \in Txs, NEW at, End(t, at)
  PROVE  \A s \in Txs : tx'[s].plan \in {tx[s].plan, <<>>}
<1>. DEFINE o == Step(Fresh(tx[t].kind), at, "splits", tx[t].splits)
            r == Ended(t, at)
<1>1. IsTx(o) /\ o.plan = <<>>
  <2>1. Fresh(tx[t].kind).plan = <<>>
    BY DEF Fresh
  <2>. QED
    BY <2>1, FreshShape, StepShape DEF Keeps, Fields
<1>2. r = [o EXCEPT !.rows = tx[t].rows]
  BY DEF Ended, Step
<1>. HIDE DEF o
<1>3. r.plan = <<>>
  BY <1>1, <1>2 DEF IsTx
<1>4. Move(t, r)
  BY DEF End, Ended
<1>. HIDE DEF r
<1>. QED
  BY <1>3, <1>4, MovePlan

LEMMA StepPlan ==
  ASSUME IndInv, NEW t \in Txs, NEW a, NEW v, NEW f \in {"existing", "room", "rows", "splits"},
         Move(t, Step(tx[t], a, f, v))
  PROVE  \A s \in Txs : tx'[s].plan \in {tx[s].plan, <<>>}
<1>. DEFINE r == Step(tx[t], a, f, v)
<1>1. IsTx(tx[t])
  BY DEF IndInv, TxShape
<1>2. Keeps(tx[t], r, {"at", f})
  BY <1>1, StepShape
<1>. HIDE DEF r
<1>3. r.plan = tx[t].plan
  BY <1>2 DEF Keeps, Fields
<1>. QED
  BY <1>3, MovePlan DEF r

(* A request's plan stays what it was until it is over.                    *)
LEMMA PlansStay ==
  ASSUME IndInv, [Next]_vars
  PROVE  \A s \in Txs : tx'[s].plan \in {tx[s].plan, <<>>}
<1>. DEFINE Stay == \A s \in Txs : tx'[s].plan \in {tx[s].plan, <<>>}
<1>1. CASE UNCHANGED tx
  BY <1>1
<1>2. ASSUME NEW t \in Txs, Open(t)
      PROVE  Stay
  <2>1. \/ \E at : End(t, at)
        \/ Move(t, Step(tx[t], "opened", "existing", member[tx[t].who].status))
    BY <1>2 DEF Open, Step
  <2>. QED
    BY <2>1, EndPlan, StepPlan
<1>3. ASSUME NEW t \in Txs, LockPlaceholder(t)
      PROVE  Stay
  <2>1. \/ \E at : End(t, at)
        \/ Move(t, Step(tx[t], "locked", "room", member[invite[tx[t].link].whom].room))
    BY <1>3 DEF LockPlaceholder, Step
  <2>. QED
    BY <2>1, EndPlan, StepPlan
<1>4. ASSUME NEW t \in Txs, JoinPlain(t) \/ Claim(t) \/ ReplaceRooms(t) \/ Abort(t)
      PROVE  Stay
  <2>1. \E at : End(t, at)
    BY <1>4 DEF JoinPlain, Claim, ReplaceRooms, Abort
  <2>. QED
    BY <2>1, EndPlan
<1>5. ASSUME NEW t \in Txs, ValidateRooms(t)
      PROVE  Stay
  <2>. DEFINE r == [tx[t] EXCEPT !.at = "opened"]
  <2>1. (\E at : End(t, at)) \/ Move(t, r)
    BY <1>5 DEF ValidateRooms
  <2>2. r.plan = tx[t].plan
    BY DEF IndInv, TxShape, IsTx
  <2>. HIDE DEF r
  <2>. QED
    BY <2>1, <2>2, EndPlan, MovePlan
<1>6. ASSUME NEW t \in Txs, PickRows(t)
      PROVE  Stay
  BY <1>6, StepPlan DEF PickRows, Step
<1>7. ASSUME NEW t \in Txs, ReadMembers(t)
      PROVE  Stay
  BY <1>7, StepPlan DEF ReadMembers, Step
<1>8. ASSUME NEW t \in Txs, PostBill(t)
      PROVE  Stay
  <2>. DEFINE in == RoomSplit({u \in tx[t].rows : Active(u) /\ member[u].room # None})
  <2>1. \/ \E at : End(t, at)
        \/ Move(t, Step(tx[t], "done", "splits", ComputeSplits(in)))
    BY <1>8 DEF PostBill, Step
  <2>. HIDE DEF in
  <2>. QED
    BY <2>1, EndPlan, StepPlan
<1>9. ASSUME NEW p \in Placeholders, CreatePlaceholder(p)
      PROVE  Stay
  BY <1>9 DEF CreatePlaceholder
<1>10. ASSUME NEW i \in Invites, CreateInvite(i) \/ Expire(i)
       PROVE  Stay
  BY <1>10 DEF CreateInvite, Expire
<1>11. UNCHANGED vars => Stay
  BY <1>1 DEF vars
<1>. HIDE DEF Stay
<1>12. Stay
  BY <1>2, <1>3, <1>4, <1>5, <1>6, <1>7, <1>8, <1>9, <1>10, <1>11 DEF Next
<1>. QED
  BY <1>12 DEF Stay

(* Only setRooms makes rooms, from its plan.                               *)
LEMMA RoomsStay ==
  ASSUME [Next]_vars
  PROVE  \/ rooms' = rooms
         \/ \E t \in Txs : rooms' = RoomsFrom(t, tx[t].plan)
<1>1. ASSUME NEW t \in Txs, ReplaceRooms(t)
      PROVE  \/ rooms' = rooms
             \/ rooms' = RoomsFrom(t, tx[t].plan)
  BY <1>1 DEF ReplaceRooms, RoomsFrom
<1>2. ASSUME ~ \E t \in Txs : ReplaceRooms(t)
      PROVE  rooms' = rooms
  BY <1>2 DEF Next, vars, CreatePlaceholder, CreateInvite, Expire, Open, LockPlaceholder, JoinPlain,
     Claim, ValidateRooms, PickRows, ReadMembers, PostBill, Abort
<1>. QED
  BY <1>1, <1>2

LEMMA InitWhole == Init => WholeInv
<1>. SUFFICES ASSUME Init PROVE WholeInv
  OBVIOUS
<1>1. PICK w \in Plans \cup {<<>>} : Plan(w) /\ rooms = FirstRooms(w)
  BY HouseAssumption DEF Init, Plan
<1>2. House(rooms)
  <2>1. rooms = RoomsFrom(None, w)
    BY <1>1 DEF FirstRooms, RoomsFrom
  <2>. QED
    BY <1>1, <2>1, RoomsOfPlan
<1>3. ASSUME NEW q \in Requests
      PROVE  Plan(q.plan)
  <2>1. CASE q \in Accepting
    <3>1. PICK u \in Joiners, i \in Invites : q = AcceptOf(u, i)
      BY <2>1 DEF Accepting
    <3>. QED
      BY <3>1 DEF AcceptOf, Fresh, Plan
  <2>2. CASE q = Fresh("bill")
    BY <2>2 DEF Fresh, Plan
  <2>3. ASSUME NEW v \in Plans, SumFunction(v) = Whole, q \in Setting(v)
        PROVE  Plan(q.plan)
    <3>1. PICK f \in Put(v) : q = [Fresh("rooms") EXCEPT !.plan = v, !.put = f]
      BY <2>3 DEF Setting
    <3>2. q.plan = v /\ v \in Seq(1..Whole)
      BY <3>1, HouseAssumption DEF Fresh
    <3>. QED
      BY <2>3, <3>2 DEF Plan
  <2>. QED
    BY <2>1, <2>2, <2>3 DEF Requests
<1>4. \A t \in Txs : tx[t] \in Requests
  BY DEF Init
<1>. QED
  BY <1>2, <1>3, <1>4 DEF WholeInv

LEMMA NextWhole ==
  ASSUME IndInv, WholeInv, [Next]_vars
  PROVE  WholeInv'
<1>1. \A t \in Txs : Plan(tx[t].plan)
  BY DEF WholeInv
<1>2. \A t \in Txs : Plan(tx[t].plan)'
  <2>1. \A t \in Txs : tx'[t].plan \in {tx[t].plan, <<>>}
    BY PlansStay
  <2>2. Plan(<<>>)
    BY DEF Plan
  <2>. QED
    BY <1>1, <2>1, <2>2 DEF Plan
<1>3. House(rooms)'
  <2>1. CASE rooms' = rooms
    BY <2>1 DEF WholeInv
  <2>2. ASSUME NEW t \in Txs, rooms' = RoomsFrom(t, tx[t].plan)
        PROVE  House(rooms)'
    <3>1. House(rooms')
      BY <1>1, <2>2, RoomsOfPlan
    <3>. QED
      BY <3>1
  <2>. QED
    BY <2>1, <2>2, RoomsStay
<1>. QED
  BY <1>2, <1>3 DEF WholeInv

(* The split of a held house: the weights are the whole, and the cents the *)
(* total.                                                                  *)
LEMMA HeldSplits ==
  ASSUME TypeOK, House(rooms), DOMAIN rooms # {}, \A r \in DOMAIN rooms : Held(r)
  PROVE  LET in == RoomSplit({u \in People : Active(u) /\ member[u].room # None})
         IN  Accepts(in) /\ SumFunction(ComputeSplits(in)) = Total
<1>. DEFINE D == {u \in People : Active(u) /\ member[u].room # None}
            roomOf == [u \in D |-> member[u].room]
            since == [u \in D |-> member[u].since]
            w == DeriveRoomWeights(roomOf, rooms, since)
            in == RoomSplit(D)
<1>1. IsFiniteSet(D) /\ D \subseteq Nat
  BY FiniteAssumption, HouseAssumption, FS_Subset
<1>2. None \notin DOMAIN rooms
  BY RoomsAssumption DEF TypeOK
<1>3. \A r \in DOMAIN rooms : \E u \in D : roomOf[u] = r
  BY <1>2 DEF Held
<1>4. \A u \in D : roomOf[u] \in DOMAIN rooms /\ since[u] \in Nat
  BY DEF TypeOK
<1>5. D # {}
  BY <1>3
<1>6. /\ in.mode = "room_weighted" /\ in.total = Total /\ in.payer = Owner /\ in.given = w
      /\ DOMAIN roomOf = D
  BY DEF RoomSplit
<1>. HIDE DEF D, roomOf, since
<1>7. DOMAIN w = D /\ (\A u \in D : w[u] \in Nat) /\ SumFunction(w) = SumFunction(rooms)
  <2>1. DividedAll(D, roomOf, rooms, since)
    BY <1>1, <1>3, <1>4, <1>6, PointsOfHouse DEF House
  <2>. QED
    BY <2>1 DEF DividedAll
<1>. HIDE DEF in, w
<1>8. Accepts(in)
  <2>1. ValidWeights(w)
    BY <1>7 DEF ValidWeights, House
  <2>. QED
    BY <1>5, <1>6, <1>7, <2>1, HouseAssumption DEF Accepts
<1>. DEFINE f == [u \in D |-> (Total * w[u]) \div Whole]
            r == RemainderRecipient(D, Owner)
<1>9. DOMAIN f = D /\ \A u \in D : f[u] \in Int
  <2>1. \A a, b \in Int : a * b \in Int /\ a \div Whole \in Int
    BY WholeAssumption
  <2>2. \A u \in D : Total \in Int /\ w[u] \in Int
    BY <1>7, HouseAssumption
  <2>. QED
    BY <2>1, <2>2
<1>10. r \in D
  <2>1. \E u \in D : \A v \in D : u =< v
    BY <1>1, <1>5, FirstFailure
  <2>. QED
    BY <2>1 DEF RemainderRecipient
<1>11. ComputeSplits(in) = [f EXCEPT ![r] = @ + Total - SumFunction(f)]
  BY <1>6, <1>7 DEF ComputeSplits, SplitByWeights, WithRemainder
<1>12. SumFunction(ComputeSplits(in)) = Total
  <2>1. Total \in Int
    BY HouseAssumption
  <2>. HIDE DEF f, r, D, in
  <2>2. IsFiniteSet(DOMAIN f) /\ r \in DOMAIN f /\ \A u \in DOMAIN f : f[u] \in Int
    BY <1>1, <1>9, <1>10
  <2>3. SumFunction([f EXCEPT ![r] = @ + Total - SumFunction(f)]) = Total
    BY <2>1, <2>2, SumRemainder
  <2>. QED
    BY <1>11, <2>3
<1>. QED
  BY <1>8, <1>12 DEF in, D

(* While every room has somebody in it, a room-weighted bill of the house  *)
(* divides its whole total: however setRooms, claims and joins interleave, *)
(* whatever the rooms' points and however many share a room.               *)
THEOREM HeldRoomsDivide == Spec => []HeldRoomsSplit
<1>1. IndInv /\ WholeInv => HeldRoomsSplit
  BY HeldSplits DEF IndInv, WholeInv, HeldRoomsSplit
<1>2. Spec => []WholeInv
  BY InitWhole, NextWhole, Inductive, PTL DEF Spec
<1>. QED
  BY <1>1, <1>2, Inductive, PTL
=============================================================================
