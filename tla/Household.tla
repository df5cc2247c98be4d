----------------------------- MODULE Household ------------------------------
(***************************************************************************)
(* One house's members, invites and rooms: createInvite, previewInvite and *)
(* acceptInvite (apps/api/src/houses/invites.service.ts), createPlaceholder*)
(* (members.service.ts), setRooms (rooms.service.ts), and a room-weighted  *)
(* bill reading them (packages/ledger, apps/worker).                       *)
(*                                                                         *)
(* As in HouseLedger, a step is a statement or several that no other       *)
(* transaction can tell apart, at READ COMMITTED, and a transaction's      *)
(* writes appear at its commit.  A claim's ledger history is HouseLedger's.*)
(* People are numbers.                                                     *)
(***************************************************************************)
EXTENDS Integers, FiniteSets, Sequences, SplitMath

CONSTANTS
  Owner,         \* the house's creator and admin
  Joiners,       \* people of account, perhaps members
  Returning,     \* those who may have been members once
  Placeholders,  \* roommates added by name
  Invites,       \* links, numbered as they are minted
  MaxUses,       \* max_uses
  Txs,           \* transactions
  Plans,         \* room configurations: sequences of weights
  Named,         \* those whom a request for rooms may name
  Total,         \* cents of the bill
  None           \* nobody, nothing

People == {Owner} \cup Joiners \cup Placeholders

ASSUME HouseAssumption ==
  /\ People \subseteq Nat /\ Owner \notin Joiners \cup Placeholders
  /\ Joiners \cap Placeholders = {} /\ Returning \subseteq Joiners
  /\ Invites \subseteq Nat /\ None \notin People /\ MaxUses \in Nat \ {0} /\ Total \in Nat \ {0}
  /\ Named \subseteq People /\ \A w \in Plans : w \in Seq(1..Whole)

VARIABLES
  member,     \* house_members: person -> [status, room, since]
  claimedBy,  \* placeholder -> who claimed it
  rooms,      \* the rooms there are -> weight
  invite,     \* link -> [live, whom, uses]
  joined,     \* person -> member.joined events in the feed
  tx          \* transaction -> where it stands and what it holds

vars == <<member, claimedBy, rooms, invite, joined, tx>>

RoomIds == (Txs \cup {None}) \X (Nat \ {0})
ASSUME RoomsAssumption == None \notin RoomIds
ASSUME FiniteAssumption == IsFiniteSet(People)

Fresh(kind) == [at |-> "new", kind |-> kind, who |-> None, link |-> None, existing |-> None,
                room |-> None, plan |-> <<>>, put |-> <<>>, rows |-> {}, splits |-> <<>>]

(* setRooms's input: weights that sum to the whole, and an occupant or     *)
(* more to each room.                                                      *)
Put(w)     == {f \in UNION {[S -> DOMAIN w] : S \in SUBSET Named} : Range(f) = DOMAIN w}
AcceptOf(u, i) == [Fresh("accept") EXCEPT !.who = u, !.link = i]
Accepting  == {AcceptOf(u, i) : u \in Joiners, i \in Invites}
Setting(w) == {[Fresh("rooms") EXCEPT !.plan = w, !.put = f] : f \in Put(w)}
Requests   == Accepting \cup {Fresh("bill")}
                \cup UNION {Setting(w) : w \in {w \in Plans : SumFunction(w) = Whole}}

TypeOK ==
  /\ member \in [People -> [status : {"absent", "active", "left"},
                            room : RoomIds \cup {None}, since : Nat]]
  /\ claimedBy \in [Placeholders -> Joiners \cup {None}]
  /\ DOMAIN rooms \subseteq RoomIds
  /\ \A u \in People : member[u].room \in DOMAIN rooms \cup {None}
  /\ invite \in [Invites -> [live : {"none", "live", "expired"},
                             whom : Placeholders \cup {None}, uses : Nat]]
  /\ joined \in [Joiners -> Nat]
  /\ \A t \in Txs : tx[t].at \in {"new", "opened", "locked", "read", "done", "paused", "failed"}

Active(u) == member[u].status = "active"

NoOne == [status |-> "absent", room |-> None, since |-> 0]

(* The owner has given the first room to themselves and the second, if     *)
(* there is one, to the first placeholder.                                 *)
First == CHOOSE p \in Placeholders : \A q \in Placeholders : p =< q
GivenRoom(u, w) ==
  IF u = Owner /\ Len(w) >= 1 THEN <<None, 1>>
  ELSE IF u = First /\ Len(w) = 2 THEN <<None, 2>> ELSE None
FirstRooms(w) == [r \in {<<None, i>> : i \in DOMAIN w} |-> w[r[2]]]
Standing(u, J, R) ==
  IF u \in {Owner, First} \cup J THEN "active" ELSE IF u \in R THEN "left" ELSE "absent"

Init ==
  \E J \in SUBSET Joiners, R \in SUBSET Returning, w \in Plans \cup {<<>>} :
    /\ J \cap R = {} /\ (w # <<>> => SumFunction(w) = Whole)
    /\ member = [u \in People |-> [status |-> Standing(u, J, R), room |-> GivenRoom(u, w),
                                   since |-> 0]]
    /\ rooms = FirstRooms(w)
    /\ claimedBy = [p \in Placeholders |-> None]
    /\ invite = [i \in Invites |-> [live |-> "none", whom |-> None, uses |-> 0]]
    /\ joined = [u \in Joiners |-> 0]
    /\ tx \in [Txs -> Requests]
-----------------------------------------------------------------------------
Others(t)  == Txs \ {t}
Move(t, r) == tx' = [tx EXCEPT ![t] = r]
End(t, at) == Move(t, [Fresh(tx[t].kind) EXCEPT !.at = at, !.splits = tx[t].splits,
                                                !.rows = tx[t].rows])

(* FOR UPDATE on an invite, and on a placeholder's membership row. *)
LocksInvite(t, i) == tx[t].at \in {"opened", "locked"} /\ tx[t].link = i
LocksMember(t, p) == tx[t].at = "locked" /\ invite[tx[t].link].whom = p

Unclaimed(p) == Active(p) /\ claimedBy[p] = None

(* createPlaceholder *)
CreatePlaceholder(p) ==
  /\ member[p].status = "absent"
  /\ member' = [member EXCEPT ![p] = [NoOne EXCEPT !.status = "active"]]
  /\ UNCHANGED <<claimedBy, rooms, invite, joined, tx>>

(* createInvite: a plain one, or one bound to a placeholder, whose row it  *)
(* locks so that a claim comes strictly before or after.                   *)
CreateInvite(i) ==
  /\ invite[i].live = "none" /\ \A j \in Invites : j < i => invite[j].live # "none"
  /\ \E p \in Placeholders \cup {None} :
       /\ p # None => Unclaimed(p) /\ \A t \in Txs : ~ LocksMember(t, p)
       /\ invite' = [invite EXCEPT ![i] = [live |-> "live", whom |-> p, uses |-> 0]]
  /\ UNCHANGED <<member, claimedBy, rooms, joined, tx>>

(* Its seven days pass, or it is revoked by hand. *)
Expire(i) ==
  /\ invite[i].live = "live"
  /\ invite' = [invite EXCEPT ![i].live = "expired"]
  /\ UNCHANGED <<member, claimedBy, rooms, joined, tx>>

Usable(i) == invite[i].live = "live" /\ invite[i].uses < MaxUses

(* previewInvite: what the join screen is told of a link. *)
PreviewUnclaimedUnchecked(i) == Usable(i)
PreviewInvite(i) ==
  Usable(i) /\ (invite[i].whom # None => claimedBy[invite[i].whom] = None)

-----------------------------------------------------------------------------
(* acceptInvite *)

(* The invite FOR UPDATE, its checks, and the read of the membership.  A   *)
(* member who follows a plain link again is done, and uses nothing up.     *)
OpenUnlocked(t) ==
  LET i == tx[t].link
      u == tx[t].who
  IN  /\ tx[t].kind = "accept" /\ tx[t].at = "new"
      /\ IF ~ Usable(i) THEN End(t, "failed")
         ELSE IF Active(u) /\ invite[i].whom = None THEN End(t, "done")
         ELSE Move(t, [tx[t] EXCEPT !.at = "opened", !.existing = member[u].status])
      /\ UNCHANGED <<member, claimedBy, rooms, invite, joined>>

Open(t) ==
  LET i == tx[t].link
      u == tx[t].who
  IN  /\ tx[t].kind = "accept" /\ tx[t].at = "new"
      /\ \A s \in Others(t) : ~ LocksInvite(s, i)
      /\ IF ~ Usable(i) THEN End(t, "failed")
         ELSE IF Active(u) /\ invite[i].whom = None THEN End(t, "done")
         ELSE Move(t, [tx[t] EXCEPT !.at = "opened", !.existing = member[u].status])
      /\ UNCHANGED <<member, claimedBy, rooms, invite, joined>>

(* The placeholder FOR UPDATE: unclaimed, and the room to inherit. *)
LockPlaceholder(t) ==
  LET p == invite[tx[t].link].whom
  IN  /\ tx[t].kind = "accept" /\ tx[t].at = "opened" /\ p # None
      /\ \A s \in Others(t) : ~ LocksMember(s, p)
      /\ IF Unclaimed(p) THEN Move(t, [tx[t] EXCEPT !.at = "locked", !.room = member[p].room])
         ELSE End(t, "failed")
      /\ UNCHANGED <<member, claimedBy, rooms, invite, joined>>

Latest == CHOOSE n \in {member[u].since : u \in People} : \A u \in People : member[u].since =< n

(* Whether the accept writes the membership: a person not there when it    *)
(* looked is inserted unless another accept was faster; one who had left   *)
(* is reactivated, whatever happened since.                                *)
JoinsAlways(t) == tx[t].existing # "active"

Joins(t) == \/ tx[t].existing = "absent" /\ member[tx[t].who].status = "absent"
            \/ tx[t].existing = "left"

(* A member without a room inherits the placeholder's; the placeholder     *)
(* leaves theirs.                                                          *)
SettledWithoutInheriting(t, p) ==
  LET u == tx[t].who
  IN  [member EXCEPT ![u] = IF Joins(t) THEN [status |-> "active", room |-> tx[t].room,
                                              since |-> Latest + 1]
                            ELSE @,
                     ![p] = [@ EXCEPT !.status = "left", !.room = None]]

Settled(t, p) ==
  LET u == tx[t].who
  IN  [member EXCEPT ![u] = IF Joins(t) THEN [status |-> "active", room |-> tx[t].room,
                                              since |-> Latest + 1]
                            ELSE IF @.room = None /\ Active(u) THEN [@ EXCEPT !.room = tx[t].room]
                            ELSE @,
                     ![p] = [@ EXCEPT !.status = "left", !.room = None]]

(* The membership, the use and the event commit together.  A plain accept  *)
(* that lost the race leaves without a use.                                *)
JoinPlain(t) ==
  LET u == tx[t].who
  IN  /\ tx[t].kind = "accept" /\ tx[t].at = "opened" /\ invite[tx[t].link].whom = None
      /\ IF Joins(t)
         THEN /\ member' = [member EXCEPT ![u] = [status |-> "active", room |-> None,
                                                  since |-> Latest + 1]]
              /\ invite' = [invite EXCEPT ![tx[t].link].uses = @ + 1]
              /\ joined' = [joined EXCEPT ![u] = @ + 1]
         ELSE UNCHANGED <<member, invite, joined>>
      /\ End(t, "done")
      /\ UNCHANGED <<claimedBy, rooms>>

Claim(t) ==
  LET u == tx[t].who
      p == invite[tx[t].link].whom
  IN  /\ tx[t].at = "locked"
      /\ member' = Settled(t, p)
      /\ claimedBy' = [claimedBy EXCEPT ![p] = u]
      /\ invite' = [invite EXCEPT ![tx[t].link].uses = @ + 1]
      /\ joined' = [joined EXCEPT ![u] = IF Joins(t) THEN @ + 1 ELSE @]
      /\ End(t, "done")
      /\ UNCHANGED rooms

-----------------------------------------------------------------------------
(* setRooms *)

(* The occupants are active members, read without a lock. *)
ValidateRooms(t) ==
  /\ tx[t].kind = "rooms" /\ tx[t].at = "new"
  /\ IF \A u \in DOMAIN tx[t].put : Active(u) THEN Move(t, [tx[t] EXCEPT !.at = "opened"])
     ELSE End(t, "failed")
  /\ UNCHANGED <<member, claimedBy, rooms, invite, joined>>

(* The update that empties every room picks the house's rows ... *)
PickRows(t) ==
  /\ tx[t].kind = "rooms" /\ tx[t].at = "opened"
  /\ Move(t, [tx[t] EXCEPT !.at = "read", !.rows = {u \in People : member[u].status # "absent"}])
  /\ UNCHANGED <<member, claimedBy, rooms, invite, joined>>

(* The foreign key: a row inserted since refers to an old room. *)
NeverReferred(t) == FALSE
Referred(t) == \E u \in People \ tx[t].rows : member[u].room # None

(* ... and waits for the claims that hold any.  The old rooms are deleted, *)
(* if they may be; the new are inserted and given to those the request     *)
(* named.                                                                  *)
ReplaceRooms(t) ==
  LET room(u) == IF u \in DOMAIN tx[t].put THEN <<t, tx[t].put[u]>>
                 ELSE IF u \in tx[t].rows THEN None ELSE member[u].room
  IN  /\ tx[t].kind = "rooms" /\ tx[t].at = "read"
      /\ \A s \in Others(t), p \in tx[t].rows : ~ LocksMember(s, p)
      /\ IF Referred(t)
         THEN End(t, "failed") /\ UNCHANGED <<member, rooms>>
         ELSE /\ member' = [u \in People |-> [member[u] EXCEPT !.room = room(u)]]
              /\ rooms' = [r \in {<<t, i>> : i \in DOMAIN tx[t].plan} |-> tx[t].plan[r[2]]]
              /\ End(t, "done")
      /\ UNCHANGED <<claimedBy, invite, joined>>

-----------------------------------------------------------------------------
(* A room-weighted bill: postOne and the posting core *)

(* resolveSplits, for those charged. *)
RoomSplit(S) ==
  [mode |-> "room_weighted", total |-> Total, payer |-> Owner,
   given |-> DeriveRoomWeights([u \in S |-> member[u].room], rooms,
                             [u \in S |-> member[u].since])]

ReadMembers(t) ==
  /\ tx[t].kind = "bill" /\ tx[t].at = "new"
  /\ Move(t, [tx[t] EXCEPT !.at = "read", !.rows = {u \in People : Active(u)}])
  /\ UNCHANGED <<member, claimedBy, rooms, invite, joined>>

(* Claims of these rows are waited for; those still active and with a room *)
(* are charged.  Weights that do not sum up pause the bill.                *)
PostBill(t) ==
  LET in == RoomSplit({u \in tx[t].rows : Active(u) /\ member[u].room # None})
  IN  /\ tx[t].kind = "bill" /\ tx[t].at = "read"
      /\ \A s \in Others(t), p \in tx[t].rows : ~ LocksMember(s, p)
      /\ IF Accepts(in) THEN Move(t, [tx[t] EXCEPT !.at = "done", !.splits = ComputeSplits(in)])
         ELSE End(t, "paused")
      /\ UNCHANGED <<member, claimedBy, rooms, invite, joined>>

-----------------------------------------------------------------------------
(* A transaction fails: its process dies, or the database aborts it, for   *)
(* instance as the victim of a deadlock between a claim and setRooms.      *)
Abort(t) ==
  /\ tx[t].at \in {"opened", "locked", "read"}
  /\ End(t, "failed")
  /\ UNCHANGED <<member, claimedBy, rooms, invite, joined>>

Next ==
  \/ \E p \in Placeholders : CreatePlaceholder(p)
  \/ \E i \in Invites : CreateInvite(i) \/ Expire(i)
  \/ \E t \in Txs : \/ Open(t) \/ LockPlaceholder(t) \/ JoinPlain(t) \/ Claim(t)
                    \/ ValidateRooms(t) \/ PickRows(t) \/ ReplaceRooms(t)
                    \/ ReadMembers(t) \/ PostBill(t) \/ Abort(t)

Spec == Init /\ [][Next]_vars

-----------------------------------------------------------------------------
(* No interleaving of accepts takes more out of an invite than max_uses.   *)
UsesWithinMax == \A i \in Invites : invite[i].uses =< MaxUses

(* The feed tells of every joining once, whichever links a person follows  *)
(* at the same time.  Not of those who left: two of their accepts may both *)
(* find them gone, and both bring them back.                               *)
JoinedToldOnce ==
  \A u \in Joiners \ Returning : joined[u] = IF member[u].since > 0 THEN 1 ELSE 0

(* A link whose preview names the house, or a roommate to join as, is one  *)
(* that an accept takes: no "you'll join as Sam" that fails on the tap.    *)
PreviewKeepsWord ==
  \A i \in Invites : PreviewInvite(i) /\ invite[i].whom # None => Unclaimed(invite[i].whom)

Held(r) == \E u \in People : Active(u) /\ member[u].room = r

(* t's claim of the placeholder it has locked. *)
Claims(t) ==
  /\ tx[t].at = "locked"
  /\ claimedBy[invite[tx[t].link].whom] = None /\ claimedBy'[invite[tx[t].link].whom] # None

(* No room that had somebody in it is left without, but for the            *)
(* placeholder's own when the claimer stays in another: two cannot merge.  *)
KeepsRooms(t) ==
  LET u == tx[t].who
      p == invite[tx[t].link].whom
      staysInAnother == /\ Active(u) /\ member[u].room \notin {None, member[p].room}
                        /\ member'[u].room = member[u].room
  IN  \A r \in DOMAIN rooms : Held(r) => Held(r)' \/ (staysInAnother /\ r = member[p].room)

(* Another accept has brought them back since this one found them gone.    *)
BroughtBack(t) == tx[t].existing = "left" /\ Active(tx[t].who)

(* "Claiming never leaves the room occupant-less", of newcomers, members   *)
(* and returning members, whatever rooms, links and other accepts did      *)
(* since this one looked: except that it brought them back, see next.      *)
ClaimKeepsRooms == [][\A t \in Txs : Claims(t) /\ ~ BroughtBack(t) => KeepsRooms(t)]_vars

(* The same without the exception, as the comment in acceptInvite has it:  *)
(* the second of two racing claims of one returning member takes them out  *)
(* of the room that the first has put them in, and nobody is left there.   *)
ClaimNeverEmptiesRooms == [][\A t \in Txs : Claims(t) => KeepsRooms(t)]_vars

(* While every room has somebody in it, a room-weighted split of the house *)
(* is possible and charges the whole total, however the rooms' points      *)
(* divide among their occupants and the cents among the points.            *)
HeldRoomsSplit ==
  DOMAIN rooms # {} /\ (\A r \in DOMAIN rooms : Held(r)) =>
    LET in == RoomSplit({u \in People : Active(u) /\ member[u].room # None})
    IN  Accepts(in) /\ SumFunction(ComputeSplits(in)) = Total

(* What rooms.service.ts answers 400 for: "Every room occupant must be an  *)
(* active house member".                                                   *)
OccupantsAreActive == \A u \in People : member[u].room # None => Active(u)

(* What post-due-bills.ts says of the pause: a bill that cannot post has   *)
(* "a vacant room".                                                        *)
PausedOnlyIfVacant ==
  [][\A t \in Txs : tx'[t].at = "paused" /\ tx[t].at # "paused" =>
       DOMAIN rooms = {} \/ \E r \in DOMAIN rooms : ~ Held(r)]_vars
=============================================================================
