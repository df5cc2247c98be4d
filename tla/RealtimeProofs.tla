--------------------------- MODULE RealtimeProofs ---------------------------
(***************************************************************************)
(* Theorems about Realtime, for any number of sockets, changes and         *)
(* requests.                                                               *)
(***************************************************************************)
EXTENDS Realtime, SequenceTheorems, TLAPS

Commands == Sockets \cup {"unsubscribe"}

-----------------------------------------------------------------------------
(* The subscriber's connection *)

LEMMA AppendIs ==
  ASSUME NEW w \in Seq(Commands), NEW x \in Commands
  PROVE  LET a == Append(w, x)
         IN  /\ a \in Seq(Commands) /\ Len(w) \in Nat /\ Len(a) = Len(w) + 1 /\ a[Len(w) + 1] = x
             /\ \A k \in 1..Len(w) : a[k] = w[k] /\ w[k] \in Commands
OBVIOUS

LEMMA TailIs ==
  ASSUME NEW w \in Seq(Commands), w # <<>>
  PROVE  /\ Tail(w) \in Seq(Commands) /\ Len(w) \in Nat /\ Len(w) >= 1
         /\ Len(Tail(w)) = Len(w) - 1 /\ Head(w) = w[1]
         /\ \A k \in 1..Len(Tail(w)) : Tail(w)[k] = w[k + 1] /\ w[k + 1] \in Commands
         /\ w[1] \in Commands
<1>1. Len(w) \in Nat \ {0} /\ \A k \in 1..Len(w) : w[k] \in Commands
  BY EmptySeq
<1>2. Tail(w) \in Seq(Commands) /\ Len(Tail(w)) = Len(w) - 1
      /\ \A k \in 1..Len(Tail(w)) : Tail(w)[k] = w[k + 1]
  BY HeadTailProperties
<1>. QED
  BY <1>1, <1>2

(* A listener is heard: an open socket's channel is subscribed with no     *)
(* command under way that would end that, and a subscription under way is  *)
(* the last word about its socket.                                         *)
Hears(at) == at \in {"subscribing", "open"}

Wired(w, at, L, ch) ==
  /\ w \in Seq(Commands)
  /\ \A s \in Sockets : Hears(at[s]) => s \in L
  /\ \A s \in Sockets : at[s] = "open" => ch = TRUE /\ \A k \in 1..Len(w) : w[k] # "unsubscribe"
  /\ \A k \in 1..Len(w) : w[k] # "unsubscribe" =>
       /\ at[w[k]] = "subscribing"
       /\ \A j \in 1..Len(w) : /\ w[j] = w[k] => j = k
                               /\ j > k => w[j] # "unsubscribe"

(* Sockets go, but none that hears and none whose subscription is out. *)
LEMMA WiredLess ==
  ASSUME NEW w, NEW at, NEW L, NEW ch, Wired(w, at, L, ch), NEW b, NEW M,
         \A s \in Sockets : b[s] = at[s] \/ (~ Hears(b[s]) /\ at[s] # "subscribing"),
         \A s \in Sockets : Hears(b[s]) => s \in M
  PROVE  Wired(w, b, M, ch)
<1>1. \A k \in 1..Len(w) : w[k] # "unsubscribe" => w[k] \in Sockets
  BY DEF Wired, Commands
<1>2. ASSUME NEW k \in 1..Len(w), w[k] # "unsubscribe"
      PROVE  b[w[k]] = "subscribing"
  BY <1>1, <1>2 DEF Wired, Hears
<1>3. ASSUME NEW s \in Sockets, b[s] = "open"
      PROVE  ch = TRUE /\ \A k \in 1..Len(w) : w[k] # "unsubscribe"
  <2>1. at[s] = "open"
    BY <1>3 DEF Hears
  <2>. QED
    BY <2>1 DEF Wired
<1>. QED
  BY <1>2, <1>3 DEF Wired

(* The last listener is off: nobody is there to be silenced. *)
LEMMA WiredOff ==
  ASSUME NEW w, NEW at, NEW L, NEW ch, Wired(w, at, L, ch), L = {}
  PROVE  Wired(Append(w, "unsubscribe"), at, L, ch)
<1>. DEFINE a == Append(w, "unsubscribe")
<1>1. "unsubscribe" \in Commands /\ w \in Seq(Commands)
  BY DEF Wired, Commands
<1>2. /\ a \in Seq(Commands) /\ Len(w) \in Nat /\ Len(a) = Len(w) + 1
      /\ a[Len(w) + 1] = "unsubscribe" /\ \A k \in 1..Len(w) : a[k] = w[k] /\ w[k] \in Commands
  BY <1>1, AppendIs
<1>. HIDE DEF a
<1>3. \A s \in Sockets : ~ Hears(at[s])
  BY DEF Wired
<1>4. \A k \in 1..Len(w) : w[k] = "unsubscribe"
  BY <1>2, <1>3 DEF Wired, Commands, Hears
<1>5. \A k \in 1..Len(a) : a[k] = "unsubscribe"
  <2>. TAKE k \in 1..Len(a)
  <2>1. k \in 1..Len(w) \/ k = Len(w) + 1
    BY <1>2
  <2>. QED
    BY <1>2, <1>4, <2>1
<1>6. Wired(a, at, L, ch)
  BY <1>2, <1>3, <1>5 DEF Wired, Hears
<1>. QED
  BY <1>6 DEF a

(* A subscription goes out. *)
LEMMA WiredOn ==
  ASSUME NEW w, NEW at, NEW L, NEW ch, Wired(w, at, L, ch), NEW s \in Sockets,
         ~ Hears(at[s]), NEW b, b[s] = "subscribing", \A x \in Sockets \ {s} : b[x] = at[x]
  PROVE  Wired(Append(w, s), b, L \cup {s}, ch)
<1>. DEFINE a == Append(w, s)
<1>1. s \in Commands /\ w \in Seq(Commands) /\ s # "unsubscribe"
  BY RealtimeAssumption DEF Wired, Commands
<1>2. /\ a \in Seq(Commands) /\ Len(w) \in Nat /\ Len(a) = Len(w) + 1
      /\ a[Len(w) + 1] = s /\ \A k \in 1..Len(w) : a[k] = w[k] /\ w[k] \in Commands
  BY <1>1, AppendIs
<1>. HIDE DEF a
<1>3. \A k \in 1..Len(a) : k \in 1..Len(w) \/ k = Len(w) + 1
  BY <1>2
<1>4. \A k \in 1..Len(w) : w[k] # s
  BY <1>1 DEF Wired, Hears
<1>5. ASSUME NEW k \in 1..Len(a), a[k] # "unsubscribe"
      PROVE  /\ b[a[k]] = "subscribing"
             /\ \A j \in 1..Len(a) : /\ a[j] = a[k] => j = k
                                     /\ j > k => a[j] # "unsubscribe"
  <2>1. CASE k = Len(w) + 1
    BY <1>2, <1>3, <1>4, <2>1
  <2>2. CASE k \in 1..Len(w)
    <3>1. w[k] = a[k] /\ a[k] \in Sockets \ {s}
      BY <1>2, <1>4, <1>5, <2>2 DEF Commands
    <3>2. /\ at[w[k]] = "subscribing"
          /\ \A j \in 1..Len(w) : /\ w[j] = w[k] => j = k
                                  /\ j > k => w[j] # "unsubscribe"
      BY <1>5, <2>2, <3>1 DEF Wired
    <3>. QED
      BY <1>1, <1>2, <1>3, <3>1, <3>2
  <2>. QED
    BY <1>3, <2>1, <2>2
<1>6. ASSUME NEW x \in Sockets, b[x] = "open"
      PROVE  ch = TRUE /\ \A k \in 1..Len(a) : a[k] # "unsubscribe"
  <2>1. at[x] = "open"
    BY <1>6
  <2>. QED
    BY <1>1, <1>2, <1>3, <2>1 DEF Wired
<1>7. \A x \in Sockets : Hears(b[x]) => x \in L \cup {s}
  BY DEF Wired
<1>8. Wired(a, b, L \cup {s}, ch)
  BY <1>2, <1>5, <1>6, <1>7 DEF Wired
<1>. QED
  BY <1>8 DEF a

(* Redis has taken an unsubscribe. *)
LEMMA WiredTail ==
  ASSUME NEW w, NEW at, NEW L, NEW ch, Wired(w, at, L, ch), w # <<>>,
         NEW b, NEW c,
         \A s \in Sockets : b[s] = at[s] \/ (s = Head(w) /\ b[s] # "subscribing"),
         \A s \in Sockets : Hears(b[s]) => s \in L,
         \A s \in Sockets : b[s] = "open" => c = TRUE /\ Head(w) # "unsubscribe"
  PROVE  Wired(Tail(w), b, L, c)
<1>. DEFINE a == Tail(w)
<1>1. w \in Seq(Commands)
  BY DEF Wired
<1>2. /\ a \in Seq(Commands) /\ Len(w) \in Nat /\ Len(w) >= 1 /\ Len(a) = Len(w) - 1
      /\ Head(w) = w[1] /\ w[1] \in Commands
      /\ \A k \in 1..Len(a) : a[k] = w[k + 1] /\ w[k + 1] \in Commands
  BY <1>1, TailIs
<1>. HIDE DEF a
<1>3. 1 \in 1..Len(w) /\ \A k \in 1..Len(a) : k + 1 \in 1..Len(w) /\ k + 1 > 1 /\ k + 1 # 1
  BY <1>2
<1>4. ASSUME NEW k \in 1..Len(a), a[k] # "unsubscribe"
      PROVE  /\ b[a[k]] = "subscribing"
             /\ \A j \in 1..Len(a) : /\ a[j] = a[k] => j = k
                                     /\ j > k => a[j] # "unsubscribe"
  <2>. DEFINE n == k + 1
  <2>1. n \in 1..Len(w) /\ w[n] = a[k] /\ w[n] # "unsubscribe" /\ n # 1
    BY <1>2, <1>3, <1>4
  <2>2. /\ at[w[n]] = "subscribing"
        /\ \A j \in 1..Len(w) : /\ w[j] = w[n] => j = n
                                /\ j > n => w[j] # "unsubscribe"
    <3>. HIDE DEF n
    <3>. QED
      BY <2>1 DEF Wired
  <2>3. a[k] \in Sockets /\ a[k] # Head(w)
    <3>1. a[k] \in Commands
      BY <1>2
    <3>2. w[1] # w[n]
      BY <1>3, <2>1, <2>2
    <3>. QED
      BY <1>2, <1>4, <2>1, <3>1, <3>2 DEF Commands
  <2>4. b[a[k]] = "subscribing"
    BY <2>1, <2>2, <2>3
  <2>5. ASSUME NEW j \in 1..Len(a)
        PROVE  (a[j] = a[k] => j = k) /\ (j > k => a[j] # "unsubscribe")
    <3>1. j + 1 \in 1..Len(w) /\ w[j + 1] = a[j] /\ j \in Int /\ k \in Int
      BY <1>2, <1>3
    <3>2. (w[j + 1] = w[n] => j + 1 = n) /\ (j + 1 > n => w[j + 1] # "unsubscribe")
      BY <2>2, <3>1
    <3>. QED
      BY <2>1, <3>1, <3>2
  <2>. QED
    BY <2>4, <2>5
<1>5. ASSUME NEW s \in Sockets, b[s] = "open"
      PROVE  c = TRUE /\ \A k \in 1..Len(a) : a[k] # "unsubscribe"
  <2>1. c = TRUE /\ w[1] # "unsubscribe"
    BY <1>2, <1>5
  <2>2. \A j \in 1..Len(w) : j > 1 => w[j] # "unsubscribe"
    BY <1>3, <2>1 DEF Wired
  <2>. QED
    BY <1>2, <1>3, <2>1, <2>2
<1>6. Wired(a, b, L, c)
  BY <1>2, <1>4, <1>5 DEF Wired
<1>. QED
  BY <1>6 DEF a

-----------------------------------------------------------------------------
(* The invariant *)

IsPhone(p) ==
  /\ p = [app |-> p.app, sock |-> p.sock, cur |-> p.cur, opens |-> p.opens, shown |-> p.shown,
          banner |-> p.banner]
  /\ p.opens \in Nat /\ (p.sock \notin {"down", "closed"} => p.cur \in Sockets)

ServerInv ==
  /\ server = [s \in Sockets |-> server[s]]
  /\ Wired(wire, server, listeners, channel)

(* One request is the newest, and it will bring nothing older than what is *)
(* on the screen.                                                          *)
ReqsOK(rs, v, shown) ==
  /\ v \in Nat /\ shown \in Int /\ shown =< v
  /\ \A r \in rs : /\ r.ver = Nothing \/ (r.ver \in Nat /\ r.ver =< v)
                   /\ r.newest \in BOOLEAN
                   /\ r.newest /\ r.ver # Nothing => r.ver >= shown
  /\ \A q, r \in rs : q.newest /\ r.newest => q = r

CurInv == phone.sock = "open" /\ phone.cur \in link => server[phone.cur] = "open"

(* A phone that listens has the house on its screen, or on its way: a hint *)
(* to be published or delivered, a request to be read or that has read the *)
(* house as it is; or else its last request failed, and it says so.        *)
Covered ==
  \/ unsent > 0 \/ phone.cur \in hint \/ phone.shown = version
  \/ \E r \in reqs : r.newest /\ r.ver \in {Nothing, version}
  \/ phone.banner /\ \A r \in reqs : ~ r.newest

FreshInv ==
  phone.app = "active" /\ phone.sock = "open" /\ phone.opens = 2 /\ phone.cur \in link /\ ~ lost
    => Covered

IndInv == /\ unsent \in Nat /\ IsPhone(phone) /\ ServerInv
          /\ ReqsOK(reqs, version, phone.shown) /\ CurInv /\ FreshInv

-----------------------------------------------------------------------------
(* The server *)

LEMMA ServerStepKeeps ==
  ASSUME IndInv, UNCHANGED <<version, unsent, hint, phoneVars>>, ServerInv', link' \subseteq link,
         phone.sock = "open" /\ phone.cur \in link' => server'[phone.cur] = server[phone.cur]
  PROVE  IndInv'
<1>1. UNCHANGED <<version, unsent, hint, phone, reqs, lost>>
  BY DEF phoneVars
<1>2. CurInv'
  BY <1>1 DEF IndInv, CurInv
<1>3. FreshInv'
  BY <1>1 DEF IndInv, FreshInv, Covered
<1>. QED
  BY <1>1, <1>2, <1>3 DEF IndInv, IsPhone, ReqsOK

LEMMA SetIs ==
  ASSUME ServerInv, NEW s \in Sockets, NEW at, Set(s, at)
  PROVE  /\ server' = [x \in Sockets |-> server'[x]] /\ server'[s] = at
         /\ \A x \in Sockets \ {s} : server'[x] = server[x]
BY DEF ServerInv, Set

LEMMA SubscribeKeeps ==
  ASSUME IndInv, NEW s \in Sockets, Subscribe(s)
  PROVE  IndInv'
<1>1. /\ server[s] = "checking" /\ Set(s, "subscribing")
      /\ listeners' = listeners \cup {s} /\ wire' = Append(wire, s)
      /\ UNCHANGED <<channel, link, version, unsent, hint, phoneVars>>
  BY DEF Subscribe
<1>2. /\ server' = [x \in Sockets |-> server'[x]] /\ server'[s] = "subscribing"
      /\ \A x \in Sockets \ {s} : server'[x] = server[x]
  BY <1>1, SetIs DEF IndInv
<1>3. Wired(wire, server, listeners, channel) /\ ~ Hears(server[s])
  BY <1>1 DEF IndInv, ServerInv, Hears
<1>4. Wired(Append(wire, s), server', listeners \cup {s}, channel)
  BY <1>2, <1>3, WiredOn
<1>5. ServerInv'
  BY <1>1, <1>2, <1>4 DEF ServerInv
<1>6. phone.sock = "open" /\ phone.cur \in link => phone.cur \in Sockets \ {s}
  BY <1>1 DEF IndInv, CurInv, IsPhone
<1>. QED
  BY <1>1, <1>2, <1>5, <1>6, ServerStepKeeps

LEMMA RefuseKeeps ==
  ASSUME IndInv, NEW s \in Sockets, Refuse(s)
  PROVE  IndInv'
<1>1. /\ server[s] = "checking" /\ Set(s, "gone") /\ link' = link \ {s}
      /\ UNCHANGED <<listeners, wire, channel, version, unsent, hint, phoneVars>>
  BY DEF Refuse
<1>2. /\ server' = [x \in Sockets |-> server'[x]] /\ server'[s] = "gone"
      /\ \A x \in Sockets \ {s} : server'[x] = server[x]
  BY <1>1, SetIs DEF IndInv
<1>3. Wired(wire, server, listeners, channel)
  BY DEF IndInv, ServerInv
<1>4. \A x \in Sockets : /\ server'[x] = server[x] \/ (~ Hears(server'[x]) /\ server[x] # "subscribing")
                         /\ Hears(server'[x]) => x \in listeners
  BY <1>1, <1>2, <1>3 DEF Hears, Wired
<1>5. Wired(wire, server', listeners, channel)
  BY <1>3, <1>4, WiredLess
<1>6. ServerInv'
  BY <1>1, <1>2, <1>5 DEF ServerInv
<1>7. phone.sock = "open" /\ phone.cur \in link => phone.cur \in Sockets \ {s}
  BY <1>1 DEF IndInv, CurInv, IsPhone
<1>. QED
  BY <1>1, <1>2, <1>6, <1>7, ServerStepKeeps

(* Redis takes a command, or fails it: the socket it is for, if any, was   *)
(* subscribing, and is not what the phone listens on.                      *)
LEMMA HeadIs ==
  ASSUME IndInv, wire # <<>>
  PROVE  /\ Head(wire) \in Commands
         /\ Head(wire) # "unsubscribe" =>
              /\ Head(wire) \in Sockets /\ server[Head(wire)] = "subscribing"
              /\ Head(wire) \in listeners
              /\ phone.sock = "open" /\ phone.cur \in link => phone.cur \in Sockets \ {Head(wire)}
         /\ Head(wire) = "unsubscribe" => \A s \in Sockets : server[s] # "open"
<1>1. Wired(wire, server, listeners, channel) /\ wire \in Seq(Commands)
  BY DEF IndInv, ServerInv, Wired
<1>2. Head(wire) = wire[1] /\ 1 \in 1..Len(wire) /\ wire[1] \in Commands
  BY <1>1, TailIs
<1>3. ASSUME wire[1] # "unsubscribe"
      PROVE  wire[1] \in Sockets /\ server[wire[1]] = "subscribing" /\ wire[1] \in listeners
  BY <1>1, <1>2, <1>3 DEF Wired, Commands, Hears
<1>4. wire[1] = "unsubscribe" => \A s \in Sockets : server[s] # "open"
  BY <1>1, <1>2 DEF Wired
<1>5. phone.sock = "open" /\ phone.cur \in link => phone.cur \in Sockets /\ server[phone.cur] = "open"
  BY DEF IndInv, CurInv, IsPhone
<1>. QED
  BY <1>2, <1>3, <1>4, <1>5

LEMMA RedisTakesKeeps ==
  ASSUME IndInv, RedisTakes
  PROVE  IndInv'
<1>. DEFINE h == Head(wire)
<1>1. wire # <<>> /\ UNCHANGED <<version, unsent, serving, hint, phoneVars>>
  BY DEF RedisTakes
<1>2. Wired(wire, server, listeners, channel) /\ server = [s \in Sockets |-> server[s]]
  BY DEF IndInv, ServerInv
<1>3. CASE h = "unsubscribe"
  <2>1. channel' = FALSE /\ wire' = Tail(wire) /\ UNCHANGED <<server, listeners, link>>
    BY <1>3 DEF RedisTakes
  <2>2. \A s \in Sockets : server[s] # "open" /\ (Hears(server[s]) => s \in listeners)
    BY <1>1, <1>2, <1>3, HeadIs DEF Wired
  <2>3. Wired(Tail(wire), server, listeners, FALSE)
    BY <1>1, <1>2, <2>2, WiredTail
  <2>4. ServerInv'
    BY <1>2, <2>1, <2>3 DEF ServerInv
  <2>. QED
    BY <1>1, <2>1, <2>4, ServerStepKeeps
<1>4. CASE h # "unsubscribe"
  <2>1. channel' = TRUE /\ Acked(h)
    BY <1>4 DEF RedisTakes
  <2>2. /\ h \in Sockets /\ server[h] = "subscribing" /\ h \in listeners
        /\ phone.sock = "open" /\ phone.cur \in link => phone.cur \in Sockets \ {h}
    BY <1>1, <1>4, HeadIs
  <2>3. ASSUME NEW at, Set(h, at)
        PROVE  /\ server' = [x \in Sockets |-> server'[x]] /\ server'[h] = at
               /\ \A x \in Sockets \ {h} : server'[x] = server[x]
    BY <2>2, <2>3, SetIs DEF IndInv
  <2>4. ASSUME Set(h, "gone")
        PROVE  Wired(Tail(wire), server', listeners, TRUE)
    <3>1. \A s \in Sockets : /\ server'[s] = server[s] \/ (s = h /\ server'[s] # "subscribing")
                             /\ Hears(server'[s]) => s \in listeners
      BY <1>2, <2>2, <2>3, <2>4 DEF Hears, Wired
    <3>. QED
      BY <1>1, <1>2, <1>4, <3>1, WiredTail
  <2>5. CASE ~ serving
    <3>1. /\ Set(h, "gone") /\ link' = link \ {h} /\ listeners' = listeners \ {h}
          /\ wire' = IF listeners \subseteq {h} THEN Append(Tail(wire), "unsubscribe") ELSE Tail(wire)
      BY <2>1, <2>5 DEF Acked
    <3>2. /\ server' = [x \in Sockets |-> server'[x]] /\ server'[h] = "gone"
          /\ \A x \in Sockets \ {h} : server'[x] = server[x]
      BY <2>3, <3>1
    <3>3. Wired(Tail(wire), server', listeners, TRUE)
      BY <2>4, <3>1
    <3>4. Wired(Tail(wire), server', listeners', TRUE)
      <4>1. \A s \in Sockets : Hears(server'[s]) => s \in listeners'
        BY <3>1, <3>2, <3>3 DEF Wired, Hears
      <4>. QED
        BY <3>3, <4>1, WiredLess
    <3>5. Wired(wire', server', listeners', TRUE)
      <4>1. CASE listeners \subseteq {h}
        BY <3>1, <3>4, <4>1, WiredOff
      <4>2. CASE ~ (listeners \subseteq {h})
        BY <3>1, <3>4, <4>2
      <4>. QED
        BY <4>1, <4>2
    <3>6. ServerInv'
      BY <2>1, <3>2, <3>5 DEF ServerInv
    <3>. QED
      BY <1>1, <2>2, <3>1, <3>2, <3>6, ServerStepKeeps
  <2>6. CASE serving /\ h \in link
    <3>1. Set(h, "open") /\ wire' = Tail(wire) /\ UNCHANGED <<listeners, link>>
      BY <2>1, <2>6 DEF Acked
    <3>2. /\ server' = [x \in Sockets |-> server'[x]] /\ server'[h] = "open"
          /\ \A x \in Sockets \ {h} : server'[x] = server[x]
      BY <2>3, <3>1
    <3>3. \A s \in Sockets : /\ server'[s] = server[s] \/ (s = h /\ server'[s] # "subscribing")
                             /\ Hears(server'[s]) => s \in listeners
      BY <1>2, <2>2, <3>2 DEF Hears, Wired
    <3>4. Wired(Tail(wire), server', listeners, TRUE)
      BY <1>1, <1>2, <1>4, <3>3, WiredTail
    <3>5. ServerInv'
      BY <2>1, <3>1, <3>2, <3>4 DEF ServerInv
    <3>. QED
      BY <1>1, <2>2, <3>1, <3>2, <3>5, ServerStepKeeps
  <2>7. CASE serving /\ h \notin link
    <3>1. Set(h, "gone") /\ wire' = Tail(wire) /\ UNCHANGED <<listeners, link>>
      BY <2>1, <2>7 DEF Acked
    <3>2. /\ server' = [x \in Sockets |-> server'[x]] /\ server'[h] = "gone"
          /\ \A x \in Sockets \ {h} : server'[x] = server[x]
      BY <2>3, <3>1
    <3>3. Wired(Tail(wire), server', listeners, TRUE)
      BY <2>4, <3>1
    <3>4. ServerInv'
      BY <2>1, <3>1, <3>2, <3>3 DEF ServerInv
    <3>. QED
      BY <1>1, <2>2, <3>1, <3>2, <3>4, ServerStepKeeps
  <2>. QED
    BY <2>5, <2>6, <2>7
<1>. QED
  BY <1>3, <1>4

LEMMA RedisFailsKeeps ==
  ASSUME IndInv, RedisFails
  PROVE  IndInv'
<1>. DEFINE h == Head(wire)
<1>1. /\ wire # <<>> /\ wire' = Tail(wire)
      /\ UNCHANGED <<version, unsent, listeners, channel, hint, phoneVars>>
  BY DEF RedisFails
<1>2. Wired(wire, server, listeners, channel) /\ server = [s \in Sockets |-> server[s]]
  BY DEF IndInv, ServerInv
<1>3. CASE h = "unsubscribe"
  <2>1. UNCHANGED <<server, link>>
    BY <1>3 DEF RedisFails
  <2>2. \A s \in Sockets : server[s] # "open" /\ (Hears(server[s]) => s \in listeners)
    BY <1>1, <1>2, <1>3, HeadIs DEF Wired
  <2>3. Wired(Tail(wire), server, listeners, channel)
    BY <1>1, <1>2, <2>2, WiredTail
  <2>4. ServerInv'
    BY <1>1, <1>2, <2>1, <2>3 DEF ServerInv
  <2>. QED
    BY <1>1, <2>1, <2>4, ServerStepKeeps
<1>4. CASE h # "unsubscribe"
  <2>1. Set(h, "gone") /\ link' = link \ {h}
    BY <1>4 DEF RedisFails
  <2>2. /\ h \in Sockets /\ server[h] = "subscribing" /\ h \in listeners
        /\ phone.sock = "open" /\ phone.cur \in link => phone.cur \in Sockets \ {h}
    BY <1>1, <1>4, HeadIs
  <2>3. /\ server' = [x \in Sockets |-> server'[x]] /\ server'[h] = "gone"
        /\ \A x \in Sockets \ {h} : server'[x] = server[x]
    BY <2>1, <2>2, SetIs DEF IndInv
  <2>4. \A s \in Sockets : /\ server'[s] = server[s] \/ (s = h /\ server'[s] # "subscribing")
                           /\ Hears(server'[s]) => s \in listeners
                           /\ server'[s] = "open" => channel = TRUE
    BY <1>2, <2>2, <2>3 DEF Hears, Wired
  <2>5. Wired(Tail(wire), server', listeners, channel)
    BY <1>1, <1>2, <1>4, <2>4, WiredTail
  <2>6. ServerInv'
    BY <1>1, <2>3, <2>5 DEF ServerInv
  <2>. QED
    BY <1>1, <2>1, <2>2, <2>3, <2>6, ServerStepKeeps
<1>. QED
  BY <1>3, <1>4

(* Sockets close, and the last one off unsubscribes. *)
LEMMA OffWired ==
  ASSUME NEW M, Off(M), NEW b, Wired(wire, b, M, channel)
  PROVE  Wired(wire', b, listeners', channel)
<1>1. CASE M = {}
  BY <1>1, WiredOff DEF Off
<1>2. CASE M # {}
  BY <1>2 DEF Off
<1>. QED
  BY <1>1, <1>2

LEMMA GoneKeeps ==
  ASSUME IndInv, NEW s \in Sockets, Gone(s)
  PROVE  IndInv'
<1>1. /\ server[s] = "open" /\ s \notin link /\ Set(s, "gone") /\ Off(listeners \ {s})
      /\ UNCHANGED <<version, unsent, channel, link, hint, phoneVars>>
  BY DEF Gone
<1>2. /\ server' = [x \in Sockets |-> server'[x]] /\ server'[s] = "gone"
      /\ \A x \in Sockets \ {s} : server'[x] = server[x]
  BY <1>1, SetIs DEF IndInv
<1>3. Wired(wire, server, listeners, channel)
  BY DEF IndInv, ServerInv
<1>4. \A x \in Sockets : /\ server'[x] = server[x] \/ (~ Hears(server'[x]) /\ server[x] # "subscribing")
                         /\ Hears(server'[x]) => x \in listeners \ {s}
  BY <1>1, <1>2, <1>3 DEF Hears, Wired
<1>5. Wired(wire, server', listeners \ {s}, channel)
  BY <1>3, <1>4, WiredLess
<1>6. Wired(wire', server', listeners', channel)
  BY <1>1, <1>5, OffWired
<1>7. ServerInv'
  BY <1>1, <1>2, <1>6 DEF ServerInv
<1>8. phone.sock = "open" /\ phone.cur \in link => phone.cur \in Sockets \ {s}
  BY <1>1 DEF IndInv, IsPhone
<1>. QED
  BY <1>1, <1>2, <1>7, <1>8, ServerStepKeeps

(* Open sockets are terminated, some or all of them. *)
LEMMA TerminateKeeps ==
  ASSUME IndInv, NEW S, S \subseteq OpenOnes, Terminate(S),
         UNCHANGED <<version, unsent, channel, hint, phoneVars>>
  PROVE  IndInv'
<1>1. /\ server' = [s \in Sockets |-> IF s \in S THEN "gone" ELSE server[s]]
      /\ link' = link \ S
      /\ IF S # {} THEN Off(listeners \ S) ELSE UNCHANGED <<listeners, wire>>
      /\ \A s \in S : s \in Sockets /\ server[s] = "open"
  BY DEF Terminate, OpenOnes
<1>2. Wired(wire, server, listeners, channel)
  BY DEF IndInv, ServerInv
<1>3. \A x \in Sockets : /\ server'[x] = server[x] \/ (~ Hears(server'[x]) /\ server[x] # "subscribing")
                         /\ Hears(server'[x]) => x \in listeners \ S
  BY <1>1, <1>2 DEF Hears, Wired
<1>4. Wired(wire, server', listeners \ S, channel)
  BY <1>2, <1>3, WiredLess
<1>5. Wired(wire', server', listeners', channel)
  <2>1. CASE S # {}
    BY <1>1, <1>4, <2>1, OffWired
  <2>2. CASE S = {}
    <3>1. wire' = wire /\ listeners' = listeners \ S
      BY <1>1, <2>2
    <3>. QED
      BY <1>4, <3>1
  <2>. QED
    BY <2>1, <2>2
<1>6. ServerInv'
  BY <1>1, <1>5 DEF ServerInv
<1>7. phone.sock = "open" /\ phone.cur \in link' => phone.cur \in Sockets \ S
  BY <1>1 DEF IndInv, IsPhone
<1>. QED
  BY <1>1, <1>6, <1>7, ServerStepKeeps

LEMMA ShutdownKeeps ==
  ASSUME IndInv, Shutdown
  PROVE  IndInv'
BY TerminateKeeps DEF Shutdown

LEMMA HeartbeatKeeps ==
  ASSUME IndInv, Heartbeat
  PROVE  IndInv'
<1>1. OpenOnes \ alive \subseteq OpenOnes
  OBVIOUS
<1>. QED
  BY <1>1, TerminateKeeps DEF Heartbeat

LEMMA BootKeeps ==
  ASSUME IndInv, Boot
  PROVE  IndInv'
<1>1. /\ server' = [s \in Sockets |-> IF server[s] = "none" THEN "none" ELSE "gone"]
      /\ link' = {} /\ listeners' = {} /\ wire' = <<>> /\ channel' = FALSE
      /\ UNCHANGED <<version, unsent, hint, phoneVars>>
  BY DEF Boot
<1>2. Wired(<<>>, server', {}, FALSE)
  BY <1>1 DEF Wired, Hears
<1>3. ServerInv'
  BY <1>1, <1>2 DEF ServerInv
<1>. QED
  BY <1>1, <1>3, ServerStepKeeps

LEMMA ServerStands ==
  ASSUME ServerInv, UNCHANGED <<server, wire, listeners, channel>>
  PROVE  ServerInv'
BY DEF ServerInv, Wired, Hears, Commands

LEMMA PongKeeps ==
  ASSUME IndInv, NEW s \in Sockets, Pong(s)
  PROVE  IndInv'
<1>1. /\ UNCHANGED <<server, wire, listeners, channel, link>>
      /\ UNCHANGED <<version, unsent, hint, phoneVars>>
  BY DEF Pong
<1>2. ServerInv'
  BY <1>1, ServerStands DEF IndInv
<1>. QED
  BY <1>1, <1>2, ServerStepKeeps

-----------------------------------------------------------------------------
(* Changes of the house, hints and the network *)

LEMMA CommitKeeps ==
  ASSUME IndInv, Commit
  PROVE  IndInv'
<1>1. /\ version' = version + 1 /\ unsent' = unsent + 1 /\ UNCHANGED <<link, hint, phone, reqs, lost>>
      /\ UNCHANGED <<server, wire, listeners, channel>>
  BY DEF Commit, serverVars, phoneVars
<1>2. unsent' \in Nat /\ unsent' > 0
  BY <1>1 DEF IndInv
<1>3. ReqsOK(reqs, version + 1, phone.shown)
  BY DEF IndInv, ReqsOK, Nothing
<1>4. FreshInv'
  BY <1>2 DEF FreshInv, Covered
<1>5. ServerInv' /\ CurInv' /\ IsPhone(phone)'
  BY <1>1, ServerStands DEF IndInv, CurInv, IsPhone
<1>6. ReqsOK(reqs, version, phone.shown)'
  BY <1>1, <1>3 DEF ReqsOK
<1>. QED
  BY <1>2, <1>4, <1>5, <1>6 DEF IndInv

(* Neither the screen nor the sockets change. *)
LEMMA HintStepKeeps ==
  ASSUME IndInv, UNCHANGED <<version, phone, reqs>>, UNCHANGED <<server, wire, listeners, channel>>,
         unsent' \in Nat, link' \subseteq link, FreshInv'
  PROVE  IndInv'
<1>1. ServerInv' /\ CurInv' /\ IsPhone(phone)'
  BY ServerStands DEF IndInv, CurInv, IsPhone
<1>2. ReqsOK(reqs, version, phone.shown)'
  BY DEF IndInv, ReqsOK
<1>. QED
  BY <1>1, <1>2 DEF IndInv

LEMMA PublishKeeps ==
  ASSUME IndInv, Publish
  PROVE  IndInv'
<1>1. /\ unsent > 0 /\ unsent' = unsent - 1 /\ unsent \in Nat
      /\ hint' = IF channel THEN hint \cup {s \in listeners \cap link : server[s] = "open"} ELSE hint
      /\ UNCHANGED <<version, link, phone, reqs, lost>> /\ UNCHANGED <<server, wire, listeners, channel>>
  BY DEF Publish, serverVars, phoneVars, IndInv
<1>2. ASSUME phone.sock = "open", phone.cur \in link
      PROVE  phone.cur \in hint'
  <2>1. phone.cur \in Sockets /\ server[phone.cur] = "open"
    BY <1>2 DEF IndInv, CurInv, IsPhone
  <2>2. channel = TRUE /\ phone.cur \in listeners
    BY <2>1 DEF IndInv, ServerInv, Wired, Hears
  <2>. QED
    BY <1>1, <1>2, <2>1, <2>2
<1>3. FreshInv'
  BY <1>1, <1>2 DEF FreshInv, Covered
<1>. QED
  BY <1>1, <1>3, HintStepKeeps

LEMMA LoseHintKeeps ==
  ASSUME IndInv, LoseHint
  PROVE  IndInv'
<1>1. /\ unsent > 0 /\ unsent' = unsent - 1 /\ unsent \in Nat /\ lost' = TRUE
      /\ UNCHANGED <<version, link, phone, reqs>> /\ UNCHANGED <<server, wire, listeners, channel>>
  BY DEF LoseHint, serverVars, IndInv
<1>2. FreshInv'
  BY <1>1 DEF FreshInv
<1>. QED
  BY <1>1, <1>2, HintStepKeeps

LEMMA BreakKeeps ==
  ASSUME IndInv, NEW s \in Sockets, Break(s)
  PROVE  IndInv'
<1>1. /\ link' = link \ {s} /\ hint' = hint \ {s} /\ unsent \in Nat
      /\ UNCHANGED <<version, unsent, phone, reqs, lost>> /\ UNCHANGED <<server, wire, listeners, channel>>
  BY DEF Break, serverVars, phoneVars, IndInv
<1>2. FreshInv'
  BY <1>1 DEF FreshInv, Covered, IndInv
<1>. QED
  BY <1>1, <1>2, HintStepKeeps

LEMMA DozeKeeps ==
  ASSUME IndInv, Doze
  PROVE  IndInv'
<1>1. /\ phone.app = "background" /\ unsent \in Nat
      /\ UNCHANGED <<version, unsent, link, phone, reqs, lost>>
      /\ UNCHANGED <<server, wire, listeners, channel>>
  BY DEF Doze, serverVars, phoneVars, IndInv
<1>2. FreshInv'
  BY <1>1 DEF FreshInv
<1>. QED
  BY <1>1, <1>2, HintStepKeeps

-----------------------------------------------------------------------------
(* The phone *)

WithSock(p, a, v)  == [p EXCEPT !.sock = a, !.cur = v]
WithOpens(p, a, v) == [p EXCEPT !.sock = a, !.opens = v]
WithShown(p, v, b) == [p EXCEPT !.shown = v, !.banner = b]

LEMMA WithSockIs ==
  ASSUME NEW p, IsPhone(p), NEW a, NEW v
  PROVE  LET q == WithSock(p, a, v)
         IN  /\ q.app = p.app /\ q.sock = a /\ q.cur = v /\ q.opens = p.opens
             /\ q.shown = p.shown /\ q.banner = p.banner
             /\ (a \notin {"down", "closed"} => v \in Sockets) => IsPhone(q)
<1>. DEFINE o == [p EXCEPT !.sock = a]
<1>1. o = [app |-> p.app, sock |-> a, cur |-> p.cur, opens |-> p.opens, shown |-> p.shown,
           banner |-> p.banner]
  BY DEF IsPhone
<1>2. WithSock(p, a, v) = [o EXCEPT !.cur = v]
  BY DEF WithSock
<1>. HIDE DEF o
<1>. QED
  BY <1>1, <1>2 DEF IsPhone

LEMMA WithOpensIs ==
  ASSUME NEW p, IsPhone(p), NEW a, NEW v
  PROVE  LET q == WithOpens(p, a, v)
         IN  /\ q.app = p.app /\ q.sock = a /\ q.cur = p.cur /\ q.opens = v
             /\ q.shown = p.shown /\ q.banner = p.banner
             /\ p.cur \in Sockets /\ v \in Nat => IsPhone(q)
<1>. DEFINE o == [p EXCEPT !.sock = a]
<1>1. o = [app |-> p.app, sock |-> a, cur |-> p.cur, opens |-> p.opens, shown |-> p.shown,
           banner |-> p.banner]
  BY DEF IsPhone
<1>2. WithOpens(p, a, v) = [o EXCEPT !.opens = v]
  BY DEF WithOpens
<1>. HIDE DEF o
<1>. QED
  BY <1>1, <1>2 DEF IsPhone

LEMMA WithShownIs ==
  ASSUME NEW p, IsPhone(p), NEW a, NEW v
  PROVE  LET q == WithShown(p, a, v)
         IN  /\ q.app = p.app /\ q.sock = p.sock /\ q.cur = p.cur /\ q.opens = p.opens
             /\ q.shown = a /\ q.banner = v /\ IsPhone(q)
<1>. DEFINE o == [p EXCEPT !.shown = a]
<1>1. o = [app |-> p.app, sock |-> p.sock, cur |-> p.cur, opens |-> p.opens, shown |-> a,
           banner |-> p.banner]
  BY DEF IsPhone
<1>2. WithShown(p, a, v) = [o EXCEPT !.banner = v]
  BY DEF WithShown
<1>. HIDE DEF o
<1>. QED
  BY <1>1, <1>2 DEF IsPhone

LEMMA WithAppIs ==
  ASSUME NEW p, IsPhone(p), NEW a
  PROVE  LET q == [p EXCEPT !.app = a]
         IN  /\ q.app = a /\ q.sock = p.sock /\ q.cur = p.cur /\ q.opens = p.opens
             /\ q.shown = p.shown /\ q.banner = p.banner /\ IsPhone(q)
BY DEF IsPhone

(* The hook's teardown. *)
LEMMA ClosedIs ==
  ASSUME NEW p, IsPhone(p)
  PROVE  LET q == [p EXCEPT !.app = "closed", !.sock = "closed", !.cur = None]
         IN  q.sock = "closed" /\ q.shown = p.shown /\ IsPhone(q)
<1>. DEFINE o == [p EXCEPT !.app = "closed"]
<1>1. IsPhone(o) /\ o.shown = p.shown
  BY WithAppIs
<1>2. [p EXCEPT !.app = "closed", !.sock = "closed", !.cur = None] = WithSock(o, "closed", None)
  BY DEF WithSock
<1>. HIDE DEF o
<1>3. LET q == WithSock(o, "closed", None)
      IN  q.sock = "closed" /\ q.shown = o.shown /\ IsPhone(q)
  BY <1>1, WithSockIs
<1>. QED
  BY <1>1, <1>2, <1>3

LEMMA WithBannerIs ==
  ASSUME NEW p, IsPhone(p), NEW b
  PROVE  LET q == [p EXCEPT !.banner = b]
         IN  /\ q.app = p.app /\ q.sock = p.sock /\ q.cur = p.cur /\ q.opens = p.opens
             /\ q.shown = p.shown /\ q.banner = b /\ IsPhone(q)
BY DEF IsPhone


(* A load: the requests before it may write no more. *)
LEMMA LoadIs ==
  ASSUME ReqsOK(reqs, version, phone.shown)
  PROVE  /\ ReqsOK(Load, version, phone.shown)
         /\ \E r \in Load : r.newest /\ r.ver = Nothing
<1>. DEFINE n == [ver |-> Nothing, newest |-> TRUE]
<1>1. n \in Load /\ n.newest /\ n.ver = Nothing
  BY DEF Load
<1>2. \A r \in Load : r = n \/ (r.newest = FALSE /\ \E q \in reqs : r.ver = q.ver)
  BY DEF Load
<1>. HIDE DEF n
<1>3. ReqsOK(Load, version, phone.shown)
  BY <1>1, <1>2 DEF ReqsOK
<1>. QED
  BY <1>1, <1>3

(* Whatever the phone missed, the request that is on its way sees. *)
LEMMA LoadsKeeps ==
  ASSUME IndInv, Loads, UNCHANGED <<version, unsent>>, ServerInv', IsPhone(phone)', CurInv',
         phone'.shown = phone.shown
  PROVE  IndInv'
<1>1. /\ reqs' = Load /\ ReqsOK(Load, version, phone.shown)
      /\ \E r \in Load : r.newest /\ r.ver = Nothing
  BY LoadIs DEF Loads, IndInv
<1>2. FreshInv'
  BY <1>1 DEF FreshInv, Covered
<1>3. ReqsOK(reqs, version, phone.shown)'
  BY <1>1 DEF ReqsOK
<1>. QED
  BY <1>2, <1>3 DEF IndInv

LEMMA OnMessageKeeps ==
  ASSUME IndInv, OnMessage
  PROVE  IndInv'
<1>1. /\ Loads /\ UNCHANGED <<version, unsent, link, phone>>
      /\ UNCHANGED <<server, wire, listeners, channel>>
  BY DEF OnMessage, serverVars
<1>2. ServerInv' /\ CurInv' /\ IsPhone(phone)'
  BY <1>1, ServerStands DEF IndInv, CurInv, IsPhone
<1>. QED
  BY <1>1, <1>2, LoadsKeeps

LEMMA FocusKeeps ==
  ASSUME IndInv, Focus
  PROVE  IndInv'
<1>1. /\ Loads /\ UNCHANGED <<version, unsent, link, phone>>
      /\ UNCHANGED <<server, wire, listeners, channel>>
  BY DEF Focus, serverVars
<1>2. ServerInv' /\ CurInv' /\ IsPhone(phone)'
  BY <1>1, ServerStands DEF IndInv, CurInv, IsPhone
<1>. QED
  BY <1>1, <1>2, LoadsKeeps

(* The screen stands; the phone listens no more, or never did. *)
LEMMA DeafKeeps ==
  ASSUME IndInv, UNCHANGED <<version, unsent, reqs>>, ServerInv', IsPhone(phone)',
         phone'.shown = phone.shown, phone'.sock # "open"
  PROVE  IndInv'
<1>1. CurInv' /\ FreshInv'
  BY DEF CurInv, FreshInv
<1>2. ReqsOK(reqs, version, phone.shown)'
  BY DEF IndInv, ReqsOK
<1>. QED
  BY <1>1, <1>2 DEF IndInv

LEMMA DialIs ==
  ASSUME ServerInv, NEW p, IsPhone(p), NEW s \in Unused, Dial(p, s),
         UNCHANGED <<listeners, wire, channel>>
  PROVE  /\ ServerInv' /\ IsPhone(phone)' /\ phone'.sock = "connecting" /\ phone'.shown = p.shown
<1>1. s \in Sockets /\ server[s] \in {"none", "gone"}
  BY DEF Unused
<1>2. phone' = WithSock(p, "connecting", s)
  BY DEF Dial, WithSock
<1>3. IsPhone(phone)' /\ phone'.sock = "connecting" /\ phone'.shown = p.shown
  <2>1. /\ IsPhone(WithSock(p, "connecting", s))
        /\ WithSock(p, "connecting", s).sock = "connecting"
        /\ WithSock(p, "connecting", s).shown = p.shown
    BY <1>1, WithSockIs
  <2>. DEFINE q == WithSock(p, "connecting", s)
  <2>. HIDE DEF q
  <2>2. phone' = q /\ IsPhone(q) /\ q.sock = "connecting" /\ q.shown = p.shown
    BY <1>2, <2>1 DEF q
  <2>. QED
    BY <2>2 DEF IsPhone
<1>4. ServerInv'
  <2>1. CASE UNCHANGED server
    BY <2>1, ServerStands
  <2>2. CASE Set(s, "checking")
    <3>1. /\ server' = [x \in Sockets |-> server'[x]] /\ server'[s] = "checking"
          /\ \A x \in Sockets \ {s} : server'[x] = server[x]
      BY <1>1, <2>2, SetIs
    <3>2. Wired(wire, server, listeners, channel)
      BY DEF ServerInv
    <3>3. \A x \in Sockets : /\ server'[x] = server[x] \/ (~ Hears(server'[x]) /\ server[x] # "subscribing")
                             /\ Hears(server'[x]) => x \in listeners
      BY <1>1, <3>1, <3>2 DEF Hears, Wired
    <3>4. Wired(wire, server', listeners, channel)
      BY <3>2, <3>3, WiredLess
    <3>. QED
      BY <3>1, <3>4 DEF ServerInv
  <2>. QED
    BY <2>1, <2>2 DEF Dial
<1>. QED
  BY <1>3, <1>4

LEMMA RetryKeeps ==
  ASSUME IndInv, Retry
  PROVE  IndInv'
<1>1. PICK s \in Unused : Dial(phone, s)
  BY DEF Retry
<1>2. UNCHANGED <<version, unsent, reqs>> /\ UNCHANGED <<listeners, wire, channel>>
  BY DEF Retry
<1>3. ServerInv' /\ IsPhone(phone)' /\ phone'.sock = "connecting" /\ phone'.shown = phone.shown
  BY <1>1, <1>2, DialIs DEF IndInv
<1>. QED
  BY <1>2, <1>3, DeafKeeps

LEMMA OnCloseKeeps ==
  ASSUME IndInv, OnClose
  PROVE  IndInv'
<1>. DEFINE q == WithSock(phone, "down", None)
<1>1. /\ phone' = q /\ UNCHANGED <<version, unsent, reqs>>
      /\ UNCHANGED <<server, wire, listeners, channel>>
  BY DEF OnClose, WithSock, serverVars
<1>2. IsPhone(q) /\ q.sock = "down" /\ q.shown = phone.shown
  BY WithSockIs DEF IndInv
<1>. HIDE DEF q
<1>3. IsPhone(phone)' /\ ServerInv'
  BY <1>1, <1>2, ServerStands DEF IsPhone, IndInv
<1>. QED
  BY <1>1, <1>2, <1>3, DeafKeeps

LEMMA TeardownKeeps ==
  ASSUME IndInv, Teardown
  PROVE  IndInv'
<1>. DEFINE q == [phone EXCEPT !.app = "closed", !.sock = "closed", !.cur = None]
<1>1. /\ phone' = q /\ reqs' = {} /\ UNCHANGED <<version, unsent>>
      /\ UNCHANGED <<server, wire, listeners, channel>>
  BY DEF Teardown, serverVars
<1>2. IsPhone(q) /\ q.sock = "closed" /\ q.shown = phone.shown
  BY ClosedIs DEF IndInv
<1>. HIDE DEF q
<1>3. IsPhone(phone)' /\ ServerInv' /\ CurInv' /\ FreshInv'
  BY <1>1, <1>2, ServerStands DEF IsPhone, IndInv, CurInv, FreshInv
<1>4. ReqsOK(reqs, version, phone.shown)'
  BY <1>1, <1>2 DEF IndInv, ReqsOK
<1>. QED
  BY <1>1, <1>3, <1>4 DEF IndInv

LEMMA OnOpenKeeps ==
  ASSUME IndInv, OnOpen
  PROVE  IndInv'
<1>. DEFINE n == IF phone.opens = 0 THEN 1 ELSE 2
            q == WithOpens(phone, "open", n)
<1>1. /\ phone.sock = "connecting" /\ phone.cur \in link /\ server[phone.cur] = "open"
      /\ phone' = q /\ IF phone.opens > 0 THEN Loads ELSE UNCHANGED <<reqs, lost>>
      /\ UNCHANGED <<version, unsent, link>> /\ UNCHANGED <<server, wire, listeners, channel>>
  BY DEF OnOpen, WithOpens, serverVars
<1>2. IsPhone(phone) /\ n \in Nat /\ phone.opens \in Nat
  BY DEF IndInv, IsPhone
<1>3. /\ IsPhone(q) /\ q.shown = phone.shown /\ q.cur = phone.cur /\ q.opens = n
  BY <1>1, <1>2, WithOpensIs DEF IsPhone
<1>. HIDE DEF q
<1>4. IsPhone(phone)' /\ ServerInv' /\ CurInv'
  BY <1>1, <1>3, ServerStands DEF IsPhone, IndInv, CurInv
<1>5. CASE phone.opens > 0
  BY <1>1, <1>3, <1>4, <1>5, LoadsKeeps
<1>6. CASE phone.opens = 0
  <2>1. phone'.opens = 1 /\ UNCHANGED reqs
    BY <1>1, <1>3, <1>6
  <2>2. FreshInv'
    BY <2>1 DEF FreshInv
  <2>3. ReqsOK(reqs, version, phone.shown)'
    BY <1>1, <1>3, <2>1 DEF ReqsOK, IndInv
  <2>. QED
    BY <1>1, <1>4, <2>2, <2>3 DEF IndInv
<1>. QED
  BY <1>2, <1>5, <1>6

LEMMA BackgroundKeeps ==
  ASSUME IndInv, Background
  PROVE  IndInv'
<1>. DEFINE q == [phone EXCEPT !.app = "background"]
<1>1. /\ phone' = q /\ UNCHANGED <<version, unsent, link, reqs>>
      /\ UNCHANGED <<server, wire, listeners, channel>>
  BY DEF Background, serverVars
<1>2. IsPhone(q) /\ q.app = "background" /\ q.sock = phone.sock /\ q.cur = phone.cur /\ q.shown = phone.shown
  BY WithAppIs DEF IndInv
<1>. HIDE DEF q
<1>3. IsPhone(phone)' /\ ServerInv' /\ CurInv' /\ FreshInv'
  BY <1>1, <1>2, ServerStands DEF IsPhone, IndInv, CurInv, FreshInv
<1>4. ReqsOK(reqs, version, phone.shown)'
  BY <1>1, <1>2 DEF IndInv, ReqsOK
<1>. QED
  BY <1>1, <1>3, <1>4 DEF IndInv

LEMMA ForegroundKeeps ==
  ASSUME IndInv, Foreground
  PROVE  IndInv'
<1>. DEFINE q == [phone EXCEPT !.app = "active"]
<1>1. /\ Loads /\ UNCHANGED <<version, unsent>> /\ UNCHANGED <<listeners, wire, channel>>
      /\ \/ \E s \in Unused : Dial(q, s)
         \/ phone' = q /\ UNCHANGED <<server, link>>
  BY DEF Foreground
<1>2. IsPhone(q) /\ q.sock = phone.sock /\ q.cur = phone.cur /\ q.shown = phone.shown
  BY WithAppIs DEF IndInv
<1>. HIDE DEF q
<1>3. CASE \E s \in Unused : Dial(q, s)
  <2>1. ServerInv' /\ IsPhone(phone)' /\ phone'.sock = "connecting" /\ phone'.shown = phone.shown
    BY <1>1, <1>2, <1>3, DialIs DEF IndInv
  <2>2. CurInv'
    BY <2>1 DEF CurInv
  <2>. QED
    BY <1>1, <2>1, <2>2, LoadsKeeps
<1>4. CASE phone' = q /\ UNCHANGED <<server, link>>
  <2>1. IsPhone(phone)' /\ ServerInv' /\ CurInv' /\ phone'.shown = phone.shown
    BY <1>1, <1>2, <1>4, ServerStands DEF IsPhone, IndInv, CurInv
  <2>. QED
    BY <1>1, <2>1, LoadsKeeps
<1>. QED
  BY <1>1, <1>3, <1>4

-----------------------------------------------------------------------------
(* Requests *)

LEMMA ReadKeeps ==
  ASSUME IndInv, NEW r \in reqs, Read(r)
  PROVE  IndInv'
<1>. DEFINE n == [ver |-> version, newest |-> r.newest]
<1>1. /\ r.ver = Nothing /\ reqs' = (reqs \ {r}) \cup {n}
      /\ UNCHANGED <<version, unsent, link, hint, phone, lost>>
      /\ UNCHANGED <<server, wire, listeners, channel>>
  BY DEF Read, serverVars
<1>2. n.ver = version /\ n.newest = r.newest
  OBVIOUS
<1>. HIDE DEF n
<1>3. ReqsOK(reqs, version, phone.shown)
  BY DEF IndInv
<1>4. ReqsOK(reqs', version, phone.shown)
  BY <1>1, <1>2, <1>3 DEF ReqsOK
<1>5. FreshInv'
  BY <1>1, <1>2 DEF IndInv, FreshInv, Covered
<1>6. ServerInv' /\ CurInv' /\ IsPhone(phone)'
  BY <1>1, ServerStands DEF IndInv, CurInv, IsPhone
<1>7. ReqsOK(reqs, version, phone.shown)'
  BY <1>1, <1>4 DEF ReqsOK
<1>. QED
  BY <1>1, <1>5, <1>6, <1>7 DEF IndInv

(* A request ends, and what the newest one brought is on the screen. *)
LEMMA AnswerKeeps ==
  ASSUME IndInv, NEW r \in reqs, Answer(r)
  PROVE  IndInv'
<1>. DEFINE q == WithShown(phone, r.ver, FALSE)
<1>1. /\ r.ver # Nothing /\ reqs' = reqs \ {r}
      /\ phone' = IF r.newest THEN q ELSE phone
      /\ UNCHANGED <<version, unsent, link, hint, lost>>
      /\ UNCHANGED <<server, wire, listeners, channel>>
  BY DEF Answer, WithShown, serverVars
<1>2. /\ IsPhone(q) /\ q.app = phone.app /\ q.sock = phone.sock /\ q.cur = phone.cur
      /\ q.opens = phone.opens /\ q.shown = r.ver
  <2>1. IsPhone(phone)
    BY DEF IndInv
  <2>2. PICK v, b : v = r.ver /\ b = FALSE
    OBVIOUS
  <2>3. LET o == WithShown(phone, v, b)
        IN  /\ IsPhone(o) /\ o.app = phone.app /\ o.sock = phone.sock /\ o.cur = phone.cur
            /\ o.opens = phone.opens /\ o.shown = v
    BY <2>1, WithShownIs
  <2>. QED
    BY <2>2, <2>3
<1>. HIDE DEF q
<1>3. IsPhone(phone) /\ ReqsOK(reqs, version, phone.shown) /\ r.newest \in BOOLEAN
  BY DEF IndInv, ReqsOK
<1>4. ServerInv'
  BY <1>1, ServerStands DEF IndInv
<1>5. CASE ~ r.newest
  <2>1. phone' = phone
    BY <1>1, <1>5
  <2>2. ReqsOK(reqs', version, phone.shown)
    BY <1>1, <1>3 DEF ReqsOK
  <2>3. FreshInv'
    BY <1>1, <1>5, <2>1 DEF IndInv, FreshInv, Covered
  <2>4. CurInv' /\ IsPhone(phone)' /\ ReqsOK(reqs, version, phone.shown)'
    BY <1>1, <1>3, <2>1, <2>2 DEF IndInv, CurInv, IsPhone, ReqsOK
  <2>. QED
    BY <1>1, <1>4, <2>3, <2>4 DEF IndInv
<1>6. CASE r.newest
  <2>1. phone' = q /\ \A x \in reqs' : ~ x.newest
    BY <1>1, <1>3, <1>6 DEF ReqsOK
  <2>2. ReqsOK(reqs', version, r.ver)
    BY <1>1, <1>3, <1>6, <2>1 DEF ReqsOK
  <2>3. FreshInv'
    <3>. SUFFICES ASSUME phone.app = "active", phone.sock = "open", phone.opens = 2,
                         phone.cur \in link, ~ lost
                  PROVE  unsent > 0 \/ phone.cur \in hint \/ r.ver = version
      BY <1>1, <1>2, <2>1 DEF FreshInv, Covered
    <3>1. Covered
      BY DEF IndInv, FreshInv
    <3>2. CASE phone.shown = version
      BY <1>1, <1>3, <1>6, <3>2 DEF ReqsOK
    <3>3. CASE \E x \in reqs : x.newest /\ x.ver \in {Nothing, version}
      BY <1>1, <1>3, <1>6, <3>3 DEF ReqsOK
    <3>. QED
      BY <1>6, <3>1, <3>2, <3>3 DEF Covered
  <2>4. CurInv' /\ IsPhone(phone)' /\ ReqsOK(reqs, version, phone.shown)'
    BY <1>1, <1>2, <2>1, <2>2 DEF IndInv, CurInv, IsPhone, ReqsOK
  <2>. QED
    BY <1>1, <1>4, <2>3, <2>4 DEF IndInv
<1>. QED
  BY <1>5, <1>6

LEMMA FailKeeps ==
  ASSUME IndInv, NEW r \in reqs, Fail(r)
  PROVE  IndInv'
<1>. DEFINE q == [phone EXCEPT !.banner = TRUE]
<1>1. /\ reqs' = reqs \ {r} /\ phone' = IF r.newest THEN q ELSE phone
      /\ UNCHANGED <<version, unsent, link, hint, lost>>
      /\ UNCHANGED <<server, wire, listeners, channel>>
  BY DEF Fail, serverVars
<1>2. /\ IsPhone(q) /\ q.app = phone.app /\ q.sock = phone.sock /\ q.cur = phone.cur
      /\ q.opens = phone.opens /\ q.shown = phone.shown /\ q.banner = TRUE
  BY WithBannerIs DEF IndInv
<1>. HIDE DEF q
<1>3. IsPhone(phone) /\ ReqsOK(reqs, version, phone.shown) /\ r.newest \in BOOLEAN
  BY DEF IndInv, ReqsOK
<1>4. ReqsOK(reqs', version, phone.shown)
  BY <1>1, <1>3 DEF ReqsOK
<1>5. /\ IsPhone(phone)' /\ phone'.sock = phone.sock /\ phone'.cur = phone.cur
      /\ phone'.shown = phone.shown /\ phone'.app = phone.app /\ phone'.opens = phone.opens
      /\ (r.newest => phone'.banner = TRUE) /\ (~ r.newest => phone' = phone)
  BY <1>1, <1>2, <1>3 DEF IsPhone
<1>6. FreshInv'
  <2>1. r.newest => \A x \in reqs' : ~ x.newest
    BY <1>1, <1>3 DEF ReqsOK
  <2>. QED
    BY <1>1, <1>5, <2>1 DEF IndInv, FreshInv, Covered
<1>7. ServerInv' /\ CurInv' /\ ReqsOK(reqs, version, phone.shown)'
  BY <1>1, <1>4, <1>5, ServerStands DEF IndInv, CurInv, ReqsOK
<1>. QED
  BY <1>1, <1>5, <1>6, <1>7 DEF IndInv


-----------------------------------------------------------------------------
(* The theorems *)

LEMMA InitHolds == Init => IndInv
<1>. SUFFICES ASSUME Init
              PROVE  IndInv
  OBVIOUS
<1>1. PICK s \in Sockets :
        /\ server = [x \in Sockets |-> IF x = s THEN "checking" ELSE "none"]
        /\ phone = [app |-> "active", sock |-> "connecting", cur |-> s, opens |-> 0,
                    shown |-> Nothing, banner |-> FALSE]
  BY DEF Init
<1>2. /\ version = 0 /\ unsent = 0 /\ listeners = {} /\ wire = <<>> /\ channel = FALSE
      /\ reqs = {[ver |-> Nothing, newest |-> TRUE]}
  BY DEF Init
<1>3. IsPhone(phone) /\ CurInv /\ FreshInv
  BY <1>1 DEF IsPhone, CurInv, FreshInv
<1>4. ServerInv
  BY <1>1, <1>2 DEF ServerInv, Wired, Hears
<1>5. ReqsOK(reqs, version, phone.shown)
  BY <1>1, <1>2 DEF ReqsOK, Nothing
<1>. QED
  BY <1>2, <1>3, <1>4, <1>5 DEF IndInv

LEMMA StutterKeeps == IndInv /\ UNCHANGED vars => IndInv'
<1>. SUFFICES ASSUME IndInv, UNCHANGED vars
              PROVE  IndInv'
  OBVIOUS
<1>1. /\ UNCHANGED <<version, unsent, link, hint, phone, reqs, lost>>
      /\ UNCHANGED <<server, wire, listeners, channel>>
  BY DEF vars, serverVars, phoneVars
<1>. QED
  BY <1>1 DEF IndInv, IsPhone, ServerInv, ReqsOK, CurInv, FreshInv, Covered

LEMMA NextKeeps == IndInv /\ [Next]_vars => IndInv'
<1>. SUFFICES ASSUME IndInv, [Next]_vars
              PROVE  IndInv'
  OBVIOUS
<1>1. CASE Commit \/ Publish \/ LoseHint
  BY <1>1, CommitKeeps, PublishKeeps, LoseHintKeeps
<1>2. CASE \E s \in Sockets : Subscribe(s) \/ Refuse(s) \/ Gone(s) \/ Pong(s) \/ Break(s)
  BY <1>2, SubscribeKeeps, RefuseKeeps, GoneKeeps, PongKeeps, BreakKeeps
<1>3. CASE RedisTakes \/ RedisFails \/ Heartbeat \/ Shutdown \/ Boot
  BY <1>3, RedisTakesKeeps, RedisFailsKeeps, HeartbeatKeeps, ShutdownKeeps, BootKeeps
<1>4. CASE Doze \/ OnMessage
  BY <1>4, DozeKeeps, OnMessageKeeps
<1>5. CASE Retry \/ OnOpen \/ OnClose
  BY <1>5, RetryKeeps, OnOpenKeeps, OnCloseKeeps
<1>6. CASE Focus \/ Background \/ Foreground \/ Teardown
  BY <1>6, FocusKeeps, BackgroundKeeps, ForegroundKeeps, TeardownKeeps
<1>7. CASE \E r \in reqs : Read(r) \/ Answer(r) \/ Fail(r)
  BY <1>7, ReadKeeps, AnswerKeeps, FailKeeps
<1>8. CASE UNCHANGED vars
  BY <1>8, StutterKeeps
<1>. QED
  BY <1>1, <1>2, <1>3, <1>4, <1>5, <1>6, <1>7, <1>8 DEF Next

(* What the sockets do leaves the screen alone. *)
LEMMA DialShows ==
  ASSUME NEW p, IsPhone(p), NEW s, Dial(p, s)
  PROVE  phone'.shown = p.shown
<1>1. phone' = WithSock(p, "connecting", s)
  BY DEF Dial, WithSock
<1>2. WithSock(p, "connecting", s).shown = p.shown
  BY WithSockIs
<1>. QED
  BY <1>1, <1>2

LEMMA ShownStands ==
  ASSUME IsPhone(phone), Retry \/ OnOpen \/ OnClose \/ Background \/ Foreground \/ Teardown
  PROVE  phone'.shown = phone.shown
<1>1. CASE Retry
  BY <1>1, DialShows DEF Retry
<1>2. CASE OnOpen
  <2>1. PICK n : phone' = WithOpens(phone, "open", n)
    BY <1>2 DEF OnOpen, WithOpens
  <2>. QED
    BY <2>1, WithOpensIs
<1>3. CASE OnClose
  <2>1. phone' = WithSock(phone, "down", None)
    BY <1>3 DEF OnClose, WithSock
  <2>. QED
    BY <2>1, WithSockIs
<1>4. CASE Background
  BY <1>4, WithAppIs DEF Background
<1>5. CASE Foreground
  <2>. DEFINE q == [phone EXCEPT !.app = "active"]
  <2>1. phone' = q \/ \E s \in Unused : Dial(q, s)
    BY <1>5 DEF Foreground
  <2>2. IsPhone(q) /\ q.shown = phone.shown
    BY WithAppIs
  <2>. HIDE DEF q
  <2>. QED
    BY <2>1, <2>2, DialShows
<1>6. CASE Teardown
  BY <1>6, ClosedIs DEF Teardown
<1>. QED
  BY <1>1, <1>2, <1>3, <1>4, <1>5, <1>6

(* The subscriber's commands stay in step with the sockets, one request is *)
(* the newest, and a phone that listens has the house or something that    *)
(* will bring it.                                                          *)
THEOREM Inductive == Spec => []IndInv
<1>. QED
  BY InitHolds, NextKeeps, PTL DEF Spec

(* However many sockets come, go and linger, and whatever the gateway has  *)
(* still to tell Redis about the older ones, an open socket's channel is   *)
(* subscribed and stays so.                                                *)
THEOREM OpenIsHeard == Spec => []OpenHears
<1>1. IndInv => OpenHears
  BY DEF IndInv, ServerInv, Wired, OpenHears, Contains
<1>. QED
  BY <1>1, Inductive, PTL

(* Only the newest request writes the screen, and it brings nothing older  *)
(* than what it replaces: the requests of a phone may be answered in any   *)
(* order.                                                                  *)
THEOREM ScreenNeverBackwards == Spec => NeverBackwards
<1>1. IndInv /\ [Next]_vars => [phone'.shown >= phone.shown]_vars
  <2>. SUFFICES ASSUME IndInv, Next
                PROVE  phone'.shown >= phone.shown
    OBVIOUS
  <2>1. IsPhone(phone) /\ ReqsOK(reqs, version, phone.shown) /\ phone.shown \in Int
    BY DEF IndInv, ReqsOK
  <2>2. CASE phone'.shown = phone.shown
    BY <2>1, <2>2
  <2>3. CASE \E r \in reqs : Answer(r)
    <3>. PICK r \in reqs : Answer(r)
      BY <2>3
    <3>1. /\ r.ver # Nothing
          /\ phone' = IF r.newest THEN WithShown(phone, r.ver, FALSE) ELSE phone
      BY DEF Answer, WithShown
    <3>2. PICK v, b : v = r.ver /\ b = FALSE
      OBVIOUS
    <3>3. WithShown(phone, v, b).shown = v
      BY <2>1, WithShownIs
    <3>4. CASE r.newest
      <4>1. phone'.shown = r.ver
        BY <3>1, <3>2, <3>3, <3>4
      <4>2. r.ver >= phone.shown
        BY <2>1, <3>1, <3>4 DEF ReqsOK
      <4>. QED
        BY <4>1, <4>2
    <3>5. CASE ~ r.newest
      BY <2>1, <3>1, <3>5
    <3>. QED
      BY <3>4, <3>5
  <2>4. CASE \E r \in reqs : Fail(r)
    <3>. PICK r \in reqs : Fail(r)
      BY <2>4
    <3>1. [phone EXCEPT !.banner = TRUE].shown = phone.shown
      BY <2>1, WithBannerIs
    <3>. QED
      BY <2>1, <3>1 DEF Fail
  <2>5. CASE Commit \/ Publish \/ LoseHint \/ Heartbeat \/ Shutdown \/ Boot \/ RedisTakes
                \/ RedisFails
    BY <2>2, <2>5 DEF Commit, Publish, LoseHint, Heartbeat, Shutdown, Boot, RedisTakes, RedisFails, phoneVars
  <2>6. CASE Doze \/ OnMessage \/ Focus \/ \E r \in reqs : Read(r)
    BY <2>2, <2>6 DEF Doze, OnMessage, Focus, Read, phoneVars
  <2>7. CASE \E s \in Sockets : Subscribe(s) \/ Refuse(s) \/ Gone(s) \/ Pong(s) \/ Break(s)
    BY <2>2, <2>7 DEF Subscribe, Refuse, Gone, Pong, Break, phoneVars
  <2>8. CASE Retry \/ OnOpen \/ OnClose \/ Background \/ Foreground \/ Teardown
    <3>1. phone'.shown = phone.shown
      BY <2>1, <2>8, ShownStands
    <3>. QED
      BY <2>2, <3>1
  <2>. QED
    BY <2>3, <2>4, <2>5, <2>6, <2>7, <2>8 DEF Next
<1>. QED
  BY <1>1, Inductive, PTL DEF Spec, NeverBackwards

(* Once reconnected, a phone on which nothing is under way shows the house *)
(* as it is, unless the server lost a hint.                                *)
THEOREM QuietIsCurrent == Spec => []QuietAfterReconnect
<1>1. IndInv => QuietAfterReconnect
  BY DEF IndInv, FreshInv, Covered, QuietAfterReconnect, Quiet
<1>. QED
  BY <1>1, Inductive, PTL
=============================================================================
