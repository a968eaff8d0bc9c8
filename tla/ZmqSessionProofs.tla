-------------------------- MODULE ZmqSessionProofs --------------------------
(***************************************************************************)
(* For any number of tasks that share a ZmqClient, any commands, EA        *)
(* builds, gate and bucket sizes, and any number of cancellations, EA      *)
(* restarts and account switches: no REQ socket is left waiting for a      *)
(* reply nobody reads, the in-flight gate loses no permit, and no effect   *)
(* is repeated.                                                            *)
(***************************************************************************)
EXTENDS ZmqSession, TLAPS

\* Most leaves are first-order; those that need arithmetic or records cite SMT.
USE ZenonT(30)

(* The line at a lock: who has queued for a socket, its holder at the head. *)

Behind == Talking \cup {"lock"}
Behinds(calls, s) == {c \in Calls : SockOf(calls[c].cmd) = s /\ calls[c].at \in Behind}
HolderOf(q) == IF q = <<>> THEN None ELSE Head(q)

\* q lists the members of S, each of them once.
Lined(q, S) ==
  /\ q \in Seq(Calls)
  /\ \A i \in 1..Len(q) : q[i] \in S
  /\ \A c \in S : \E i \in 1..Len(q) : q[i] = c
  /\ \A i, j \in 1..Len(q) : q[i] = q[j] => i = j

\* The calls, the locks and the sockets agree: a call that talks holds the lock
\* and its socket waits for it, and a socket waits for nobody else.
Line(calls, queues, socks) ==
  /\ calls \in [Calls -> Call] /\ queues \in [Socks -> Seq(Calls)]
  /\ socks \in [Socks -> [init : BOOLEAN, out : Calls \cup {None}]]
  /\ \A s \in Socks : Lined(queues[s], Behinds(calls, s))
  /\ \A c \in Calls : calls[c].at \in Talking =>
       /\ HolderOf(queues[SockOf(calls[c].cmd)]) = c
       /\ socks[SockOf(calls[c].cmd)].init /\ socks[SockOf(calls[c].cmd)].out = c
  /\ \A s \in Socks : socks[s].out # None =>
       /\ socks[s].out \in Calls /\ calls[socks[s].out].at \in Talking
       /\ SockOf(calls[socks[s].out].cmd) = s

LEMMA LinedAppend ==
  ASSUME NEW q, NEW S, Lined(q, S), NEW c \in Calls, c \notin S
  PROVE  /\ Lined(Append(q, c), S \cup {c})
         /\ q # <<>> => HolderOf(Append(q, c)) = HolderOf(q)
<1>1. q \in Seq(Calls) /\ Len(q) \in Nat
  BY SMTT(30) DEF Lined
<1>2. /\ Append(q, c) \in Seq(Calls) /\ Len(Append(q, c)) = Len(q) + 1
      /\ \A i \in 1..Len(q) : Append(q, c)[i] = q[i]
      /\ Append(q, c)[Len(q) + 1] = c
  BY SMTT(30), <1>1
<1> DEFINE r == Append(q, c)
<1> HIDE DEF r
<1>3. /\ r \in Seq(Calls) /\ Len(r) = Len(q) + 1 /\ r[Len(q) + 1] = c
      /\ \A i \in 1..Len(q) : r[i] = q[i]
  BY <1>2 DEF r
<1>4. Lined(r, S \cup {c})
  <2>1. \A i \in 1..Len(r) : r[i] \in S \cup {c}
    BY SMTT(30), <1>1, <1>3 DEF Lined
  <2>2. ASSUME NEW d \in S \cup {c} PROVE \E i \in 1..Len(r) : r[i] = d
    <3>1. CASE d = c
      BY SMTT(30), <1>1, <1>3, <3>1
    <3>2. CASE d \in S
      <4>1. PICK i \in 1..Len(q) : q[i] = d
        BY <3>2 DEF Lined
      <4> QED BY SMTT(30), <1>1, <1>3, <4>1
    <3> QED BY <3>1, <3>2
  <2>3. ASSUME NEW i \in 1..Len(r), NEW j \in 1..Len(r), r[i] = r[j] PROVE i = j
    <3>1. \A k \in 1..Len(q) : r[k] \in S
      BY <1>3 DEF Lined
    <3>2. CASE i = Len(q) + 1
      BY SMTT(30), <1>1, <1>3, <2>3, <3>1, <3>2
    <3>3. CASE j = Len(q) + 1
      BY SMTT(30), <1>1, <1>3, <2>3, <3>1, <3>3
    <3>4. CASE i # Len(q) + 1 /\ j # Len(q) + 1
      BY SMTT(30), <1>1, <1>3, <2>3, <3>4 DEF Lined
    <3> QED BY <3>2, <3>3, <3>4
  <2> QED BY <1>3, <2>1, <2>2, <2>3 DEF Lined
<1>5. q # <<>> => HolderOf(r) = HolderOf(q)
  <2> SUFFICES ASSUME q # <<>> PROVE HolderOf(r) = HolderOf(q)
    OBVIOUS
  <2>1. 1 \in 1..Len(q) /\ r # <<>>
    BY SMTT(30), <1>1, <1>3
  <2>2. Head(q) = q[1] /\ Head(r) = r[1]
    BY SMTT(30), <1>1, <1>3, <2>1
  <2> QED BY <1>3, <2>1, <2>2 DEF HolderOf
<1> QED BY <1>4, <1>5 DEF r

\* r is the list q without its member at k.
Dropped(q, k, r) ==
  /\ r \in Seq(Calls) /\ Len(r) = Len(q) - 1
  /\ \A i \in 1..(Len(q) - 1) : r[i] = IF i < k THEN q[i] ELSE q[i + 1]

LEMMA WithoutList ==
  ASSUME NEW q, NEW S, Lined(q, S), NEW c \in S
  PROVE  \E k \in 1..Len(q) : q[k] = c /\ Dropped(q, k, Without(q, c))
<1>1. \E i \in 1..Len(q) : q[i] = c
  BY DEF Lined
<1> DEFINE k == CHOOSE i \in 1..Len(q) : q[i] = c
<1>2. k \in 1..Len(q) /\ q[k] = c
  BY <1>1
<1>3. Without(q, c) = [i \in 1..(Len(q) - 1) |-> IF i < k THEN q[i] ELSE q[i + 1]]
  BY <1>1 DEF Without
<1> HIDE DEF k
<1> DEFINE r == Without(q, c)
           n == Len(q) - 1
<1>4. q \in Seq(Calls) /\ n \in Nat /\ k \in 1..(n + 1) /\ \A i \in 1..(n + 1) : q[i] \in Calls
  BY SMTT(30), <1>2 DEF Lined
<1> HIDE DEF n
<1>5. \A i \in 1..n : (IF i < k THEN q[i] ELSE q[i + 1]) \in Calls
  BY SMTT(30), <1>4
<1>6. r = [i \in 1..n |-> IF i < k THEN q[i] ELSE q[i + 1]]
  BY <1>3 DEF n
<1>7. r \in [1..n -> Calls] /\ \A i \in 1..n : r[i] = IF i < k THEN q[i] ELSE q[i + 1]
  BY <1>5, <1>6
<1> HIDE DEF r
<1>8. r \in Seq(Calls)
  BY SMTT(30), <1>4, <1>7
<1>9. Len(r) = n
  BY SMTT(30), <1>4, <1>7, <1>8
<1>10. Dropped(q, k, Without(q, c))
  BY <1>7, <1>8, <1>9 DEF Dropped, r, n
<1> QED BY <1>2, <1>10

\* The member at k of a line leaves it.
LEMMA LinedLeave ==
  ASSUME NEW q, NEW S, Lined(q, S), NEW k \in 1..Len(q),
         NEW r, Dropped(q, k, r)
  PROVE  /\ Lined(r, S \ {q[k]})
         /\ k # 1 => HolderOf(r) = HolderOf(q)
<1>1. q \in Seq(Calls) /\ Len(q) \in Nat /\ \A i \in 1..Len(q) : q[i] \in Calls /\ q[i] \in S
  BY SMTT(30) DEF Lined
<1>2. r \in Seq(Calls) /\ Len(r) = Len(q) - 1
  BY DEF Dropped
<1>3. \A i \in 1..Len(r) : r[i] = IF i < k THEN q[i] ELSE q[i + 1]
  BY <1>2 DEF Dropped
<1>4. Lined(r, S \ {q[k]})
  <2>1. ASSUME NEW i \in 1..Len(r) PROVE r[i] \in S \ {q[k]}
    <3>1. CASE i < k
      BY SMTT(30), <1>1, <1>2, <1>3, <3>1 DEF Lined
    <3>2. CASE ~(i < k)
      <4>1. i + 1 \in 1..Len(q) /\ i + 1 # k /\ r[i] = q[i + 1]
        BY SMTT(30), <1>1, <1>2, <1>3, <3>2
      <4> QED BY <1>1, <4>1 DEF Lined
    <3> QED BY <3>1, <3>2
  <2>2. ASSUME NEW d \in S \ {q[k]} PROVE \E i \in 1..Len(r) : r[i] = d
    <3>1. PICK j \in 1..Len(q) : q[j] = d
      BY DEF Lined
    <3>2. j # k
      BY <3>1
    <3>3. CASE j < k
      BY SMTT(30), <1>1, <1>2, <1>3, <3>1, <3>3
    <3>4. CASE j > k
      <4>1. j - 1 \in 1..Len(r) /\ ~(j - 1 < k) /\ (j - 1) + 1 = j
        BY SMTT(30), <1>1, <1>2, <3>4
      <4>2. r[j - 1] = q[j]
        BY <1>3, <4>1
      <4> QED BY <3>1, <4>1, <4>2
    <3>5. j < k \/ j > k
      BY SMTT(30), <1>1, <3>2
    <3> QED BY <3>3, <3>4, <3>5
  <2>3. ASSUME NEW i \in 1..Len(r), NEW j \in 1..Len(r), r[i] = r[j] PROVE i = j
    <3> DEFINE at(n) == IF n < k THEN n ELSE n + 1
    <3>1. at(i) \in 1..Len(q) /\ at(j) \in 1..Len(q) /\ r[i] = q[at(i)] /\ r[j] = q[at(j)]
      BY SMTT(30), <1>1, <1>2, <1>3
    <3>2. at(i) = at(j)
      BY <2>3, <3>1 DEF Lined
    <3> QED BY SMTT(30), <1>1, <1>2, <3>2
  <2> QED BY <1>2, <2>1, <2>2, <2>3 DEF Lined
<1>5. k # 1 => HolderOf(r) = HolderOf(q)
  <2> SUFFICES ASSUME k # 1 PROVE HolderOf(r) = HolderOf(q)
    OBVIOUS
  <2>1. 1 < k /\ 1 \in 1..Len(r) /\ 1 \in 1..Len(q)
    BY SMTT(30), <1>1, <1>2
  <2>2. r[1] = q[1] /\ r # <<>> /\ q # <<>>
    BY SMTT(30), <1>1, <1>2, <1>3, <2>1
  <2>3. Head(r) = r[1] /\ Head(q) = q[1]
    BY SMTT(30), <1>1, <1>2, <2>2
  <2> QED BY <2>2, <2>3 DEF HolderOf
<1> QED BY <1>4, <1>5

LEMMA LinedWithout ==
  ASSUME NEW q, NEW S, Lined(q, S), NEW c
  PROVE  /\ Lined(Without(q, c), S \ {c})
         /\ HolderOf(q) # c => HolderOf(Without(q, c)) = HolderOf(q)
         /\ c \notin S => Without(q, c) = q
<1>1. CASE c \in S
  <2>1. PICK k \in 1..Len(q) : q[k] = c /\ Dropped(q, k, Without(q, c))
    BY <1>1, WithoutList
  <2>2. /\ Lined(Without(q, c), S \ {c})
        /\ k # 1 => HolderOf(Without(q, c)) = HolderOf(q)
    BY <2>1, LinedLeave
  <2>3. k = 1 => HolderOf(q) = c
    <3>1. q \in Seq(Calls) /\ q # <<>>
      BY SMTT(30), <2>1 DEF Lined
    <3> QED BY SMTT(30), <2>1, <3>1 DEF HolderOf
  <2> QED BY <1>1, <2>2, <2>3
<1>2. CASE c \notin S
  <2>1. Without(q, c) = q
    BY SMTT(30), <1>2 DEF Without, Lined
  <2> QED BY SMTT(30), <1>2, <2>1 DEF Lined
<1> QED BY <1>1, <1>2

LEMMA LinedTail ==
  ASSUME NEW q, NEW S, Lined(q, S), NEW c \in Calls, HolderOf(q) = c
  PROVE  Lined(Tail(q), S \ {c})
<1>0. c # None
  BY CallsAssumption DEF None
<1>1. q \in Seq(Calls) /\ q # <<>> /\ Head(q) = c
  BY <1>0 DEF Lined, HolderOf
<1>2. Len(q) \in Nat /\ Len(q) > 0 /\ q[1] = c
  BY SMTT(30), <1>1
<1>3. /\ Tail(q) \in Seq(Calls) /\ Len(Tail(q)) = Len(q) - 1
      /\ \A i \in 1..Len(Tail(q)) : Tail(q)[i] = q[i + 1]
  BY SMTT(30), <1>1
<1> DEFINE r == Tail(q)
<1> HIDE DEF r
<1>4. r \in Seq(Calls) /\ Len(r) = Len(q) - 1 /\ \A i \in 1..Len(r) : r[i] = q[i + 1]
  BY <1>3 DEF r
<1>5. Dropped(q, 1, r)
  BY SMTT(30), <1>2, <1>4 DEF Dropped
<1>6. 1 \in 1..Len(q)
  BY SMTT(30), <1>2
<1> QED BY <1>2, <1>4, <1>5, <1>6, LinedLeave DEF r

-----------------------------------------------------------------------------
(* What one call's move does to the lines.                                  *)

\* The calls after c's record has become y.
Put(calls, c, y) == [calls EXCEPT ![c] = y]

LEMMA PutIs ==
  ASSUME NEW calls \in [Calls -> Call], NEW c \in Calls, NEW y \in Call
  PROVE  /\ Put(calls, c, y) \in [Calls -> Call] /\ Put(calls, c, y)[c] = y
         /\ \A d \in Calls \ {c} : Put(calls, c, y)[d] = calls[d]
BY DEF Put

LEMMA BehindsMove ==
  ASSUME NEW calls \in [Calls -> Call], NEW c \in Calls, NEW y \in Call, NEW s \in Socks
  PROVE  Behinds(Put(calls, c, y), s) =
           IF SockOf(y.cmd) = s /\ y.at \in Behind THEN Behinds(calls, s) \cup {c}
           ELSE Behinds(calls, s) \ {c}
<1> DEFINE new == Put(calls, c, y)
<1>1. new[c] = y /\ \A d \in Calls \ {c} : new[d] = calls[d]
  BY SMTT(30), PutIs
<1> HIDE DEF new
<1>2. \A d : d \in Behinds(new, s) <=> d \in Calls /\ SockOf(new[d].cmd) = s /\ new[d].at \in Behind
  BY DEF Behinds
<1>3. \A d : d \in Behinds(calls, s) <=>
        d \in Calls /\ SockOf(calls[d].cmd) = s /\ calls[d].at \in Behind
  BY DEF Behinds
<1>4. CASE SockOf(y.cmd) = s /\ y.at \in Behind
  <2>1. \A d : d \in Behinds(new, s) <=> d \in Behinds(calls, s) \cup {c}
    BY <1>1, <1>2, <1>3, <1>4
  <2> QED BY <1>4, <2>1 DEF new
<1>5. CASE ~(SockOf(y.cmd) = s /\ y.at \in Behind)
  <2>1. \A d : d \in Behinds(new, s) <=> d \in Behinds(calls, s) \ {c}
    BY SMTT(30), <1>1, <1>2, <1>3, <1>5
  <2> QED BY <1>5, <2>1 DEF new
<1> QED BY <1>4, <1>5

LEMMA BehindsLeave ==
  ASSUME NEW calls \in [Calls -> Call], NEW c \in Calls, NEW y \in Call, y.at \notin Behind
  PROVE  \A s \in Socks : Behinds(Put(calls, c, y), s) = Behinds(calls, s) \ {c}
BY SMTT(30), BehindsMove

\* A call moves without being in a line, before or after.
LEMMA LineOutside ==
  ASSUME NEW calls, NEW queues, NEW socks, Line(calls, queues, socks),
         NEW c \in Calls, NEW y \in Call, calls[c].at \notin Behind, y.at \notin Behind
  PROVE  Line(Put(calls, c, y), queues, socks)
<1> DEFINE new == Put(calls, c, y)
<1>1. calls \in [Calls -> Call]
  BY DEF Line
<1>2. /\ new \in [Calls -> Call] /\ new[c] = y
      /\ \A d \in Calls \ {c} : new[d] = calls[d]
  BY SMTT(30), <1>1, PutIs
<1>3. \A s \in Socks : Behinds(new, s) = Behinds(calls, s) \ {c}
  BY SMTT(30), <1>1, BehindsMove
<1> HIDE DEF new
<1>4. \A s \in Socks : Behinds(new, s) = Behinds(calls, s)
  BY <1>3 DEF Behinds
<1>5. y.at \notin Talking /\ calls[c].at \notin Talking
  BY DEF Behind
<1>6. \A d \in Calls : new[d].at \in Talking => d # c /\ new[d] = calls[d] /\ calls[d].at \in Talking
  BY <1>2, <1>5
<1>7. ASSUME NEW s \in Socks, socks[s].out # None
      PROVE  /\ socks[s].out \in Calls /\ new[socks[s].out].at \in Talking
             /\ SockOf(new[socks[s].out].cmd) = s
  BY <1>2, <1>5, <1>7 DEF Line
<1>8. Line(new, queues, socks)
  BY <1>2, <1>4, <1>6, <1>7 DEF Line
<1> QED BY <1>8 DEF new

\* A call joins the line at the lock of its socket.
LEMMA LineJoin ==
  ASSUME NEW calls, NEW queues, NEW socks, Line(calls, queues, socks),
         NEW c \in Calls, NEW y \in Call, calls[c].at \notin Behind, y.at = "lock"
  PROVE  Line(Put(calls, c, y),
              [queues EXCEPT ![SockOf(y.cmd)] = Append(@, c)], socks)
<1> DEFINE new == Put(calls, c, y)
           t == SockOf(y.cmd)
           qs == [queues EXCEPT ![t] = Append(@, c)]
<1>1. calls \in [Calls -> Call] /\ queues \in [Socks -> Seq(Calls)] /\ t \in Socks
  BY DEF Line, SockOf, Socks
<1>2. /\ new \in [Calls -> Call] /\ new[c] = y
      /\ \A d \in Calls \ {c} : new[d] = calls[d]
  BY SMTT(30), <1>1, PutIs
<1>3. y.at \in Behind /\ y.at \notin Talking /\ calls[c].at \notin Talking
  BY DEF Behind, Talking
<1>4. \A s \in Socks : Behinds(new, s) = IF s = t THEN Behinds(calls, s) \cup {c}
                                         ELSE Behinds(calls, s) \ {c}
  <2>1. \A s \in Socks : Behinds(new, s) = IF SockOf(y.cmd) = s /\ y.at \in Behind
                                           THEN Behinds(calls, s) \cup {c}
                                           ELSE Behinds(calls, s) \ {c}
    BY <1>1, BehindsMove
  <2> HIDE DEF new
  <2> QED BY <1>3, <2>1
<1>5. /\ qs \in [Socks -> Seq(Calls)] /\ qs[t] = Append(queues[t], c)
      /\ \A s \in Socks \ {t} : qs[s] = queues[s]
  BY SMTT(30), <1>1
<1> HIDE DEF new, qs, t
<1>6. \A s \in Socks : c \notin Behinds(calls, s)
  BY DEF Behinds
<1>7. /\ Lined(Append(queues[t], c), Behinds(calls, t) \cup {c})
      /\ queues[t] # <<>> => HolderOf(Append(queues[t], c)) = HolderOf(queues[t])
  <2>1. Lined(queues[t], Behinds(calls, t))
    BY <1>1 DEF Line
  <2> QED BY <1>1, <1>6, <2>1, LinedAppend
<1>8. ASSUME NEW s \in Socks PROVE Lined(qs[s], Behinds(new, s))
  <2>1. CASE s = t
    BY <1>4, <1>5, <1>7, <2>1
  <2>2. CASE s # t
    <3>1. Behinds(new, s) = Behinds(calls, s) /\ qs[s] = queues[s]
      BY <1>4, <1>5, <1>6, <2>2
    <3> QED BY <3>1 DEF Line
  <2> QED BY <2>1, <2>2
<1>9. ASSUME NEW d \in Calls, new[d].at \in Talking
      PROVE  /\ HolderOf(qs[SockOf(new[d].cmd)]) = d
             /\ socks[SockOf(new[d].cmd)].init /\ socks[SockOf(new[d].cmd)].out = d
  <2>1. d # c /\ new[d] = calls[d] /\ calls[d].at \in Talking
    BY <1>2, <1>3, <1>9
  <2> DEFINE s == SockOf(calls[d].cmd)
  <2>2. s \in Socks
    BY DEF SockOf, Socks
  <2>3. HolderOf(queues[s]) = d /\ socks[s].init /\ socks[s].out = d
    BY <2>1 DEF Line
  <2> HIDE DEF s
  <2>4. queues[s] # <<>>
    BY <2>3, CallsAssumption DEF HolderOf, None
  <2>5. HolderOf(qs[s]) = d
    BY <1>5, <1>7, <2>2, <2>3, <2>4
  <2> QED BY <2>1, <2>3, <2>5 DEF s
<1>10. ASSUME NEW s \in Socks, socks[s].out # None
       PROVE  /\ socks[s].out \in Calls /\ new[socks[s].out].at \in Talking
              /\ SockOf(new[socks[s].out].cmd) = s
  BY <1>2, <1>3, <1>10 DEF Line
<1>11. Line(new, qs, socks)
  BY <1>2, <1>5, <1>8, <1>9, <1>10 DEF Line
<1> QED BY <1>11 DEF new, qs, t

\* The holder of a lock talks on its socket, which waits for it.
LEMMA LineTalk ==
  ASSUME NEW calls, NEW queues, NEW socks, Line(calls, queues, socks),
         NEW c \in Calls, NEW y \in Call, calls[c].at \in Behind, y.at \in Talking,
         y.cmd = calls[c].cmd, HolderOf(queues[SockOf(y.cmd)]) = c,
         NEW socks2 \in [Socks -> [init : BOOLEAN, out : Calls \cup {None}]],
         socks2[SockOf(y.cmd)].init, socks2[SockOf(y.cmd)].out = c,
         \A s \in Socks \ {SockOf(y.cmd)} : socks2[s] = socks[s]
  PROVE  Line(Put(calls, c, y), queues, socks2)
<1> DEFINE new == Put(calls, c, y)
           t == SockOf(y.cmd)
<1>1. calls \in [Calls -> Call] /\ t \in Socks
  BY DEF Line, SockOf, Socks
<1>2. /\ new \in [Calls -> Call] /\ new[c] = y
      /\ \A d \in Calls \ {c} : new[d] = calls[d]
  BY SMTT(30), <1>1, PutIs
<1>3. y.at \in Behind
  BY DEF Behind
<1> HIDE DEF new
<1>4. \A d \in Calls : SockOf(new[d].cmd) = SockOf(calls[d].cmd)
                       /\ (new[d].at \in Behind <=> calls[d].at \in Behind)
  BY <1>2, <1>3
<1>5. \A s \in Socks : Behinds(new, s) = Behinds(calls, s)
  BY <1>4 DEF Behinds
<1> HIDE DEF t
<1>6. ASSUME NEW d \in Calls, new[d].at \in Talking
      PROVE  /\ HolderOf(queues[SockOf(new[d].cmd)]) = d
             /\ socks2[SockOf(new[d].cmd)].init /\ socks2[SockOf(new[d].cmd)].out = d
  <2>1. CASE d = c
    BY <1>2, <2>1
  <2>2. CASE d # c
    <3>1. new[d] = calls[d] /\ calls[d].at \in Talking
      BY <1>2, <1>6, <2>2
    <3> DEFINE s == SockOf(calls[d].cmd)
    <3>2. s \in Socks
      BY DEF SockOf, Socks
    <3>3. HolderOf(queues[s]) = d /\ socks[s].init /\ socks[s].out = d
      BY <3>1 DEF Line
    <3> HIDE DEF s
    <3>4. s # SockOf(y.cmd)
      BY <2>2, <3>3
    <3>5. socks2[s] = socks[s]
      BY <3>2, <3>4
    <3> QED BY <3>1, <3>3, <3>5 DEF s
  <2> QED BY <2>1, <2>2
<1>7. ASSUME NEW s \in Socks, socks2[s].out # None
      PROVE  /\ socks2[s].out \in Calls /\ new[socks2[s].out].at \in Talking
             /\ SockOf(new[socks2[s].out].cmd) = s
  <2>1. CASE s = SockOf(y.cmd)
    BY <1>2, <2>1
  <2>2. CASE s # SockOf(y.cmd)
    <3>1. socks2[s] = socks[s] /\ socks[s].out # None
      BY <1>7, <2>2
    <3>2. socks[s].out \in Calls /\ calls[socks[s].out].at \in Talking
          /\ SockOf(calls[socks[s].out].cmd) = s
      BY <3>1 DEF Line
    <3>3. socks[s].out # c
      BY <2>2, <3>2
    <3> QED BY SMTT(30), <1>2, <3>1, <3>2, <3>3
  <2> QED BY <2>1, <2>2
<1>8. Line(new, queues, socks2)
  BY <1>2, <1>5, <1>6, <1>7 DEF Line
<1> QED BY <1>8 DEF new

\* A call leaves its line; if it was talking, its socket waits for nobody.
LEMMA LineLeave ==
  ASSUME NEW calls, NEW queues, NEW socks, Line(calls, queues, socks),
         NEW c \in Calls, NEW y \in Call, calls[c].at \in Behind, y.at \notin Behind,
         NEW t, t = SockOf(calls[c].cmd),
         NEW q, Lined(q, Behinds(calls, t) \ {c}),
         HolderOf(queues[t]) # c => HolderOf(q) = HolderOf(queues[t]),
         NEW socks2 \in [Socks -> [init : BOOLEAN, out : Calls \cup {None}]],
         \A s \in Socks \ {t} : socks2[s] = socks[s],
         calls[c].at \in Talking => socks2[t].out = None,
         calls[c].at = "lock" => socks2 = socks
  PROVE  Line(Put(calls, c, y), [queues EXCEPT ![t] = q], socks2)
<1> DEFINE new == Put(calls, c, y)
           qs == [queues EXCEPT ![t] = q]
<1>1. /\ calls \in [Calls -> Call] /\ queues \in [Socks -> Seq(Calls)]
      /\ t \in Socks /\ q \in Seq(Calls)
  BY DEF Line, SockOf, Socks, Lined
<1>2. /\ new \in [Calls -> Call] /\ new[c] = y
      /\ \A d \in Calls \ {c} : new[d] = calls[d]
  BY SMTT(30), <1>1, PutIs
<1>3. /\ qs \in [Socks -> Seq(Calls)] /\ qs[t] = q
      /\ \A s \in Socks \ {t} : qs[s] = queues[s]
  BY <1>1
<1>4. \A s \in Socks : Behinds(new, s) = Behinds(calls, s) \ {c}
  BY <1>1, BehindsLeave
<1>5. y.at \notin Talking /\ (calls[c].at \in Talking \/ calls[c].at = "lock")
  BY DEF Behind
<1> HIDE DEF new, qs
<1>6. ASSUME NEW s \in Socks PROVE Lined(qs[s], Behinds(new, s))
  <2>1. CASE s = t
    BY <1>3, <1>4, <2>1
  <2>2. CASE s # t
    <3>1. Behinds(new, s) = Behinds(calls, s)
      BY <1>4, <2>2 DEF Behinds
    <3> QED BY <1>3, <2>2, <3>1 DEF Line
  <2> QED BY <2>1, <2>2
<1>7. ASSUME NEW d \in Calls, new[d].at \in Talking
      PROVE  /\ HolderOf(qs[SockOf(new[d].cmd)]) = d
             /\ socks2[SockOf(new[d].cmd)].init /\ socks2[SockOf(new[d].cmd)].out = d
  <2>1. d # c /\ new[d] = calls[d] /\ calls[d].at \in Talking
    BY <1>2, <1>5, <1>7
  <2> DEFINE s == SockOf(calls[d].cmd)
  <2>2. s \in Socks
    BY DEF SockOf, Socks
  <2>3. HolderOf(queues[s]) = d /\ socks[s].init /\ socks[s].out = d
    BY <2>1 DEF Line
  <2> HIDE DEF s
  <2>4. CASE s # t
    <3>1. socks2[s] = socks[s] /\ qs[s] = queues[s]
      BY <1>3, <2>2, <2>4
    <3> QED BY <2>1, <2>3, <3>1 DEF s
  <2>5. CASE s = t
    <3>1. calls[c].at = "lock"
      <4>1. calls[c].at \in Talking => HolderOf(queues[t]) = c
        BY DEF Line
      <4> QED BY <1>5, <2>1, <2>3, <2>5, <4>1
    <3>2. qs[s] = q /\ HolderOf(q) = d
      BY <1>3, <2>1, <2>3, <2>5
    <3> QED BY <2>1, <2>3, <3>1, <3>2 DEF s
  <2> QED BY <2>4, <2>5
<1>8. ASSUME NEW s \in Socks, socks2[s].out # None
      PROVE  /\ socks2[s].out \in Calls /\ new[socks2[s].out].at \in Talking
             /\ SockOf(new[socks2[s].out].cmd) = s
  <2>1. calls[c].at \in Talking => s # t
    BY <1>8
  <2>2. socks2[s] = socks[s]
    BY <1>5, <2>1
  <2>3. socks[s].out \in Calls /\ calls[socks[s].out].at \in Talking
        /\ SockOf(calls[socks[s].out].cmd) = s
    BY <1>8, <2>2 DEF Line
  <2>4. socks[s].out # c
    BY <2>1, <2>3
  <2> QED BY <1>2, <2>2, <2>3, <2>4
<1>9. Line(new, qs, socks2)
  BY <1>2, <1>3, <1>6, <1>7, <1>8 DEF Line
<1> QED BY <1>9 DEF new, qs

\* A socket whose lock is free is closed.
LEMMA LineClose ==
  ASSUME NEW calls, NEW queues, NEW socks, Line(calls, queues, socks),
         NEW t \in Socks, queues[t] = <<>>
  PROVE  Line(calls, queues, [socks EXCEPT ![t] = [init |-> FALSE, out |-> None]])
<1> DEFINE new == [socks EXCEPT ![t] = [init |-> FALSE, out |-> None]]
<1>1. socks \in [Socks -> [init : BOOLEAN, out : Calls \cup {None}]]
  BY DEF Line
<1>2. /\ new \in [Socks -> [init : BOOLEAN, out : Calls \cup {None}]]
      /\ new[t].out = None /\ \A s \in Socks \ {t} : new[s] = socks[s]
  BY <1>1
<1> HIDE DEF new
<1>3. ASSUME NEW c \in Calls, calls[c].at \in Talking
      PROVE  /\ HolderOf(queues[SockOf(calls[c].cmd)]) = c
             /\ new[SockOf(calls[c].cmd)].init /\ new[SockOf(calls[c].cmd)].out = c
  <2> DEFINE s == SockOf(calls[c].cmd)
  <2>1. HolderOf(queues[s]) = c /\ socks[s].init /\ socks[s].out = c
    BY <1>3 DEF Line
  <2>2. s \in Socks
    BY DEF SockOf, Socks
  <2> HIDE DEF s
  <2>3. s # t
    BY <2>1, CallsAssumption DEF HolderOf, None
  <2> QED BY <1>2, <2>1, <2>2, <2>3 DEF s
<1>4. ASSUME NEW s \in Socks, new[s].out # None
      PROVE  /\ new[s].out \in Calls /\ calls[new[s].out].at \in Talking
             /\ SockOf(calls[new[s].out].cmd) = s
  <2>1. new[s] = socks[s]
    BY <1>2, <1>4
  <2> QED BY <1>4, <2>1 DEF Line
<1>5. Line(calls, queues, new)
  BY <1>2, <1>3, <1>4 DEF Line
<1> QED BY <1>5 DEF new

-----------------------------------------------------------------------------
(* The permits of the gate.                                                 *)

\* What is used of Cardinality.  It follows from the library's theorems on finite
\* sets (lemma Counted, where they are brought in).
Counting ==
  /\ Cardinality({}) = 0
  /\ \A S \in SUBSET Calls : \A c \in Calls :
       /\ Cardinality(S) \in Nat
       /\ c \notin S => Cardinality(S \cup {c}) = Cardinality(S) + 1
       /\ c \in S => Cardinality(S \ {c}) = Cardinality(S) - 1

\* n permits are left, one is with each trading call behind the gate.
Gate(calls, n) ==
  /\ Counting
  /\ n \in Nat /\ n + Cardinality(Behinds(calls, "trading")) = MaxInflight

\* A call takes a permit, gives one back, or does neither.
LEMMA GateEnter ==
  ASSUME NEW calls \in [Calls -> Call], NEW n, Gate(calls, n), n > 0,
         NEW c \in Calls, NEW y \in Call, calls[c].at \notin Behind, y.at \in Behind,
         SockOf(y.cmd) = "trading"
  PROVE  Gate(Put(calls, c, y), n - 1)
<1> DEFINE S == Behinds(calls, "trading")
           new == Put(calls, c, y)
<1>1. "trading" \in Socks
  BY DEF Socks
<1>2. Behinds(new, "trading") = S \cup {c}
  BY SMTT(30), <1>1, BehindsMove
<1>3. c \notin S
  BY DEF Behinds
<1>4. S \in SUBSET Calls
  BY DEF Behinds
<1> HIDE DEF S
<1>5. Cardinality(S) \in Nat /\ Cardinality(S \cup {c}) = Cardinality(S) + 1
  BY <1>3, <1>4 DEF Gate, Counting
<1>6. n \in Nat /\ n + Cardinality(S) = MaxInflight
  BY DEF Gate, S
<1>7. n - 1 \in Nat /\ (n - 1) + Cardinality(S \cup {c}) = MaxInflight
  BY SMTT(30), <1>5, <1>6
<1>8. Gate(new, n - 1)
  BY <1>2, <1>7 DEF Gate
<1> QED BY <1>8 DEF new

LEMMA GateReturn ==
  ASSUME NEW calls \in [Calls -> Call], NEW n, Gate(calls, n),
         NEW c \in Calls, NEW y \in Call, calls[c].at \in Behind, y.at \notin Behind,
         SockOf(calls[c].cmd) = "trading"
  PROVE  Gate(Put(calls, c, y), n + 1)
<1> DEFINE S == Behinds(calls, "trading")
           new == Put(calls, c, y)
<1>1. "trading" \in Socks
  BY DEF Socks
<1>2. Behinds(new, "trading") = S \ {c}
  BY SMTT(30), <1>1, BehindsMove
<1>3. c \in S
  BY DEF Behinds
<1>4. S \in SUBSET Calls
  BY DEF Behinds
<1> HIDE DEF S
<1>5. Cardinality(S) \in Nat /\ Cardinality(S \ {c}) = Cardinality(S) - 1
  BY <1>3, <1>4 DEF Gate, Counting
<1>6. n \in Nat /\ n + Cardinality(S) = MaxInflight
  BY DEF Gate, S
<1>7. n + 1 \in Nat /\ (n + 1) + Cardinality(S \ {c}) = MaxInflight
  BY SMTT(30), <1>5, <1>6
<1>8. Gate(new, n + 1)
  BY <1>2, <1>7 DEF Gate
<1> QED BY <1>8 DEF new

LEMMA GateSame ==
  ASSUME NEW calls \in [Calls -> Call], NEW n, Gate(calls, n),
         NEW c \in Calls, NEW y \in Call,
         (SockOf(y.cmd) = "trading" /\ y.at \in Behind) <=>
           (SockOf(calls[c].cmd) = "trading" /\ calls[c].at \in Behind)
  PROVE  Gate(Put(calls, c, y), n)
<1> DEFINE S == Behinds(calls, "trading")
           new == Put(calls, c, y)
<1>1. "trading" \in Socks
  BY DEF Socks
<1>2. Behinds(new, "trading") =
        IF SockOf(y.cmd) = "trading" /\ y.at \in Behind THEN S \cup {c} ELSE S \ {c}
  BY SMTT(30), <1>1, BehindsMove
<1>3. c \in S <=> SockOf(y.cmd) = "trading" /\ y.at \in Behind
  BY DEF Behinds
<1> HIDE DEF S
<1>4. Behinds(new, "trading") = S
  BY <1>2, <1>3
<1>5. Gate(new, n)
  BY <1>4 DEF Gate, S
<1> QED BY <1>5 DEF new

-----------------------------------------------------------------------------
(* One call.                                                                *)

\* What an order or a change has done by now: nothing, until the EA has accepted
\* the command itself, and then once.
EffectKnown(x) ==
  /\ x.cmd \notin Effects => x.done = 0
  /\ x.cmd \in Effects /\ x.at = "idle" =>
       /\ x.done <= 1
       /\ x.res = "ok" => x.done = 1
       /\ x.res \in {"throttled", "full", "mismatch"} => x.done = 0
  /\ x.cmd \in Effects /\ x.at # "idle" =>
       IF x.at \in {"main", "retry"} /\ x.reply # None
       THEN /\ x.reply \in {"ok", "error", "noauth", "refused"}
            /\ x.cmd = "ORDER_SEND" => x.reply # "refused"
            /\ x.done = IF x.reply = "ok" THEN 1 ELSE 0
       ELSE x.done = 0

Good(x) ==
  /\ x \in Call
  /\ x.at \in {"limit", "gate", "ident"} => SockOf(x.cmd) = "trading"
  /\ x.at \notin Talking => x.reply = None
  /\ x.at # "idle" => x.res = None
  /\ EffectKnown(x)

\* The moves of a call: to another stage, on to the next message, to its reply.
Staged(x, at) == [x EXCEPT !.at = at]
Resent(x, at) == [x EXCEPT !.at = at, !.reply = None]
Answered(x, reply, done) == [x EXCEPT !.reply = reply, !.done = done]

LEMMA StagedIs ==
  ASSUME NEW x \in Call, NEW at \in Stages
  PROVE  /\ Staged(x, at) \in Call /\ Staged(x, at).at = at /\ Staged(x, at).cmd = x.cmd
         /\ Staged(x, at).reply = x.reply /\ Staged(x, at).done = x.done
         /\ Staged(x, at).res = x.res
BY DEF Staged, Call

LEMMA ResentIs ==
  ASSUME NEW x \in Call, NEW at \in Stages
  PROVE  /\ Resent(x, at) \in Call /\ Resent(x, at).at = at /\ Resent(x, at).cmd = x.cmd
         /\ Resent(x, at).reply = None /\ Resent(x, at).done = x.done
         /\ Resent(x, at).res = x.res
BY DEF Resent, Call

LEMMA AnsweredIs ==
  ASSUME NEW x \in Call, NEW reply \in Replies, NEW done \in 0..2
  PROVE  /\ Answered(x, reply, done) \in Call /\ Answered(x, reply, done).at = x.at
         /\ Answered(x, reply, done).cmd = x.cmd /\ Answered(x, reply, done).reply = reply
         /\ Answered(x, reply, done).done = done /\ Answered(x, reply, done).res = x.res
BY DEF Answered, Call

\* The updates of the actions are such moves.
LEMMA UpdateStage ==
  ASSUME NEW calls \in [Calls -> Call], NEW c \in Calls, NEW at
  PROVE  [calls EXCEPT ![c].at = at] = Put(calls, c, Staged(calls[c], at))
BY DEF Put, Staged

LEMMA UpdateSend ==
  ASSUME NEW calls \in [Calls -> Call], NEW c \in Calls, NEW at
  PROVE  [calls EXCEPT ![c].at = at, ![c].reply = None] = Put(calls, c, Resent(calls[c], at))
BY DEF Put, Resent

LEMMA UpdateReply ==
  ASSUME NEW calls \in [Calls -> Call], NEW c \in Calls, NEW reply, NEW done
  PROVE  [calls EXCEPT ![c].reply = reply, ![c].done = done] =
           Put(calls, c, Answered(calls[c], reply, done))
BY DEF Put, Answered

\* A call that ended.
LEMMA EndedIs ==
  ASSUME call \in [Calls -> Call], NEW c \in Calls, NEW res \in Results, NEW done \in 0..1,
         call[c].cmd \in Effects =>
           /\ res = "ok" => done = 1
           /\ res \in {"throttled", "full", "mismatch"} => done = 0
  PROVE  Good(Ended(c, res, done)) /\ Ended(c, res, done).at = "idle"
<1>1. PICK x \in Call : x = call[c]
  OBVIOUS
<1>2. CASE x.cmd \in Effects
  <2> DEFINE y == Ended(c, res, done)
  <2>1. y = [at |-> "idle", cmd |-> x.cmd, reply |-> None, done |-> done, res |-> res]
    BY <1>1, <1>2 DEF Ended, Idle
  <2>2. /\ y \in Call /\ y.at = "idle" /\ y.cmd = x.cmd /\ y.reply = None
        /\ y.done = done /\ y.res = res
    BY SMTT(30), <2>1 DEF Call, Stages, None
  <2> HIDE DEF y
  <2>3. EffectKnown(y)
    BY SMTT(30), <1>1, <1>2, <2>2 DEF EffectKnown
  <2>4. Good(y)
    BY <2>2, <2>3 DEF Good
  <2> QED BY <2>2, <2>4 DEF y
<1>3. CASE x.cmd \notin Effects
  <2>1. Ended(c, res, done) = Idle
    BY <1>1, <1>3 DEF Ended
  <2>2. /\ Idle \in Call /\ Idle.at = "idle" /\ Idle.cmd = "PING" /\ Idle.reply = None
        /\ Idle.done = 0
    BY SMTT(30) DEF Idle, Call, Stages, Commands, None
  <2>3. Good(Idle)
    BY <2>2 DEF Good, EffectKnown, Effects
  <2> QED BY <2>1, <2>2, <2>3
<1> QED BY <1>2, <1>3

\* What a call has done while it is under way.
LEMMA UnderWay ==
  ASSUME NEW x, Good(x), x.at # "idle"
  PROVE  /\ x.done \in 0..1
         /\ x.reply = None => x.done = 0
         /\ x.at \notin Talking => x.done = 0
<1>1. /\ x.cmd \notin Effects => x.done = 0
      /\ x.cmd \in Effects => x.done = 0 \/ (x.done = 1 /\ x.reply # None)
  BY DEF Good, EffectKnown
<1>2. x.at \notin Talking => x.reply = None
  BY DEF Good
<1>3. x.done = 0 \/ (x.done = 1 /\ x.reply # None)
  BY <1>1
<1> QED BY SMTT(30), <1>2, <1>3

LEMMA PutGood ==
  ASSUME NEW calls \in [Calls -> Call], \A d \in Calls : Good(calls[d]),
         NEW c \in Calls, NEW y, Good(y)
  PROVE  \A d \in Calls : Good(Put(calls, c, y)[d])
<1>1. y \in Call
  BY DEF Good
<1>2. Put(calls, c, y)[c] = y /\ \A d \in Calls \ {c} : Put(calls, c, y)[d] = calls[d]
  BY SMTT(30), <1>1, PutIs
<1> QED BY <1>2

\* What the EA may answer.
LEMMA AnswersKnown ==
  ASSUME NEW cmd \in Commands, NEW reply \in Answers(cmd)
  PROVE  /\ reply \in Replies
         /\ cmd = "ORDER_SEND" => reply \in {"ok", "error", "noauth"}
         /\ cmd = "change" => reply \in {"ok", "error", "noauth", "refused"}
<1>1. CASE cmd = "PING"
  BY <1>1 DEF Answers, Replies
<1>2. CASE cmd = "HEALTH"
  BY <1>2 DEF Answers, Replies
<1>3. CASE cmd # "PING" /\ cmd # "HEALTH" /\ ~ea.auth
  BY <1>3 DEF Answers, Replies
<1>4. CASE cmd # "PING" /\ cmd # "HEALTH" /\ ea.auth
  BY <1>4 DEF Answers, Replies
<1> QED BY <1>1, <1>2, <1>3, <1>4

-----------------------------------------------------------------------------
(* The inductive invariant, action by action.                               *)

Scalars ==
  /\ verified \in BOOLEAN /\ checked \in BOOLEAN /\ tokens \in 0..Burst
  /\ ctx \in {"open", "closing", "closed", "stuck"} /\ left \in 0..MaxTroubles

\* The lines, the gate and each call, and what remains of the types.
Core(calls, queues, socks, n) ==
  /\ Line(calls, queues, socks)
  /\ Gate(calls, n)
  /\ \A c \in Calls : Good(calls[c])

SessionInv == Core(call, queue, sock, permits) /\ Scalars

\* Where a call may be, as far as the lines are concerned.
LEMMA StageFacts ==
  /\ "idle" \notin Behind /\ "limit" \notin Behind /\ "gate" \notin Behind /\ "lock" \in Behind
  /\ "lock" \notin Talking /\ "idle" \notin Talking /\ Talking \subseteq Behind
  /\ Behind = Talking \cup {"lock"}
  /\ Talking \subseteq Stages /\ {"idle", "limit", "gate", "lock"} \subseteq Stages
  /\ \A cmd : SockOf(cmd) \in Socks
BY DEF Behind, Talking, Stages, SockOf, Socks

LEMMA InitHolds == Counting /\ Init => SessionInv
<1> SUFFICES ASSUME Counting, Init PROVE SessionInv
  OBVIOUS
<1>1. Idle \in Call /\ Idle.at = "idle" /\ Idle.cmd = "PING" /\ Idle.reply = None /\ Idle.done = 0
  BY SMTT(30) DEF Idle, Call, Stages, Commands, None
<1>2. Good(Idle)
  BY <1>1 DEF Good, EffectKnown, Effects
<1>3. /\ call \in [Calls -> Call] /\ queue \in [Socks -> Seq(Calls)]
      /\ sock \in [Socks -> [init : BOOLEAN, out : Calls \cup {None}]]
      /\ \A c \in Calls : call[c] = Idle
      /\ \A s \in Socks : queue[s] = <<>> /\ sock[s].out = None
  BY SMTT(30), <1>1 DEF Init
<1>4. \A s \in Socks : Behinds(call, s) = {}
  BY <1>1, <1>3, StageFacts DEF Behinds
<1>5. \A s \in Socks : Lined(queue[s], Behinds(call, s))
  BY SMTT(30), <1>3, <1>4 DEF Lined
<1>6. Line(call, queue, sock)
  BY <1>1, <1>3, <1>5, StageFacts DEF Line
<1>7. Gate(call, permits)
  <2>1. Behinds(call, "trading") = {}
    BY <1>4 DEF Socks
  <2>2. permits = MaxInflight
    BY DEF Init
  <2> QED BY SMTT(30), <2>1, <2>2, BoundsAssumption DEF Gate, Counting
<1>8. Scalars
  <2>1. verified = FALSE /\ checked = FALSE /\ tokens = Burst /\ ctx = "open" /\ left = MaxTroubles
    BY DEF Init
  <2>2. tokens \in 0..Burst /\ left \in 0..MaxTroubles
    BY SMTT(30), <2>1, BoundsAssumption
  <2>3. verified \in BOOLEAN /\ checked \in BOOLEAN
    BY <2>1
  <2> QED BY <2>1, <2>2, <2>3 DEF Scalars
<1> QED BY <1>2, <1>3, <1>6, <1>7, <1>8 DEF SessionInv, Core

LEMMA RequestStep ==
  ASSUME SessionInv, NEW c \in Calls, NEW cmd \in CommandsOf[c], Request(c, cmd)
  PROVE  SessionInv'
<1> DEFINE y == [at |-> IF cmd = "CANDLES" THEN "lock" ELSE "limit",
                 cmd |-> cmd, reply |-> None, done |-> 0, res |-> None]
<1>1. cmd \in Commands
  BY CommandsAssumption DEF Commands
<1>2. /\ y \in Call /\ y.cmd = cmd /\ y.reply = None /\ y.done = 0 /\ y.res = None
      /\ y.at = IF cmd = "CANDLES" THEN "lock" ELSE "limit"
  BY SMTT(30), <1>1 DEF Call, Stages, None
<1>3. call' = Put(call, c, y)
  BY DEF Request, Put
<1> HIDE DEF y
<1>4. Good(y)
  BY <1>2 DEF Good, EffectKnown, SockOf
<1>5. call \in [Calls -> Call] /\ call[c].at = "idle"
  BY DEF SessionInv, Core, Line, Request
<1>6. Line(call', queue', sock')
  <2>1. CASE cmd = "CANDLES"
    <3>1. SockOf(y.cmd) = "candles" /\ y.at = "lock"
      BY <1>2, <2>1 DEF SockOf
    <3>2. queue' = [queue EXCEPT ![SockOf(y.cmd)] = Append(@, c)] /\ sock' = sock
      BY <2>1, <3>1 DEF Request
    <3> QED BY <1>2, <1>3, <1>5, <3>1, <3>2, LineJoin, StageFacts DEF SessionInv, Core
  <2>2. CASE cmd # "CANDLES"
    <3>1. queue' = queue /\ sock' = sock /\ y.at = "limit"
      BY <1>2, <2>2 DEF Request
    <3> QED BY <1>2, <1>3, <1>5, <3>1, LineOutside, StageFacts DEF SessionInv, Core
  <2> QED BY <2>1, <2>2
<1>7. Gate(call', permits')
  <2>1. permits' = permits
    BY DEF Request
  <2>3. Gate(call, permits)
    BY DEF SessionInv, Core
  <2>2. ~(SockOf(y.cmd) = "trading" /\ y.at \in Behind)
    BY <1>2, StageFacts DEF SockOf
  <2> QED BY SMTT(30), <1>2, <1>3, <1>5, <2>1, <2>2, <2>3, GateSame, StageFacts
<1>8. \A d \in Calls : Good(call'[d])
  BY <1>3, <1>4, <1>5, PutGood DEF SessionInv, Core
<1>9. Scalars'
  BY DEF SessionInv, Core, Scalars, Request
<1> QED BY <1>6, <1>7, <1>8, <1>9 DEF SessionInv, Core

\* A call that is in no line ends.
LEMMA RefuseStep ==
  ASSUME SessionInv, NEW c \in Calls, NEW res \in {"throttled", "full"},
         call[c].at \notin Behind, Refuse(c, res)
  PROVE  SessionInv'
<1> DEFINE y == Ended(c, res, 0)
<1>1. call \in [Calls -> Call] /\ call' = Put(call, c, y)
  BY DEF SessionInv, Core, Line, Refuse, Put
<1>2. Good(y) /\ y.at = "idle"
  BY SMTT(30), <1>1, EndedIs DEF Results
<1> HIDE DEF y
<1>3. y \in Call /\ y.at \notin Behind
  BY <1>2, StageFacts DEF Good
<1>4. queue' = queue /\ sock' = sock /\ permits' = permits
  BY DEF Refuse
<1>5. Line(call', queue', sock') /\ Gate(call', permits')
  <2>1. Line(call, queue, sock) /\ Gate(call, permits)
    BY DEF SessionInv, Core
  <2>2. Line(Put(call, c, y), queue, sock)
    BY <1>3, <2>1, LineOutside
  <2>3. Gate(Put(call, c, y), permits)
    BY <1>1, <1>3, <2>1, GateSame
  <2> QED BY <1>1, <1>4, <2>2, <2>3
<1>6. \A d \in Calls : Good(call'[d])
  BY <1>1, <1>2, PutGood DEF SessionInv, Core
<1>7. Scalars'
  BY DEF SessionInv, Core, Scalars, Refuse
<1> QED BY <1>5, <1>6, <1>7 DEF SessionInv, Core

LEMMA AcquireStep ==
  ASSUME SessionInv, NEW c \in Calls, Acquire(c)
  PROVE  SessionInv'
<1>1. call \in [Calls -> Call] /\ call[c].at = "limit" /\ Good(call[c])
  BY DEF SessionInv, Core, Line, Acquire
<1>2. CASE \E t \in Refilled : t = 0 /\ Refuse(c, "throttled")
  BY <1>1, <1>2, RefuseStep, StageFacts
<1>3. CASE \E t \in Refilled : /\ t > 0 /\ tokens' = t - 1
                               /\ call' = [call EXCEPT ![c].at = "gate"]
                               /\ UNCHANGED <<sock, queue, verified, permits, ea, ctx, checked, left>>
  <2> DEFINE x == call[c]
             y == Staged(x, "gate")
  <2>1. PICK t \in Refilled : t > 0 /\ tokens' = t - 1
    BY <1>3
  <2>2. call' = [call EXCEPT ![c].at = "gate"]
        /\ UNCHANGED <<sock, queue, verified, permits, ea, ctx, checked, left>>
    BY <1>3
  <2>3. call' = Put(call, c, y)
    BY SMTT(30), <1>1, <2>2, UpdateStage
  <2>4. /\ y \in Call /\ y.at = "gate" /\ y.cmd = x.cmd /\ y.reply = x.reply
        /\ y.done = x.done /\ y.res = x.res
    BY SMTT(30), <1>1, StagedIs DEF Stages
  <2> HIDE DEF y
  <2>5. Good(y)
    <3>1. EffectKnown(y)
      BY <1>1, <2>4 DEF Good, EffectKnown
    <3> QED BY <1>1, <2>4, <3>1 DEF Good, Talking
  <2>6. queue' = queue /\ sock' = sock /\ permits' = permits
    BY <2>2
  <2>7. Line(call', queue', sock') /\ Gate(call', permits')
    <3>1. Line(call, queue, sock) /\ Gate(call, permits)
      BY DEF SessionInv, Core
    <3>2. call[c].at \notin Behind /\ y.at \notin Behind
      BY <1>1, <2>4, StageFacts
    <3>3. Line(Put(call, c, y), queue, sock)
      BY <2>4, <3>1, <3>2, LineOutside
    <3>4. Gate(Put(call, c, y), permits)
      BY <1>1, <2>4, <3>1, <3>2, GateSame
    <3> QED BY <2>3, <2>6, <3>3, <3>4
  <2>8. \A d \in Calls : Good(call'[d])
    BY <1>1, <2>3, <2>5, PutGood DEF SessionInv, Core
  <2>9. Scalars'
    BY SMTT(30), <2>1, <2>2, BoundsAssumption DEF SessionInv, Core, Scalars, Refilled
  <2> QED BY <2>7, <2>8, <2>9 DEF SessionInv, Core
<1> QED BY <1>2, <1>3 DEF Acquire

LEMMA EnterGateStep ==
  ASSUME SessionInv, NEW c \in Calls, EnterGate(c)
  PROVE  SessionInv'
<1>1. call \in [Calls -> Call] /\ call[c].at = "gate" /\ Good(call[c])
  BY DEF SessionInv, Core, Line, EnterGate
<1>2. CASE permits = 0 /\ Refuse(c, "full")
  BY <1>1, <1>2, RefuseStep, StageFacts
<1>3. CASE /\ permits > 0 /\ permits' = permits - 1
           /\ call' = [call EXCEPT ![c].at = "lock"]
           /\ queue' = [queue EXCEPT !["trading"] = Append(@, c)]
           /\ UNCHANGED <<sock, verified, tokens, ea, ctx, checked, left>>
  <2> DEFINE x == call[c]
             y == Staged(x, "lock")
  <2>1. call' = Put(call, c, y)
    <3>1. call' = [call EXCEPT ![c].at = "lock"]
      BY <1>3
    <3> QED BY SMTT(30), <1>1, <3>1, UpdateStage
  <2>2. /\ y \in Call /\ y.at = "lock" /\ y.cmd = x.cmd /\ y.reply = x.reply
        /\ y.done = x.done /\ y.res = x.res
    BY SMTT(30), <1>1, StagedIs DEF Stages
  <2> HIDE DEF y
  <2>3. Good(y)
    <3>1. EffectKnown(y)
      BY <1>1, <2>2 DEF Good, EffectKnown
    <3> QED BY <1>1, <2>2, <3>1 DEF Good, Talking
  <2>4. SockOf(y.cmd) = "trading"
    BY <1>1, <2>2 DEF Good
  <2>5. call[c].at \notin Behind /\ y.at \in Behind
    BY <1>1, <2>2, StageFacts
  <2>6. queue' = [queue EXCEPT ![SockOf(y.cmd)] = Append(@, c)] /\ sock' = sock
        /\ permits > 0 /\ permits' = permits - 1
    BY <1>3, <2>4
  <2>7. Line(call', queue', sock')
    <3>1. Line(call, queue, sock)
      BY DEF SessionInv, Core
    <3> QED BY <2>1, <2>2, <2>5, <2>6, <3>1, LineJoin
  <2>8. Gate(call', permits')
    <3>1. Gate(call, permits)
      BY DEF SessionInv, Core
    <3> QED BY <1>1, <2>1, <2>2, <2>4, <2>5, <2>6, <3>1, GateEnter
  <2>9. \A d \in Calls : Good(call'[d])
    BY <1>1, <2>1, <2>3, PutGood DEF SessionInv, Core
  <2>10. Scalars'
    BY <1>3 DEF SessionInv, Scalars
  <2> QED BY <2>7, <2>8, <2>9, <2>10 DEF SessionInv, Core
<1> QED BY <1>2, <1>3 DEF EnterGate

\* A call that talks goes on talking.
LEMMA CoreTalk ==
  ASSUME NEW calls, NEW queues, NEW socks, NEW n, Core(calls, queues, socks, n),
         NEW c \in Calls, NEW y, Good(y), calls[c].at \in Talking, y.at \in Talking,
         y.cmd = calls[c].cmd
  PROVE  Core(Put(calls, c, y), queues, socks, n)
<1> DEFINE t == SockOf(y.cmd)
<1>1. /\ calls \in [Calls -> Call] /\ Gate(calls, n) /\ Line(calls, queues, socks)
      /\ \A d \in Calls : Good(calls[d])
      /\ socks \in [Socks -> [init : BOOLEAN, out : Calls \cup {None}]]
      /\ y \in Call
  BY DEF Core, Line, Good
<1>2. HolderOf(queues[t]) = c /\ socks[t].init /\ socks[t].out = c
  BY <1>1 DEF Line
<1>3. calls[c].at \in Behind /\ y.at \in Behind
  BY StageFacts
<1>4. Line(Put(calls, c, y), queues, socks)
  BY <1>1, <1>2, <1>3, LineTalk
<1>5. Gate(Put(calls, c, y), n)
  BY <1>1, <1>3, GateSame
<1>6. \A d \in Calls : Good(Put(calls, c, y)[d])
  BY <1>1, PutGood
<1> QED BY <1>4, <1>5, <1>6 DEF Core

\* A call that talks ends, and leaves its socket waiting for nobody.
LEMMA CoreLeave ==
  ASSUME NEW calls, NEW queues, NEW socks, NEW n, Core(calls, queues, socks, n),
         NEW c \in Calls, NEW y, Good(y), calls[c].at \in Talking, y.at = "idle",
         NEW t, t = SockOf(calls[c].cmd),
         NEW q, Lined(q, Behinds(calls, t) \ {c}),
         NEW b \in [init : BOOLEAN, out : Calls \cup {None}], b.out = None
  PROVE  Core(Put(calls, c, y), [queues EXCEPT ![t] = q], [socks EXCEPT ![t] = b],
              IF t = "trading" THEN n + 1 ELSE n)
<1> DEFINE socks2 == [socks EXCEPT ![t] = b]
<1>1. /\ calls \in [Calls -> Call] /\ Gate(calls, n) /\ Line(calls, queues, socks)
      /\ \A d \in Calls : Good(calls[d])
      /\ socks \in [Socks -> [init : BOOLEAN, out : Calls \cup {None}]]
      /\ y \in Call /\ t \in Socks
  BY StageFacts DEF Core, Line, Good
<1>2. HolderOf(queues[t]) = c
  BY <1>1 DEF Line
<1>3. calls[c].at \in Behind /\ y.at \notin Behind /\ calls[c].at # "lock"
  BY StageFacts
<1>4. /\ socks2 \in [Socks -> [init : BOOLEAN, out : Calls \cup {None}]]
      /\ socks2[t].out = None /\ \A s \in Socks \ {t} : socks2[s] = socks[s]
  BY <1>1
<1> HIDE DEF socks2
<1>5. Line(Put(calls, c, y), [queues EXCEPT ![t] = q], socks2)
  BY SMTT(30), <1>1, <1>2, <1>3, <1>4, LineLeave
<1>6. Gate(Put(calls, c, y), IF t = "trading" THEN n + 1 ELSE n)
  <2>1. CASE t = "trading"
    BY <1>1, <1>3, <2>1, GateReturn
  <2>2. CASE t # "trading"
    <3>1. Gate(Put(calls, c, y), n)
      BY <1>1, <1>3, <2>2, GateSame
    <3> QED BY <2>2, <3>1
  <2> QED BY <2>1, <2>2
<1>7. \A d \in Calls : Good(Put(calls, c, y)[d])
  BY <1>1, PutGood
<1> QED BY <1>5, <1>6, <1>7 DEF Core, socks2

\* A call that waits for the lock ends.
LEMMA CoreQuit ==
  ASSUME NEW calls, NEW queues, NEW socks, NEW n, Core(calls, queues, socks, n),
         NEW c \in Calls, NEW y, Good(y), calls[c].at = "lock", y.at = "idle",
         NEW t, t = SockOf(calls[c].cmd)
  PROVE  Core(Put(calls, c, y), [queues EXCEPT ![t] = Without(@, c)], socks,
              IF t = "trading" THEN n + 1 ELSE n)
<1> DEFINE q == Without(queues[t], c)
<1>1. /\ calls \in [Calls -> Call] /\ Gate(calls, n) /\ Line(calls, queues, socks)
      /\ \A d \in Calls : Good(calls[d])
      /\ socks \in [Socks -> [init : BOOLEAN, out : Calls \cup {None}]]
      /\ queues \in [Socks -> Seq(Calls)]
      /\ y \in Call /\ t \in Socks /\ Lined(queues[t], Behinds(calls, t))
  BY StageFacts DEF Core, Line, Good
<1>2. calls[c].at \in Behind /\ y.at \notin Behind /\ calls[c].at \notin Talking
  BY StageFacts
<1>3. /\ Lined(q, Behinds(calls, t) \ {c})
      /\ HolderOf(queues[t]) # c => HolderOf(q) = HolderOf(queues[t])
  BY <1>1, LinedWithout
<1> HIDE DEF q
<1>4. Line(Put(calls, c, y), [queues EXCEPT ![t] = q], socks)
  BY <1>1, <1>2, <1>3, LineLeave
<1>5. Gate(Put(calls, c, y), IF t = "trading" THEN n + 1 ELSE n)
  <2>1. CASE t = "trading"
    BY <1>1, <1>2, <2>1, GateReturn
  <2>2. CASE t # "trading"
    <3>1. Gate(Put(calls, c, y), n)
      BY <1>1, <1>2, <2>2, GateSame
    <3> QED BY <2>2, <3>1
  <2> QED BY <2>1, <2>2
<1>6. \A d \in Calls : Good(Put(calls, c, y)[d])
  BY <1>1, PutGood
<1>7. [queues EXCEPT ![t] = Without(@, c)] = [queues EXCEPT ![t] = q]
  BY <1>1 DEF q
<1> QED BY <1>4, <1>5, <1>6, <1>7 DEF Core

LEMMA ConnectStep ==
  ASSUME SessionInv, NEW c \in Calls, Connect(c)
  PROVE  SessionInv'
<1> DEFINE x == call[c]
           t == SockOf(x.cmd)
           at == IF ~sock[t].init /\ x.cmd \notin {"PING", "HEALTH"} THEN "ping" ELSE "main"
           y == Staged(x, at)
<1>1. /\ call \in [Calls -> Call] /\ x.at = "lock" /\ Good(x) /\ t \in Socks /\ HolderOf(queue[t]) = c
      /\ sock \in [Socks -> [init : BOOLEAN, out : Calls \cup {None}]]
      /\ at \in {"ping", "main"} /\ at \in Talking /\ at \in Stages
  BY StageFacts DEF SessionInv, Core, Line, Connect, Holder, HolderOf, Talking
<1>2. /\ call' = [call EXCEPT ![c].at = at]
      /\ sock' = [sock EXCEPT ![t] = [init |-> TRUE, out |-> c]]
      /\ queue' = queue /\ permits' = permits
  BY DEF Connect
<1> HIDE DEF at
<1>3. call' = Put(call, c, y)
  BY SMTT(30), <1>1, <1>2, UpdateStage
<1>4. /\ y \in Call /\ y.at = at /\ y.cmd = x.cmd /\ y.reply = x.reply
      /\ y.done = x.done /\ y.res = x.res
  BY <1>1, StagedIs
<1> HIDE DEF y
<1>5. Good(y)
  <2>1. x.reply = None /\ x.res = None /\ at \notin {"idle", "limit", "gate", "ident"}
    BY <1>1, StageFacts DEF Good, Talking
  <2>2. EffectKnown(y)
    BY <1>1, <1>4, <2>1 DEF Good, EffectKnown
  <2> QED BY <1>1, <1>4, <2>1, <2>2 DEF Good
<1>6. /\ sock' \in [Socks -> [init : BOOLEAN, out : Calls \cup {None}]]
      /\ sock'[t].init /\ sock'[t].out = c /\ \A s \in Socks \ {t} : sock'[s] = sock[s]
  BY <1>1, <1>2
<1> HIDE DEF t
<1>7. Line(call', queue', sock')
  <2>1. Line(call, queue, sock)
    BY DEF SessionInv, Core
  <2>2. call[c].at \in Behind /\ y.at \in Talking
    BY <1>1, <1>4, StageFacts
  <2>3. t = SockOf(y.cmd)
    BY <1>4 DEF t
  <2>4. Line(Put(call, c, y), queue, sock')
    BY SMTT(30), <1>1, <1>4, <1>6, <2>1, <2>2, <2>3, LineTalk
  <2> QED BY <1>2, <1>3, <2>4
<1>8. Gate(call', permits')
  <2>1. Gate(call, permits)
    BY DEF SessionInv, Core
  <2>2. call[c].at \in Behind /\ y.at \in Behind
    BY <1>1, <1>4, StageFacts
  <2>3. Gate(Put(call, c, y), permits)
    BY <1>1, <1>4, <2>1, <2>2, GateSame
  <2> QED BY <1>2, <1>3, <2>3
<1>9. \A d \in Calls : Good(call'[d])
  BY <1>1, <1>3, <1>5, PutGood DEF SessionInv, Core
<1>10. Scalars'
  <2>1. checked' \in BOOLEAN
    BY DEF SessionInv, Scalars, Connect
  <2>2. UNCHANGED <<verified, tokens, ctx, left>>
    BY DEF Connect
  <2> QED BY <2>1, <2>2 DEF SessionInv, Scalars
<1> QED BY <1>7, <1>8, <1>9, <1>10 DEF SessionInv, Core

\* What is on the wire is a command, and an effect only if it is the call's own.
LEMMA SentIs ==
  ASSUME NEW c \in Calls, call \in [Calls -> Call], call[c].at \in Talking
  PROVE  /\ Sent(c) \in Commands
         /\ call[c].at \in {"main", "retry"} => Sent(c) = call[c].cmd
         /\ call[c].at \notin {"main", "retry"} => Sent(c) \notin Effects
<1>1. call[c].cmd \in Commands
  BY DEF Call
<1> QED BY <1>1 DEF Sent, Commands, Effects, Talking

LEMMA EaHandlesStep ==
  ASSUME SessionInv, NEW c \in Calls, EaHandles(c)
  PROVE  SessionInv'
<1>1. PICK reply \in Answers(Sent(c)) :
        call' = [call EXCEPT ![c].reply = reply, ![c].done = Handled(c, reply)]
  BY DEF EaHandles
<1> DEFINE x == call[c]
           n == Handled(c, reply)
           y == Answered(x, reply, n)
<1>2. /\ call \in [Calls -> Call] /\ Good(x) /\ x \in Call
      /\ x.at \in Talking /\ x.reply = None
  BY DEF SessionInv, Core, Line, EaHandles
<1>3. /\ Sent(c) \in Commands
      /\ x.at \in {"main", "retry"} => Sent(c) = x.cmd
      /\ x.at \notin {"main", "retry"} => Sent(c) \notin Effects
  BY <1>2, SentIs
<1>4. /\ reply \in Replies /\ reply # None
      /\ Sent(c) = "ORDER_SEND" => reply \in {"ok", "error", "noauth"}
      /\ Sent(c) = "change" => reply \in {"ok", "error", "noauth", "refused"}
  BY <1>3, AnswersKnown DEF Replies, None
<1>5. x.done = 0 /\ x.res = None /\ x.at # "idle"
  <2>1. x.at # "idle"
    BY <1>2, StageFacts
  <2> QED BY <1>2, <2>1, UnderWay DEF Good
<1>6. n = IF Sent(c) \in Effects /\ reply = "ok" THEN 1 ELSE 0
  BY SMTT(30), <1>5 DEF Handled
<1> HIDE DEF n
<1>7. call' = Put(call, c, y)
  BY <1>1, <1>2, UpdateReply DEF n
<1>8. /\ y \in Call /\ y.at = x.at /\ y.cmd = x.cmd /\ y.reply = reply
      /\ y.done = n /\ y.res = x.res
  BY SMTT(30), <1>2, <1>4, <1>6, AnsweredIs
<1> HIDE DEF y
<1>9. Good(y)
  <2>1. EffectKnown(y)
    BY <1>3, <1>4, <1>5, <1>6, <1>8 DEF EffectKnown, Effects
  <2> QED BY <1>2, <1>5, <1>8, <2>1 DEF Good
<1>10. queue' = queue /\ sock' = sock /\ permits' = permits
       /\ UNCHANGED <<verified, tokens, ctx, checked, left>>
  BY DEF EaHandles
<1>11. Core(call', queue', sock', permits')
  <2>1. Core(Put(call, c, y), queue, sock, permits)
    BY <1>2, <1>8, <1>9, CoreTalk DEF SessionInv
  <2> QED BY <1>7, <1>10, <2>1
<1>12. Scalars'
  BY <1>10 DEF SessionInv, Scalars
<1> QED BY <1>11, <1>12 DEF SessionInv

\* The next message goes out; an order or a change has had no effect so far.
LEMMA SendKeeps ==
  ASSUME SessionInv, NEW c \in Calls, NEW at \in Talking, call[c].at \in Talking,
         call[c].cmd \in Effects => call[c].done = 0,
         at = "ident" => SockOf(call[c].cmd) = "trading",
         Send(c, at), UNCHANGED <<sock, queue, permits>>
  PROVE  Core(call', queue', sock', permits')
<1> DEFINE x == call[c]
           y == Resent(x, at)
<1>1. call \in [Calls -> Call] /\ Good(x) /\ x \in Call /\ at \in Stages
  BY StageFacts DEF SessionInv, Core, Line
<1>2. call' = Put(call, c, y)
  BY <1>1, UpdateSend DEF Send
<1>3. /\ y \in Call /\ y.at = at /\ y.cmd = x.cmd /\ y.reply = None
      /\ y.done = x.done /\ y.res = x.res
  BY <1>1, ResentIs
<1> HIDE DEF y
<1>4. Good(y)
  <2>1. x.res = None /\ at \notin {"idle", "limit", "gate"}
    BY <1>1, StageFacts DEF Good, Talking
  <2>2. EffectKnown(y)
    BY <1>1, <1>3, <2>1 DEF Good, EffectKnown
  <2> QED BY <1>1, <1>3, <2>1, <2>2 DEF Good
<1>5. Core(Put(call, c, y), queue, sock, permits)
  BY <1>3, <1>4, CoreTalk DEF SessionInv
<1> QED BY <1>2, <1>5

\* A socket that is closed, or ready to be sent to again.
LEMMA Released ==
  ASSUME NEW s \in Socks, sock \in [Socks -> [init : BOOLEAN, out : Calls \cup {None}]],
         Close(s) \/ Keep(s)
  PROVE  \E b \in [init : BOOLEAN, out : Calls \cup {None}] :
           b.out = None /\ sock' = [sock EXCEPT ![s] = b]
<1>1. CASE Close(s)
  <2> DEFINE b == [init |-> FALSE, out |-> None]
  <2>1. b \in [init : BOOLEAN, out : Calls \cup {None}] /\ b.out = None
    OBVIOUS
  <2>2. sock' = [sock EXCEPT ![s] = b]
    BY <1>1 DEF Close
  <2> HIDE DEF b
  <2> QED BY <2>1, <2>2
<1>2. CASE Keep(s)
  <2> DEFINE b == [sock[s] EXCEPT !.out = None]
  <2>1. sock[s] \in [init : BOOLEAN, out : Calls \cup {None}]
    OBVIOUS
  <2>2. b \in [init : BOOLEAN, out : Calls \cup {None}] /\ b.out = None
    BY <2>1
  <2>3. sock' = [sock EXCEPT ![s] = b]
    BY <1>2 DEF Keep
  <2> HIDE DEF b
  <2> QED BY <2>2, <2>3
<1> QED BY <1>1, <1>2

\* A call that talks ends with a result, what it did and its socket as it should be.
LEMMA LeaveKeeps ==
  ASSUME SessionInv, NEW c \in Calls, call[c].at \in Talking,
         NEW res \in Results, NEW n \in 0..1,
         call[c].cmd \in Effects =>
           /\ res = "ok" => n = 1
           /\ res \in {"throttled", "full", "mismatch"} => n = 0,
         call' = [call EXCEPT ![c] = Ended(c, res, n)],
         NEW t, t = SockOf(call[c].cmd),
         NEW q, Lined(q, Behinds(call, t) \ {c}),
         queue' = [queue EXCEPT ![t] = q],
         permits' = (IF t = "trading" THEN permits + 1 ELSE permits),
         Close(t) \/ Keep(t)
  PROVE  Core(call', queue', sock', permits')
<1> DEFINE y == Ended(c, res, n)
<1>1. /\ call \in [Calls -> Call] /\ t \in Socks
      /\ sock \in [Socks -> [init : BOOLEAN, out : Calls \cup {None}]]
  BY StageFacts DEF SessionInv, Core, Line
<1>2. Good(y) /\ y.at = "idle"
  BY <1>1, EndedIs
<1>3. call' = Put(call, c, y)
  BY DEF Put
<1> HIDE DEF y
<1>4. PICK b \in [init : BOOLEAN, out : Calls \cup {None}] :
        b.out = None /\ sock' = [sock EXCEPT ![t] = b]
  BY <1>1, Released
<1>5. Core(Put(call, c, y), [queue EXCEPT ![t] = q], [sock EXCEPT ![t] = b],
           IF t = "trading" THEN permits + 1 ELSE permits)
  BY <1>2, <1>4, CoreLeave DEF SessionInv
<1> QED BY <1>3, <1>4, <1>5

\* The lock is handed on by the call that talks.
LEMMA TailIs ==
  ASSUME SessionInv, NEW c \in Calls, call[c].at \in Talking, NEW t, t = SockOf(call[c].cmd)
  PROVE  /\ Lined(Tail(queue[t]), Behinds(call, t) \ {c})
         /\ Lined(Without(queue[t], c), Behinds(call, t) \ {c})
         /\ [queue EXCEPT ![t] = Tail(@)] = [queue EXCEPT ![t] = Tail(queue[t])]
         /\ [queue EXCEPT ![t] = Without(@, c)] = [queue EXCEPT ![t] = Without(queue[t], c)]
<1>1. /\ t \in Socks /\ queue \in [Socks -> Seq(Calls)]
      /\ Lined(queue[t], Behinds(call, t)) /\ HolderOf(queue[t]) = c
  BY StageFacts DEF SessionInv, Core, Line
<1>2. Lined(Tail(queue[t]), Behinds(call, t) \ {c})
  BY <1>1, LinedTail
<1>3. Lined(Without(queue[t], c), Behinds(call, t) \ {c})
  BY <1>1, LinedWithout
<1> QED BY <1>1, <1>2, <1>3

LEMMA ReceiveLeaves ==
  ASSUME SessionInv, NEW c \in Calls, call[c].at \in Talking, NEW res \in Results,
         call[c].cmd \in Effects =>
           /\ res = "ok" => call[c].done = 1
           /\ res \in {"throttled", "full", "mismatch"} => call[c].done = 0,
         Leave(c, res), Close(SockOf(call[c].cmd)) \/ Keep(SockOf(call[c].cmd))
  PROVE  Core(call', queue', sock', permits')
<1> DEFINE t == SockOf(call[c].cmd)
           n == call[c].done
           q == Tail(queue[t])
<1>1. n \in 0..1
  <2>1. Good(call[c])
    BY DEF SessionInv, Core
  <2>2. call[c].at # "idle"
    BY StageFacts
  <2> QED BY <2>1, <2>2, UnderWay
<1>2. /\ call' = [call EXCEPT ![c] = Ended(c, res, n)]
      /\ queue' = [queue EXCEPT ![t] = Tail(@)]
      /\ permits' = (IF t = "trading" THEN permits + 1 ELSE permits)
  BY DEF Leave
<1>3. Lined(q, Behinds(call, t) \ {c}) /\ queue' = [queue EXCEPT ![t] = q]
  BY <1>2, TailIs
<1> HIDE DEF q
<1> QED BY <1>1, <1>2, <1>3, LeaveKeeps

\* A result of a complete exchange is a result, and "ok" for an order or a change
\* only if the EA said so.
LEMMA OutcomeIs ==
  ASSUME NEW cmd \in Commands, NEW reply \in Replies
  PROVE  /\ Outcome(cmd, reply) \in {"ok", "error", "mismatch"}
         /\ cmd \in Effects => Outcome(cmd, reply) \in {"ok", "error"}
         /\ cmd = "change" /\ reply = "refused" => Outcome(cmd, reply) = "error"
<1>1. CASE cmd = "ORDER_SEND"
  BY <1>1 DEF Outcome, OrderOutcome
<1>2. CASE cmd = "change"
  BY <1>2 DEF Outcome, ChangeOutcome
<1>3. CASE cmd \notin Effects
  BY <1>3 DEF Outcome, Effects, OrderOutcome, ChangeOutcome, CandleOutcome, IdentityOutcome,
              HealthOutcome, TickOutcome, ReadOutcome, AssertFresh
<1> QED BY <1>1, <1>2, <1>3 DEF Effects

LEMMA ReceiveStep ==
  ASSUME SessionInv, NEW c \in Calls, Receive(c)
  PROVE  SessionInv'
<1> DEFINE x == call[c]
<1>1. /\ call \in [Calls -> Call] /\ Good(x) /\ x \in Call /\ x.cmd \in Commands
      /\ x.reply \in Replies /\ x.reply # None
  <2>1. call \in [Calls -> Call] /\ Good(x) /\ x.reply # None
    BY DEF SessionInv, Core, Line, Receive
  <2>2. x \in Call
    BY <2>1
  <2> QED BY <2>1, <2>2 DEF Call
<1>2. UNCHANGED <<tokens, ctx, left>> /\ verified \in BOOLEAN /\ checked \in BOOLEAN
  BY DEF Receive, SessionInv, Scalars
<1>3. x.at \in Talking
  BY DEF Receive, Pinged, Identified, Received, Repinged, Talking
<1>4. x.cmd \in Effects /\ (x.at \notin {"main", "retry"} \/ x.reply = "noauth") => x.done = 0
  BY <1>1, <1>3, StageFacts DEF Good, EffectKnown
<1>5. CASE Pinged(c)
  <2> DEFINE at == IF SockOf(x.cmd) = "trading" /\ ~verified
                      /\ x.cmd \notin {"EA_IDENTITY", "EA_CLOCK"} THEN "ident" ELSE "main"
  <2>1. /\ Send(c, at) /\ UNCHANGED <<sock, queue, permits>>
        /\ verified' = verified /\ checked' = checked /\ x.at = "ping"
    BY <1>5 DEF Pinged
  <2>2. at \in Talking /\ (at = "ident" => SockOf(x.cmd) = "trading")
    BY DEF Talking
  <2> HIDE DEF at
  <2>3. x.cmd \in Effects => x.done = 0
    BY <1>4, <2>1
  <2>4. Core(call', queue', sock', permits')
    BY <1>3, <2>1, <2>2, <2>3, SendKeeps
  <2> QED BY <1>2, <2>1, <2>4 DEF SessionInv, Scalars
<1>6. CASE Identified(c)
  <2>1. x.at = "ident" /\ (x.cmd \in Effects => x.done = 0)
    BY <1>4, <1>6 DEF Identified
  <2>2. CASE x.reply = "mismatch"
    <3>1. Close("trading") /\ verified' = FALSE /\ Leave(c, "mismatch") /\ checked' = checked
      BY <1>6, <2>2 DEF Identified
    <3>2. SockOf(x.cmd) = "trading"
      BY <1>1, <2>1 DEF Good
    <3>3. Core(call', queue', sock', permits')
      BY <1>3, <2>1, <3>1, <3>2, ReceiveLeaves DEF Results
    <3>4. verified' \in BOOLEAN
      BY <3>1
    <3> QED BY <1>2, <3>1, <3>3, <3>4 DEF SessionInv, Scalars
  <2>3. CASE x.reply # "mismatch"
    <3>1. Send(c, "main") /\ UNCHANGED <<sock, queue, permits>>
      BY <1>6, <2>3 DEF Identified
    <3>2. verified' = (x.reply = "match") /\ checked' = TRUE
      BY <1>6, <2>3 DEF Identified
    <3>3. "main" \in Talking
      BY DEF Talking
    <3>4. Core(call', queue', sock', permits')
      BY <1>3, <2>1, <3>1, <3>3, SendKeeps
    <3>5. verified' \in BOOLEAN /\ checked' \in BOOLEAN
      BY <3>2
    <3> QED BY <1>2, <3>4, <3>5 DEF SessionInv, Scalars
  <2> QED BY <2>2, <2>3
<1>7. CASE Received(c)
  <2>1. CASE x.reply = "noauth" /\ x.at = "main"
    <3>1. /\ Send(c, "reping") /\ UNCHANGED <<sock, queue, permits>>
          /\ verified' = verified /\ checked' = checked
      BY <1>7, <2>1 DEF Received
    <3>2. "reping" \in Talking /\ (x.cmd \in Effects => x.done = 0)
      BY <1>4, <2>1 DEF Talking
    <3>3. Core(call', queue', sock', permits')
      BY <1>3, <3>1, <3>2, SendKeeps
    <3> QED BY <1>2, <3>1, <3>3 DEF SessionInv, Scalars
  <2>2. CASE ~(x.reply = "noauth" /\ x.at = "main")
    <3> DEFINE res == IF x.reply \in {"error", "noauth"} THEN "error" ELSE Outcome(x.cmd, x.reply)
    <3>1. Keep(SockOf(x.cmd)) /\ Leave(c, res)
      BY <1>7, <2>2 DEF Received
    <3>2. verified' = (verified \/ x.reply = "match") /\ checked' = (checked \/ x.reply = "match")
      BY <1>7, <2>2 DEF Received
    <3>3. /\ res \in {"ok", "error", "mismatch"}
          /\ x.cmd \in Effects => res \in {"ok", "error"}
          /\ x.cmd \in Effects /\ res = "ok" =>
               x.reply \notin {"error", "noauth"} /\ ~(x.cmd = "change" /\ x.reply = "refused")
      BY <1>1, OutcomeIs
    <3> HIDE DEF res
    <3>4. x.cmd \in Effects /\ res = "ok" => x.done = 1
      <4>1. x.at \in {"main", "retry"}
        BY <1>7 DEF Received
      <4> QED BY <1>1, <3>3, <4>1 DEF Good, EffectKnown, Effects
    <3>5. res \in Results
      BY <3>3 DEF Results
    <3>6. Core(call', queue', sock', permits')
      BY <1>3, <3>1, <3>3, <3>4, <3>5, ReceiveLeaves
    <3>7. verified' \in BOOLEAN /\ checked' \in BOOLEAN
      BY <3>2
    <3> QED BY <1>2, <3>6, <3>7 DEF SessionInv, Scalars
  <2> QED BY <2>1, <2>2
<1>8. CASE Repinged(c)
  <2>1. x.at = "reping" /\ (x.cmd \in Effects => x.done = 0)
        /\ verified' = verified /\ checked' = checked
    BY <1>4, <1>8 DEF Repinged
  <2>2. CASE x.reply = "ok"
    <3>1. Send(c, "retry") /\ UNCHANGED <<sock, queue, permits>>
      BY <1>8, <2>2 DEF Repinged
    <3>2. "retry" \in Talking
      BY DEF Talking
    <3>3. Core(call', queue', sock', permits')
      BY <1>3, <2>1, <3>1, <3>2, SendKeeps
    <3> QED BY <1>2, <2>1, <3>3 DEF SessionInv, Scalars
  <2>3. CASE x.reply # "ok"
    <3>1. Keep(SockOf(x.cmd)) /\ Leave(c, "error")
      BY <1>8, <2>3 DEF Repinged
    <3>2. Core(call', queue', sock', permits')
      BY <1>3, <3>1, ReceiveLeaves DEF Results
    <3> QED BY <1>2, <2>1, <3>2 DEF SessionInv, Scalars
  <2> QED BY <2>2, <2>3
<1> QED BY <1>5, <1>6, <1>7, <1>8 DEF Receive

\* A message that the EA handles late takes effect at most once.
LEMMA LateIs ==
  ASSUME SessionInv, NEW c \in Calls, call[c].at \in Talking, NEW n \in Late(c)
  PROVE  n \in 0..1
<1>1. Good(call[c]) /\ call[c].at # "idle"
  BY StageFacts DEF SessionInv, Core
<1>2. call[c].done \in 0..1 /\ (call[c].reply = None => call[c].done = 0)
  BY <1>1, UnderWay
<1> QED BY SMTT(30), <1>2 DEF Late

LEMMA TimeoutStep ==
  ASSUME SessionInv, NEW c \in Calls, Timeout(c)
  PROVE  SessionInv'
<1> DEFINE t == SockOf(call[c].cmd)
           q == Tail(queue[t])
<1>1. /\ call[c].at \in Talking /\ Close(t)
      /\ queue' = [queue EXCEPT ![t] = Tail(@)]
      /\ permits' = (IF t = "trading" THEN permits + 1 ELSE permits)
  BY DEF Timeout
<1>2. PICK n \in Late(c) : call' = [call EXCEPT ![c] = Ended(c, "timeout", n)]
  BY DEF Timeout
<1>3. n \in 0..1
  BY <1>1, LateIs
<1>4. Lined(q, Behinds(call, t) \ {c}) /\ queue' = [queue EXCEPT ![t] = q]
  BY <1>1, TailIs
<1> HIDE DEF q
<1>5. "timeout" \in Results
  BY DEF Results
<1>6. Core(call', queue', sock', permits')
  BY <1>1, <1>2, <1>3, <1>4, <1>5, LeaveKeeps
<1>7. Scalars'
  <2>1. verified' = (t # "trading" /\ verified) /\ UNCHANGED <<tokens, ctx, checked, left>>
    BY DEF Timeout
  <2>2. verified' \in BOOLEAN
    BY <2>1
  <2> QED BY <2>1, <2>2 DEF SessionInv, Scalars
<1> QED BY <1>6, <1>7 DEF SessionInv

LEMMA CancelStep ==
  ASSUME SessionInv, NEW c \in Calls, Cancel(c)
  PROVE  SessionInv'
<1> DEFINE x == call[c]
           t == SockOf(x.cmd)
<1>1. /\ call \in [Calls -> Call] /\ Good(x) /\ t \in Socks
      /\ Lined(queue[t], Behinds(call, t)) /\ queue \in [Socks -> Seq(Calls)]
  BY StageFacts DEF SessionInv, Core, Line
<1>2. PICK n \in IF x.at \in Talking THEN Late(c) ELSE {x.done} :
        call' = [call EXCEPT ![c] = Ended(c, "cancelled", n)]
  BY DEF Cancel
<1>3. /\ queue' = [queue EXCEPT ![t] = Without(@, c)]
      /\ permits' = IF t = "trading" /\ x.at \in Behind THEN permits + 1 ELSE permits
      /\ x.at # "idle"
      /\ IF x.at \in Talking THEN Close(t) ELSE sock' = sock
  BY DEF Cancel, Behind
<1>4. n \in 0..1 /\ "cancelled" \in Results
  <2>1. "cancelled" \in Results
    BY DEF Results
  <2>2. CASE x.at \in Talking
    BY <1>2, <2>1, <2>2, LateIs
  <2>3. CASE x.at \notin Talking
    <3>1. Good(x) /\ x.at # "idle"
      BY <1>1, <1>3
    <3>2. x.done = 0
      BY <2>3, <3>1, UnderWay
    <3> QED BY SMTT(30), <1>2, <2>1, <2>3, <3>2
  <2> QED BY <2>2, <2>3
<1>5. Core(call', queue', sock', permits')
  <2> DEFINE y == Ended(c, "cancelled", n)
  <2>1. Good(y) /\ y.at = "idle"
    BY <1>1, <1>4, EndedIs
  <2>2. call' = Put(call, c, y)
    BY <1>2 DEF Put
  <2> HIDE DEF y
  <2>3. CASE x.at \in Talking
    <3> DEFINE q == Without(queue[t], c)
    <3>1. Lined(q, Behinds(call, t) \ {c}) /\ queue' = [queue EXCEPT ![t] = q]
      BY <1>3, <2>3, TailIs
    <3> HIDE DEF q
    <3>2. Close(t) /\ permits' = (IF t = "trading" THEN permits + 1 ELSE permits)
      BY <1>3, <2>3, StageFacts
    <3> QED BY <1>2, <1>4, <2>3, <3>1, <3>2, LeaveKeeps
  <2>4. CASE x.at = "lock"
    <3>1. sock' = sock /\ permits' = (IF t = "trading" THEN permits + 1 ELSE permits)
      BY <1>3, <2>4, StageFacts
    <3>2. Core(Put(call, c, y), [queue EXCEPT ![t] = Without(@, c)], sock,
               IF t = "trading" THEN permits + 1 ELSE permits)
      BY <2>1, <2>4, CoreQuit DEF SessionInv
    <3> QED BY <1>3, <2>2, <3>1, <3>2
  <2>5. CASE x.at \notin Behind
    <3>1. sock' = sock /\ permits' = permits
      BY <1>3, <2>5, StageFacts
    <3>2. Without(queue[t], c) = queue[t]
      <4>1. c \notin Behinds(call, t)
        BY <2>5 DEF Behinds
      <4> QED BY <1>1, <4>1, LinedWithout
    <3>3. queue' = queue
      BY <1>1, <1>3, <3>2
    <3>4. y \in Call /\ y.at \notin Behind
      BY <2>1, StageFacts DEF Good
    <3>5. Line(call, queue, sock) /\ Gate(call, permits) /\ \A d \in Calls : Good(call[d])
      BY DEF SessionInv, Core
    <3>6. Line(Put(call, c, y), queue, sock)
      BY <2>5, <3>4, <3>5, LineOutside
    <3>7. Gate(Put(call, c, y), permits)
      BY <1>1, <2>5, <3>4, <3>5, GateSame
    <3>8. \A d \in Calls : Good(Put(call, c, y)[d])
      BY <1>1, <2>1, <3>5, PutGood
    <3>9. Core(Put(call, c, y), queue, sock, permits)
      BY <3>6, <3>7, <3>8 DEF Core
    <3> QED BY <2>2, <3>1, <3>3, <3>9
  <2> QED BY <2>3, <2>4, <2>5 DEF Behind
<1>6. Scalars'
  <2>1. UNCHANGED <<verified, tokens, ctx, checked>> /\ left > 0 /\ left' = left - 1
    BY DEF Cancel
  <2>2. left' \in 0..MaxTroubles
    BY SMTT(30), <2>1, BoundsAssumption DEF SessionInv, Scalars
  <2> QED BY <2>1, <2>2 DEF SessionInv, Scalars
<1> QED BY <1>5, <1>6 DEF SessionInv

LEMMA ShutdownStep ==
  ASSUME SessionInv, ShutdownTrading \/ ShutdownCandles
  PROVE  SessionInv'
<1>1. PICK t \in Socks : queue[t] = <<>> /\ Close(t)
  BY DEF ShutdownTrading, ShutdownCandles, Socks
<1>2. UNCHANGED <<call, queue, verified, permits, tokens, checked, left>>
  BY DEF ShutdownTrading, ShutdownCandles
<1>3. Line(call, queue, [sock EXCEPT ![t] = [init |-> FALSE, out |-> None]])
  BY <1>1, LineClose DEF SessionInv, Core
<1>4. sock' = [sock EXCEPT ![t] = [init |-> FALSE, out |-> None]]
  BY <1>1 DEF Close
<1>5. Line(call', queue', sock')
  BY <1>2, <1>3, <1>4
<1>6. Core(call', queue', sock', permits')
  BY <1>2, <1>5 DEF SessionInv, Core
<1>7. ctx' \in {"open", "closing", "closed", "stuck"}
  BY DEF ShutdownTrading, ShutdownCandles
<1> QED BY <1>2, <1>6, <1>7 DEF SessionInv, Scalars

LEMMA EaStep ==
  ASSUME SessionInv, EaStarts \/ EaTrouble
  PROVE  SessionInv'
<1>1. UNCHANGED <<call, sock, queue, verified, permits, tokens, ctx, checked>>
  BY DEF EaStarts, EaTrouble
<1>2. left' = left \/ (left > 0 /\ left' = left - 1)
  BY DEF EaStarts, EaTrouble
<1>3. left' \in 0..MaxTroubles
  BY SMTT(30), <1>2, BoundsAssumption DEF SessionInv, Scalars
<1>4. Core(call', queue', sock', permits')
  BY <1>1 DEF SessionInv
<1> QED BY <1>1, <1>3, <1>4 DEF SessionInv, Scalars

LEMMA StepHolds == SessionInv /\ [Next]_vars => SessionInv'
<1> SUFFICES ASSUME SessionInv, [Next]_vars PROVE SessionInv'
  OBVIOUS
<1>1. ASSUME NEW c \in Calls, Step(c) PROVE SessionInv'
  BY <1>1, AcquireStep, EnterGateStep, ConnectStep, ReceiveStep, TimeoutStep DEF Step
<1>2. ASSUME NEW c \in Calls, Cancel(c) PROVE SessionInv'
  BY <1>2, CancelStep
<1>3. ASSUME NEW c \in Calls, NEW cmd \in CommandsOf[c], Request(c, cmd) PROVE SessionInv'
  BY <1>3, RequestStep
<1>4. ASSUME NEW c \in Calls, EaHandles(c) PROVE SessionInv'
  BY <1>4, EaHandlesStep
<1>5. CASE Shutdown
  BY <1>5, ShutdownStep DEF Shutdown
<1>6. CASE EaStarts \/ EaTrouble
  BY <1>6, EaStep
<1>7. CASE UNCHANGED vars
  <2>1. UNCHANGED <<call, sock, queue, verified, permits, tokens, ctx, checked, left>>
    BY <1>7 DEF vars
  <2> QED BY <2>1 DEF SessionInv, Scalars
<1> QED BY <1>1, <1>2, <1>3, <1>4, <1>5, <1>6, <1>7 DEF Next

-----------------------------------------------------------------------------

INSTANCE FiniteSetTheorems

LEMMA Counted == Counting
<1>1. Cardinality({}) = 0
  BY FS_EmptySet
<1>2. ASSUME NEW S \in SUBSET Calls, NEW c \in Calls
      PROVE  /\ Cardinality(S) \in Nat
             /\ c \notin S => Cardinality(S \cup {c}) = Cardinality(S) + 1
             /\ c \in S => Cardinality(S \ {c}) = Cardinality(S) - 1
  <2>1. IsFiniteSet(S)
    BY CallsAssumption, FS_Subset
  <2>2. Cardinality(S) \in Nat
    BY <2>1, FS_CardinalityType
  <2>3. c \notin S => Cardinality(S \cup {c}) = Cardinality(S) + 1
    BY <2>1, FS_AddElement
  <2>4. c \in S => Cardinality(S \ {c}) = Cardinality(S) - 1
    BY <2>1, FS_RemoveElement
  <2> QED BY <2>2, <2>3, <2>4
<1> QED BY <1>1, <1>2 DEF Counting

LEMMA SessionInvHolds == Spec => []SessionInv
<1>1. Init => SessionInv
  BY Counted, InitHolds
<1> QED BY <1>1, StepHolds, PTL DEF Spec

\* The type invariant of the client: calls, sockets, queues, the gate's permits
\* and the bucket's tokens stay within their sets (ZmqClient).
THEOREM SessionTypes == Spec => []TypeOK
<1>1. SessionInv => TypeOK
  <2> SUFFICES ASSUME SessionInv PROVE TypeOK
    OBVIOUS
  <2>1. permits \in 0..MaxInflight
    <3>1. permits \in Nat /\ permits + Cardinality(Behinds(call, "trading")) = MaxInflight
      BY DEF SessionInv, Core, Gate
    <3>2. Behinds(call, "trading") \subseteq Calls
      BY DEF Behinds
    <3>3. Cardinality(Behinds(call, "trading")) \in Nat
      BY <3>2, CallsAssumption, FS_Subset, FS_CardinalityType
    <3> QED BY SMTT(30), <3>1, <3>3, BoundsAssumption
  <2>2. \A s \in Socks : \A i \in 1..Len(queue[s]) : queue[s][i] \in Calls
    BY SMTT(30) DEF SessionInv, Core, Line, Lined
  <2>3. /\ call \in [Calls -> Call]
        /\ sock \in [Socks -> [init : BOOLEAN, out : Calls \cup {None}]]
    BY DEF SessionInv, Core, Line
  <2> QED BY <2>1, <2>2, <2>3 DEF SessionInv, Scalars, TypeOK
<1> QED BY <1>1, SessionInvHolds, PTL

\* No socket is left waiting for a reply nobody receives, whatever timeouts,
\* cancellations and restarts came before: a socket with a message out belongs to
\* the holder of its lock, who waits for the reply (_request_inner,
\* _request_candles, and the destroy on every error path).
THEOREM SocketsSound == Spec => []NoPoisonedSocket
<1>1. SessionInv => NoPoisonedSocket
  <2> SUFFICES ASSUME SessionInv, NEW s \in Socks, sock[s].out # None
               PROVE  sock[s].init /\ sock[s].out = Holder(s) /\ call[sock[s].out].at \in Talking
    BY DEF NoPoisonedSocket
  <2>1. /\ sock[s].out \in Calls /\ call[sock[s].out].at \in Talking
        /\ SockOf(call[sock[s].out].cmd) = s
    BY DEF SessionInv, Core, Line
  <2>2. HolderOf(queue[s]) = sock[s].out /\ sock[s].init
    BY <2>1 DEF SessionInv, Core, Line
  <2> QED BY <2>1, <2>2 DEF Holder, HolderOf
<1> QED BY <1>1, SessionInvHolds, PTL

\* A permit of the in-flight gate is given back exactly once on every way out of
\* _request: the gate lacks one for each trading call behind it, no more, no less.
THEOREM GateKept == Spec => []GateConserved
<1>1. SessionInv => GateConserved
  BY DEF SessionInv, Core, Gate, Behinds, Behind, GateConserved
<1> QED BY <1>1, SessionInvHolds, PTL

\* The retry after "Not authenticated" never repeats an effect, success is
\* reported only of an order or a change that took effect, and one that was
\* throttled, found the gate full or met the wrong account had none (place_order,
\* cancel_order, modify_position, close_position).
THEOREM EffectsOnce == Spec => []EffectOnce
<1>1. SessionInv => EffectOnce
  <2> SUFFICES ASSUME SessionInv, NEW c \in Calls, call[c].cmd \in Effects
               PROVE  /\ call[c].done <= 1
                      /\ call[c].res = "ok" => call[c].done = 1
                      /\ call[c].res \in {"throttled", "full", "mismatch"} => call[c].done = 0
    BY DEF EffectOnce
  <2>1. Good(call[c])
    BY DEF SessionInv, Core
  <2> QED BY SMTT(30), <2>1 DEF Good, EffectKnown, None
<1> QED BY <1>1, SessionInvHolds, PTL
=============================================================================
