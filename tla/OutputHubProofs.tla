--------------------------- MODULE OutputHubProofs ---------------------------
(***************************************************************************)
(* One session's byte stream, proved for any number of connections, any    *)
(* ring, queue and screen sizes and any schedule of the drain, the         *)
(* handlers and the clients: no byte is missed or repeated between a       *)
(* replay and the live stream, nobody attached waits on a stream that has  *)
(* ended, the exit comes after the last byte, and a repair that found no   *)
(* room stays owed (HubInv).                                               *)
(***************************************************************************)
EXTENDS OutputHub, TLAPS

Queues == Seq(Frames)
Views == [to : Nat, paint : Nat, end : {"none"} \cup Endings]

-----------------------------------------------------------------------------
(* Queues: a frame is appended, or the first one is received.               *)

\* The frames of a longer queue.
LEMMA Appended ==
    ASSUME NEW q \in Queues, NEW f \in Frames
    PROVE  /\ Append(q, f) \in Queues /\ Len(Append(q, f)) = Len(q) + 1 /\ Len(q) \in Nat
           /\ \A i \in 1 .. Len(q) : Append(q, f)[i] = q[i]
           /\ Append(q, f)[Len(q) + 1] = f
  BY DEF Queues

\* The frames of a shorter queue.
LEMMA Received ==
    ASSUME NEW q \in Queues, q # <<>>
    PROVE  /\ Tail(q) \in Queues /\ Len(Tail(q)) = Len(q) - 1 /\ Len(q) \in Nat \ {0}
           /\ Head(q) = q[1] /\ q[1] \in Frames
           /\ \A i \in 1 .. Len(q) - 1 : Tail(q)[i] = q[i + 1]
  BY DEF Queues

\* What the client knows after a frame.
LEMMA SeenIs ==
    ASSUME NEW v \in Views, NEW f \in Frames
    PROVE  /\ Seen(v, f) \in Views
           /\ Streamed(f) => Seen(v, f).to = f.to
           /\ ~ Streamed(f) => Seen(v, f).to = v.to
           /\ f.kind \in Endings => Seen(v, f).end = f.kind
           /\ f.kind \notin Endings \cup {"replay"} => Seen(v, f).end = v.end
           /\ f.kind = "replay" => Seen(v, f).paint = f.paint
           /\ f.kind = "output" =>
                 Seen(v, f).paint = IF f.paint > v.paint THEN f.paint ELSE v.paint
           /\ ~ Streamed(f) => Seen(v, f).paint = v.paint
  <1>1. CASE f.kind = "replay"
    BY <1>1 DEF Seen, Views, Frames, Streamed, Endings
  <1>2. CASE f.kind = "output"
    <2> DEFINE p == IF f.paint > v.paint THEN f.paint ELSE v.paint
               e == [v EXCEPT !.to = f.to, !.paint = p]
    <2>1. p \in Nat /\ f.to \in Nat
      BY DEF Frames, Views
    <2>2. Seen(v, f) = e
      BY <1>2 DEF Seen, Views, Endings
    <2> HIDE DEF p
    <2>3. e \in Views /\ e.to = f.to /\ e.paint = p /\ e.end = v.end
      BY <2>1 DEF Views
    <2> QED
      BY <1>2, <2>2, <2>3 DEF Streamed, Endings, p
  <1>3. CASE f.kind \in Endings
    BY <1>3 DEF Seen, Views, Frames, Streamed, Endings
  <1>4. CASE f.kind = "other"
    BY <1>4 DEF Seen, Views, Frames, Streamed, Endings
  <1> QED
    BY <1>1, <1>2, <1>3, <1>4 DEF Frames

\* A frame further back does not change what came before.
LEMMA ReachesSame ==
    ASSUME NEW q \in Queues, NEW f \in Frames, NEW v, NEW x, NEW n \in 0 .. Len(q),
           Reaches(q, v, n, x)
    PROVE  Reaches(Append(q, f), v, n, x)
  <1> DEFINE r == Append(q, f)
  <1>1. \A i \in 1 .. n : r[i] = q[i]
    BY Appended
  <1> HIDE DEF r
  <1>2. ASSUME NEW i \in 1 .. n, Streamed(q[i]), q[i].to = x,
               \A m \in i + 1 .. n : ~ Streamed(q[m])
        PROVE  Reaches(r, v, n, x)
    <2>1. Streamed(r[i]) /\ r[i].to = x
      BY <1>1, <1>2
    <2>2. \A m \in i + 1 .. n : ~ Streamed(r[m])
      BY <1>1, <1>2
    <2> QED
      BY <2>1, <2>2 DEF Reaches
  <1>3. ASSUME v.to = x, \A m \in 1 .. n : ~ Streamed(q[m])
        PROVE  Reaches(r, v, n, x)
    BY <1>1, <1>3 DEF Reaches
  <1>4. Reaches(r, v, n, x)
    BY <1>2, <1>3 DEF Reaches
  <1> QED
    BY <1>4 DEF r

\* How far the stream reaches with one more frame.
LEMMA ReachesAppend ==
    ASSUME NEW q \in Queues, NEW f \in Frames, NEW v
    PROVE  /\ Streamed(f) => Reaches(Append(q, f), v, Len(q) + 1, f.to)
           /\ \A x : ~ Streamed(f) /\ Reaches(q, v, Len(q), x) =>
                 Reaches(Append(q, f), v, Len(q) + 1, x)
  <1> DEFINE r == Append(q, f)
             n == Len(q)
  <1>1. n \in Nat /\ r[n + 1] = f /\ \A i \in 1 .. n : r[i] = q[i]
    BY Appended
  <1> HIDE DEF r, n
  <1>2. Streamed(f) => Reaches(r, v, n + 1, f.to)
    <2>1. n + 1 \in 1 .. n + 1 /\ \A m \in (n + 1) + 1 .. n + 1 : FALSE
      BY <1>1
    <2> QED
      BY <1>1, <2>1 DEF Reaches
  <1>3. ASSUME NEW x, ~ Streamed(f), Reaches(q, v, n, x)
        PROVE  Reaches(r, v, n + 1, x)
    <2>1. \A m \in 1 .. n + 1 : m \in 1 .. n \/ m = n + 1
      BY <1>1
    <2>2. ASSUME NEW i \in 1 .. n, Streamed(q[i]), q[i].to = x,
                 \A m \in i + 1 .. n : ~ Streamed(q[m])
          PROVE  Reaches(r, v, n + 1, x)
      <3>1. i \in 1 .. n + 1 /\ Streamed(r[i]) /\ r[i].to = x
        BY <1>1, <2>2
      <3>2. \A m \in i + 1 .. n + 1 : ~ Streamed(r[m])
        BY <1>1, <1>3, <2>2
      <3> QED
        BY <3>1, <3>2 DEF Reaches
    <2>3. ASSUME v.to = x, \A m \in 1 .. n : ~ Streamed(q[m])
          PROVE  Reaches(r, v, n + 1, x)
      <3>1. \A m \in 1 .. n + 1 : ~ Streamed(r[m])
        BY <1>1, <1>3, <2>1, <2>3
      <3> QED
        BY <2>3, <3>1 DEF Reaches
    <2> QED
      BY <1>3, <2>2, <2>3 DEF Reaches
  <1> QED
    BY <1>2, <1>3 DEF r, n

\* Receiving a frame leaves the stream reaching as far.
LEMMA ReachesTail ==
    ASSUME NEW q \in Queues, q # <<>>, NEW v \in Views, NEW x, NEW n \in 1 .. Len(q),
           Reaches(q, v, n, x)
    PROVE  Reaches(Tail(q), Seen(v, Head(q)), n - 1, x)
  <1> DEFINE r == Tail(q)
             u == Seen(v, Head(q))
  <1>1. /\ Len(q) \in Nat \ {0} /\ \A i \in 1 .. Len(q) - 1 : r[i] = q[i + 1]
        /\ Head(q) = q[1] /\ q[1] \in Frames
    BY Received
  <1>2. /\ Streamed(q[1]) => u.to = q[1].to
        /\ ~ Streamed(q[1]) => u.to = v.to
    BY <1>1, SeenIs
  <1> HIDE DEF r, u
  <1>3. ASSUME NEW i \in 1 .. n, Streamed(q[i]), q[i].to = x,
               \A m \in i + 1 .. n : ~ Streamed(q[m])
        PROVE  Reaches(r, u, n - 1, x)
    <2>1. \A m \in i .. n - 1 : m >= 1 => ~ Streamed(r[m])
      BY <1>1, <1>3
    <2>2. CASE i = 1
      <3>1. u.to = x /\ \A m \in 1 .. n - 1 : ~ Streamed(r[m])
        BY <1>2, <1>3, <2>1, <2>2
      <3> QED
        BY <3>1 DEF Reaches
    <2>3. CASE i # 1
      <3>1. i - 1 \in 1 .. n - 1 /\ r[i - 1] = q[i]
        BY <1>1, <2>3
      <3>2. \A m \in (i - 1) + 1 .. n - 1 : ~ Streamed(r[m])
        BY <2>1
      <3> QED
        BY <1>3, <3>1, <3>2 DEF Reaches
    <2> QED
      BY <2>2, <2>3
  <1>4. ASSUME v.to = x, \A m \in 1 .. n : ~ Streamed(q[m])
        PROVE  Reaches(r, u, n - 1, x)
    <2>1. ~ Streamed(q[1]) /\ \A m \in 1 .. n - 1 : ~ Streamed(r[m])
      BY <1>1, <1>4
    <2> QED
      BY <1>2, <1>4, <2>1 DEF Reaches
  <1>5. Reaches(r, u, n - 1, x)
    BY <1>3, <1>4 DEF Reaches
  <1> QED
    BY <1>5 DEF r, u

\* Every live frame of a queue goes on where the frame before it ended.
Chained(q, v) ==
    \A i \in 1 .. Len(q) : q[i].kind = "output" => Reaches(q, v, i - 1, q[i].from)

\* A frame that is not of the live stream, or that goes on where it ends.
LEMMA ChainedAppend ==
    ASSUME NEW q \in Queues, NEW f \in Frames, NEW v, Chained(q, v),
           f.kind = "output" => Reaches(q, v, Len(q), f.from)
    PROVE  Chained(Append(q, f), v)
  <1> DEFINE r == Append(q, f)
  <1>1. /\ Len(r) = Len(q) + 1 /\ Len(q) \in Nat /\ r[Len(q) + 1] = f
        /\ \A i \in 1 .. Len(q) : r[i] = q[i]
    BY Appended
  <1>2. \A x : \A n \in 0 .. Len(q) : Reaches(q, v, n, x) => Reaches(r, v, n, x)
    BY ReachesSame
  <1> HIDE DEF r
  <1>3. ASSUME NEW i \in 1 .. Len(r), r[i].kind = "output"
        PROVE  Reaches(r, v, i - 1, r[i].from)
    <2>1. CASE i = Len(q) + 1
      <3>1. i - 1 = Len(q) /\ Len(q) \in 0 .. Len(q) /\ r[i] = f
        BY <1>1, <2>1
      <3> QED
        BY <1>2, <1>3, <3>1
    <2>2. CASE i # Len(q) + 1
      <3>1. i \in 1 .. Len(q) /\ i - 1 \in 0 .. Len(q) /\ r[i] = q[i]
        BY <1>1, <2>2
      <3> QED
        BY <1>2, <1>3, <3>1 DEF Chained
    <2> QED
      BY <2>1, <2>2
  <1>4. Chained(r, v)
    BY <1>3 DEF Chained
  <1> QED
    BY <1>4 DEF r

\* The rest of a queue goes on where the client has got to.
LEMMA ChainedTail ==
    ASSUME NEW q \in Queues, q # <<>>, NEW v \in Views, Chained(q, v)
    PROVE  Chained(Tail(q), Seen(v, Head(q)))
  <1> DEFINE r == Tail(q)
             u == Seen(v, Head(q))
  <1>1. /\ Len(q) \in Nat \ {0} /\ \A i \in 1 .. Len(q) - 1 : r[i] = q[i + 1]
        /\ Len(r) = Len(q) - 1
    BY Received
  <1>2. \A x : \A n \in 1 .. Len(q) : Reaches(q, v, n, x) => Reaches(r, u, n - 1, x)
    BY ReachesTail
  <1> HIDE DEF r, u
  <1>3. ASSUME NEW i \in 1 .. Len(r), r[i].kind = "output"
        PROVE  Reaches(r, u, i - 1, r[i].from)
    <2>1. i \in 1 .. Len(q) /\ i + 1 \in 1 .. Len(q) /\ r[i] = q[i + 1] /\ (i + 1) - 1 = i
      BY <1>1
    <2>2. Reaches(q, v, i, q[i + 1].from)
      BY <1>3, <2>1 DEF Chained
    <2> QED
      BY <1>2, <2>1, <2>2
  <1>4. Chained(r, u)
    BY <1>3 DEF Chained
  <1> QED
    BY <1>4 DEF r, u

\* Only a replay puts a frame behind the ending.
LEMMA EndedAppend ==
    ASSUME NEW q \in Queues, NEW f \in Frames, NEW v,
           f.kind \in Endings \/ (f.kind # "replay" /\ Ended(q, v))
    PROVE  Ended(Append(q, f), v)
  <1> DEFINE r == Append(q, f)
             n == Len(q)
  <1>1. Len(r) = n + 1 /\ n \in Nat /\ r[n + 1] = f /\ \A i \in 1 .. n : r[i] = q[i]
    BY Appended
  <1>e. "replay" \notin Endings
    BY DEF Endings
  <1> HIDE DEF r
  <1>2. CASE f.kind \in Endings
    <2>1. n + 1 \in 1 .. Len(r) /\ r[n + 1].kind \in Endings
      BY <1>1, <1>2
    <2>2. \A j \in 1 .. Len(r) : r[j].kind = "replay" => j < n + 1
      BY <1>1, <1>2, <1>e
    <2> QED
      BY <2>1, <2>2 DEF Ended, r
  <1>3. CASE f.kind # "replay" /\ Ended(q, v)
    <2>1. \A j \in 1 .. Len(r) : r[j].kind = "replay" => j \in 1 .. n /\ q[j].kind = "replay"
      BY <1>1, <1>3
    <2>2. ASSUME NEW i \in 1 .. n, q[i].kind \in Endings,
                 \A j \in 1 .. n : q[j].kind = "replay" => j < i
          PROVE  Ended(r, v)
      <3>1. i \in 1 .. Len(r) /\ r[i].kind \in Endings
        BY <1>1, <2>2
      <3> QED
        BY <2>1, <2>2, <3>1 DEF Ended
    <2>3. ASSUME v.end # "none", \A j \in 1 .. n : q[j].kind # "replay"
          PROVE  Ended(r, v)
      BY <2>1, <2>3 DEF Ended
    <2>4. Ended(r, v)
      BY <1>3, <2>2, <2>3 DEF Ended, n
    <2> QED
      BY <2>4 DEF r
  <1> QED
    BY <1>2, <1>3

\* Receiving frames in order never loses the ending.
LEMMA EndedTail ==
    ASSUME NEW q \in Queues, q # <<>>, NEW v \in Views, Ended(q, v)
    PROVE  Ended(Tail(q), Seen(v, Head(q)))
  <1> DEFINE r == Tail(q)
             u == Seen(v, Head(q))
             n == Len(q)
  <1>1. /\ n \in Nat \ {0} /\ \A i \in 1 .. n - 1 : r[i] = q[i + 1]
        /\ Len(r) = n - 1 /\ Head(q) = q[1] /\ q[1] \in Frames
    BY Received
  <1>2. /\ q[1].kind \in Endings => u.end = q[1].kind
        /\ q[1].kind \notin Endings \cup {"replay"} => u.end = v.end
    BY <1>1, SeenIs
  <1>e. "none" \notin Endings /\ "replay" \notin Endings
    BY DEF Endings
  <1>3. \A j \in 1 .. Len(r) : r[j].kind = "replay" => j + 1 \in 1 .. n /\ q[j + 1].kind = "replay"
    BY <1>1
  <1> HIDE DEF r, u, n
  <1>4. ASSUME NEW i \in 1 .. n, q[i].kind \in Endings,
               \A j \in 1 .. n : q[j].kind = "replay" => j < i
        PROVE  Ended(r, u)
    <2>1. \A j \in 1 .. Len(r) : r[j].kind = "replay" => j < i - 1
      BY <1>1, <1>3, <1>4
    <2>2. CASE i = 1
      <3>1. u.end # "none" /\ \A j \in 1 .. Len(r) : r[j].kind # "replay"
        BY <1>1, <1>2, <1>4, <1>e, <2>1, <2>2
      <3> QED
        BY <3>1 DEF Ended
    <2>3. CASE i # 1
      <3>1. i - 1 \in 1 .. Len(r) /\ r[i - 1].kind \in Endings
        BY <1>1, <1>4, <2>3
      <3> QED
        BY <2>1, <3>1 DEF Ended
    <2> QED
      BY <2>2, <2>3
  <1>5. ASSUME v.end # "none", \A j \in 1 .. n : q[j].kind # "replay"
        PROVE  Ended(r, u)
    <2>1. u.end # "none"
      BY <1>1, <1>2, <1>5, <1>e
    <2>2. \A j \in 1 .. Len(r) : r[j].kind # "replay"
      BY <1>3, <1>5
    <2> QED
      BY <2>1, <2>2 DEF Ended
  <1>6. Ended(r, u)
    BY <1>4, <1>5 DEF Ended, n
  <1> QED
    BY <1>6 DEF r, u

\* The repaints of a longer queue.
LEMMA PaintsAppend ==
    ASSUME NEW q \in Queues, NEW f \in Frames, NEW v
    PROVE  /\ ~ Streamed(f) => Paints(Append(q, f), v) = Paints(q, v)
           /\ f.kind = "output" => Paints(Append(q, f), v) = Paints(q, v) \cup {f.paint}
           /\ f.kind = "replay" => Paints(Append(q, f), v) = {f.paint}
  <1> DEFINE r == Append(q, f)
             n == Len(q)
             R(s) == {i \in 1 .. Len(s) : s[i].kind = "replay"}
  <1>1. Len(r) = n + 1 /\ n \in Nat /\ r[n + 1] = f /\ \A i \in 1 .. n : r[i] = q[i]
    BY Appended
  <1>2. \A i \in 1 .. n + 1 : i \in 1 .. n \/ i = n + 1
    BY <1>1
  <1>r. R(r) = R(q) \cup (IF f.kind = "replay" THEN {n + 1} ELSE {})
    BY <1>1, <1>2
  <1> HIDE DEF r
  <1>3. CASE f.kind # "replay"
    <2>1. R(r) = R(q)
      BY <1>3, <1>r
    <2>2. \A j \in R(q) : j <= n + 1
      BY <1>1
    <2>3. {r[i].paint : i \in {m \in 1 .. Len(r) : Streamed(r[m]) /\ \A j \in R(r) : j <= m}}
            = {q[i].paint : i \in {m \in 1 .. n : Streamed(q[m]) /\ \A j \in R(q) : j <= m}}
              \cup (IF Streamed(f) THEN {f.paint} ELSE {})
      BY <1>1, <1>2, <2>1, <2>2
    <2> QED
      BY <1>3, <2>1, <2>3 DEF Paints, Streamed, r
  <1>4. CASE f.kind = "replay"
    <2>1. n + 1 \in R(r) /\ \A j \in R(r) : j <= n + 1
      BY <1>1, <1>4
    <2>2. {m \in 1 .. Len(r) : Streamed(r[m]) /\ \A j \in R(r) : j <= m} = {n + 1}
      BY <1>1, <1>4, <2>1 DEF Streamed
    <2> QED
      BY <1>1, <1>4, <2>1, <2>2 DEF Paints, Streamed, r
  <1> QED
    BY <1>3, <1>4 DEF Streamed

\* Receiving a frame makes no picture stale.
LEMMA StaleTail ==
    ASSUME NEW q \in Queues, q # <<>>, NEW v \in Views, NEW e \in Nat,
           Stale(Tail(q), Seen(v, Head(q)), e)
    PROVE  Stale(q, v, e)
  <1> DEFINE r == Tail(q)
             u == Seen(v, Head(q))
             n == Len(q)
             h == q[1]
             R(s) == {i \in 1 .. Len(s) : s[i].kind = "replay"}
             F(s) == {i \in 1 .. Len(s) : Streamed(s[i]) /\ \A j \in R(s) : j <= i}
  <1>1. /\ n \in Nat \ {0} /\ \A i \in 1 .. n - 1 : r[i] = q[i + 1]
        /\ Len(r) = n - 1 /\ Head(q) = h /\ h \in Frames
        /\ h.paint \in Nat /\ v.paint \in Nat
    BY Received DEF Frames, Views
  <1>2. /\ h.kind = "replay" => u.paint = h.paint
        /\ h.kind = "output" => u.paint = IF h.paint > v.paint THEN h.paint ELSE v.paint
        /\ ~ Streamed(h) => u.paint = v.paint
    BY <1>1, SeenIs
  <1>p. /\ Paints(r, u) = {r[i].paint : i \in F(r)} \cup (IF R(r) = {} THEN {u.paint} ELSE {})
        /\ Paints(q, v) = {q[i].paint : i \in F(q)} \cup (IF R(q) = {} THEN {v.paint} ELSE {})
        /\ Stale(r, u, e)
    BY DEF Paints
  <1> HIDE DEF r, u
  <1>3. \A i \in 1 .. n - 1 : i \in R(r) <=> i + 1 \in R(q)
    BY <1>1
  <1>4. \A i \in R(r) : i \in 1 .. n - 1
    BY <1>1
  <1>5. \A i \in F(r) : i + 1 \in F(q) /\ q[i + 1].paint = r[i].paint
    <2> SUFFICES ASSUME NEW i \in F(r) PROVE i + 1 \in F(q) /\ q[i + 1].paint = r[i].paint
      OBVIOUS
    <2>1. i \in 1 .. n - 1 /\ r[i] = q[i + 1] /\ i + 1 \in 1 .. n
      BY <1>1
    <2>2. ASSUME NEW j \in R(q) PROVE j <= i + 1
      <3>1. CASE j = 1
        BY <2>1, <3>1
      <3>2. CASE j # 1
        <4>1. j - 1 \in 1 .. n - 1 /\ (j - 1) + 1 = j
          BY <1>1, <3>2
        <4>2. j - 1 \in R(r)
          BY <1>3, <2>2, <4>1
        <4>3. j - 1 <= i
          BY <4>2
        <4> QED
          BY <2>1, <4>1, <4>3
      <3> QED
        BY <3>1, <3>2
    <2> QED
      BY <2>1, <2>2
  <1>6. ASSUME NEW i \in F(q), i # 1 PROVE i - 1 \in F(r) /\ r[i - 1].paint = q[i].paint
    <2>1. i - 1 \in 1 .. n - 1 /\ r[i - 1] = q[i] /\ i - 1 \in 1 .. Len(r)
      BY <1>1, <1>6
    <2>2. ASSUME NEW j \in R(r) PROVE j <= i - 1
      <3>1. j \in 1 .. n - 1 /\ j + 1 \in R(q)
        BY <1>3, <1>4
      <3>2. j + 1 <= i
        BY <3>1
      <3> QED
        BY <3>1, <3>2, <1>6
    <2>3. Streamed(r[i - 1])
      BY <2>1
    <2> QED
      BY <2>1, <2>2, <2>3
  <1>7. CASE R(r) # {}
    <2>1. 1 \notin F(q) /\ R(q) # {}
      <3>1. PICK j \in R(r) : j \in 1 .. n - 1 /\ j + 1 \in R(q)
        BY <1>3, <1>4, <1>7
      <3>2. ~ (j + 1 <= 1)
        BY <3>1
      <3> QED
        BY <3>1, <3>2
    <2>2. Paints(q, v) = Paints(r, u)
      <3>1. {q[i].paint : i \in F(q)} = {r[i].paint : i \in F(r)}
        <4>1. \A i \in F(q) : q[i].paint \in {r[m].paint : m \in F(r)}
          BY <1>6, <2>1
        <4>2. \A i \in F(r) : r[i].paint \in {q[m].paint : m \in F(q)}
          BY <1>5
        <4> QED
          BY <4>1, <4>2
      <3> QED
        BY <1>7, <1>p, <2>1, <3>1
    <2> QED
      BY <1>p, <2>2 DEF Stale
  <1>8. CASE R(r) = {}
    <2>1. R(q) = IF h.kind = "replay" THEN {1} ELSE {}
      <3>1. ASSUME NEW j \in R(q) PROVE j = 1
        <4>1. j # 1 => j - 1 \in 1 .. n - 1 /\ (j - 1) + 1 = j
          BY <1>1
        <4> QED
          BY <1>3, <1>8, <3>1, <4>1
      <3>2. 1 \in 1 .. n
        BY <1>1
      <3> QED
        BY <3>1, <3>2
    <2>2. 1 \in F(q) <=> Streamed(h)
      <3>1. 1 \in 1 .. n /\ \A j \in R(q) : j <= 1
        BY <1>1, <2>1
      <3> QED
        BY <3>1
    <2>3. Paints(r, u) = {r[i].paint : i \in F(r)} \cup {u.paint}
      BY <1>8, <1>p
    <2>4. \A p \in Paints(q, v) :
             \/ p \in {r[i].paint : i \in F(r)}
             \/ p = h.paint /\ Streamed(h)
             \/ p = v.paint /\ h.kind # "replay"
      BY <1>6, <1>p, <2>1, <2>2
    <2>5. \A p \in {r[i].paint : i \in F(r)} : p \in Paints(q, v)
      BY <1>5, <1>p
    <2>6. /\ h.kind # "replay" => v.paint \in Paints(q, v)
          /\ Streamed(h) => h.paint \in Paints(q, v)
      BY <1>p, <2>1, <2>2
    <2>7. u.paint \in Paints(q, v)
      BY <1>2, <2>6 DEF Streamed
    <2>8. \A p \in Paints(q, v) : p \in Paints(r, u) \/ p <= u.paint
      BY <1>1, <1>2, <2>3, <2>4 DEF Streamed
    <2>9. u.paint \in Paints(r, u) /\ u.paint \in Nat /\ u.paint <= e
      <3>1. u.paint \in Nat
        BY <1>1, <1>2 DEF Streamed
      <3> QED
        BY <1>p, <2>3, <3>1 DEF Stale
    <2>10. \A p \in Paints(q, v) : p <= e
      <3>1. \A p \in Paints(q, v) : p \in Nat
        <4>1. ASSUME NEW i \in F(q) PROVE q[i].paint \in Nat
          <5>1. i \in 1 .. Len(q)
            OBVIOUS
          <5>2. q[i] \in Frames
            BY <5>1 DEF Queues
          <5> QED
            BY <5>2 DEF Frames
        <4> QED
          BY <1>1, <1>p, <4>1
      <3>2. \A p \in Paints(r, u) : p <= e
        BY <1>p DEF Stale
      <3>3. \A p \in Paints(q, v) : p <= u.paint => p <= e
        BY <2>9, <3>1
      <3> QED
        BY <2>8, <3>2, <3>3
    <2>11. \E p \in Paints(q, v) : p > 0
      <3>1. PICK p \in Paints(r, u) : p > 0
        BY <1>p DEF Stale
      <3>2. p \in Paints(q, v)
        BY <2>3, <2>5, <2>7, <3>1
      <3> QED
        BY <3>1, <3>2
    <2> QED
      BY <2>10, <2>11 DEF Stale
  <1> QED
    BY <1>7, <1>8

\* A frame makes no picture stale, and a repaint or a replay with the newest
\* screen, or with none, leaves none stale.
LEMMA StaleAppend ==
    ASSUME NEW q \in Queues, NEW f \in Frames, NEW v, NEW e \in Nat,
           Stale(Append(q, f), v, e)
    PROVE  /\ f.paint # e + 1 \/ ~ Streamed(f)
           /\ f.kind = "replay" => f.paint # 0
           /\ f.kind # "replay" /\ (f.paint = 0 \/ ~ Streamed(f)) => Stale(q, v, e)
  <1>1. /\ f.kind = "output" => Paints(Append(q, f), v) = Paints(q, v) \cup {f.paint}
        /\ f.kind = "replay" => Paints(Append(q, f), v) = {f.paint}
        /\ ~ Streamed(f) => Paints(Append(q, f), v) = Paints(q, v)
    BY PaintsAppend
  <1>2. Streamed(f) => f.kind = "output" \/ f.kind = "replay"
    BY DEF Streamed
  <1>3. f.paint # e + 1 \/ ~ Streamed(f)
    <2> SUFFICES ASSUME Streamed(f), f.paint = e + 1 PROVE FALSE
      OBVIOUS
    <2>1. f.paint <= e
      BY <1>1, <1>2 DEF Stale
    <2> QED
      BY <2>1
  <1>4. f.kind = "replay" => f.paint # 0
    BY <1>1 DEF Stale
  <1>5. f.kind = "output" /\ f.paint = 0 => Stale(q, v, e)
    BY <1>1 DEF Stale
  <1>6. ~ Streamed(f) => Stale(q, v, e)
    BY <1>1 DEF Stale
  <1> QED
    BY <1>2, <1>3, <1>4, <1>5, <1>6
-----------------------------------------------------------------------------
(* Connections, frames and the screen.                                      *)

Outbounds == [queue : Queues, queued : Int, closed : BOOLEAN]
Grids == [alt : BOOLEAN, latch : BOOLEAN, ready : BOOLEAN, exits : Nat]

\* Connection n has become m: frame f was queued on an open connection.
Sent(n, m, f) == ~ n.closed /\ ~ m.closed /\ m.queue = Append(n.queue, f)

\* Connection n has become m: nothing was queued.
Passed(n, m) == m.queue = n.queue /\ (n.closed => m.closed)

\* What a charge to a queue is.
LEMMA CostIs ==
    ASSUME NEW f \in Frames
    PROVE  Cost(f) \in Int
  BY HubAssumption DEF Cost, Frames

\* Outbound::push queues the frame or closes the connection.
LEMMA PushIs ==
    ASSUME NEW n \in Outbounds, NEW f \in Frames
    PROVE  /\ Push(n, f) \in Outbounds
           /\ Kept(n, f) => Sent(n, Push(n, f), f)
           /\ ~ Kept(n, f) => Passed(n, Push(n, f)) /\ Push(n, f).closed
  <1>1. Append(n.queue, f) \in Queues /\ n.queued + Cost(f) \in Int
    BY Appended, CostIs DEF Outbounds
  <1>2. CASE Kept(n, f)
    BY <1>1, <1>2 DEF Push, Queue, Kept, Sent, Outbounds
  <1>3. CASE ~ Kept(n, f)
    BY <1>3 DEF Push, Passed, Outbounds
  <1> QED
    BY <1>2, <1>3

\* A queue that had room.
LEMMA QueueIs ==
    ASSUME NEW n \in Outbounds, NEW f \in Frames, ~ n.closed
    PROVE  Queue(n, f) \in Outbounds /\ Sent(n, Queue(n, f), f)
  <1>1. Append(n.queue, f) \in Queues /\ n.queued + Cost(f) \in Int
    BY Appended, CostIs DEF Outbounds
  <1> QED
    BY <1>1 DEF Queue, Sent, Outbounds

\* The frames of the model.
LEMMA FramesAre ==
    ASSUME NEW a \in Nat, NEW b \in Nat, NEW g \in Grids, NEW e \in Endings
    PROVE  /\ Raw(a, b) \in Frames /\ Raw(a, b).kind = "output"
           /\ Raw(a, b).from = a /\ Raw(a, b).to = b /\ Raw(a, b).paint = 0
           /\ Painted(Raw(a, b), g) \in Frames /\ Painted(Raw(a, b), g).kind = "output"
           /\ Painted(Raw(a, b), g).from = a /\ Painted(Raw(a, b), g).to = b
           /\ Painted(Raw(a, b), g).paint = g.exits + 1
           /\ Ending(e) \in Frames /\ Ending(e).kind = e /\ ~ Streamed(Ending(e))
           /\ Other \in Frames /\ Other.kind = "other" /\ ~ Streamed(Other)
  BY HubAssumption DEF Raw, Painted, Ending, Other, Frames, Grids, Endings, Streamed

\* What parsing output does to the screen: the alternate screen is on, or it
\* stayed off, or it was left and a repair is latched.
Moved(g, h) ==
    /\ h \in Grids
    /\ \/ h.alt
       \/ ~ g.alt /\ h.latch = g.latch /\ h.exits = g.exits
       \/ h.latch

\* Parsing output.
LEMMA AdvanceMoves ==
    ASSUME NEW g \in Grids, NEW h \in Advance(g)
    PROVE  Moved(g, h)
  <1>1. PICK r \in BOOLEAN :
           h \in {[g EXCEPT !.alt = TRUE, !.latch = FALSE, !.ready = r],
                  IF g.alt THEN [g EXCEPT !.ready = r, !.latch = FALSE]
                  ELSE [g EXCEPT !.ready = r]}
                 \cup (IF g.exits < MaxExits
                       THEN {[g EXCEPT !.alt = FALSE, !.latch = TRUE, !.ready = r,
                                       !.exits = @ + 1]}
                       ELSE {})
    BY DEF Advance
  <1>2. CASE h = [g EXCEPT !.alt = TRUE, !.latch = FALSE, !.ready = r]
    BY <1>2 DEF Moved, Grids
  <1>3. CASE g.alt /\ h = [g EXCEPT !.ready = r, !.latch = FALSE]
    BY <1>3 DEF Moved, Grids
  <1>4. CASE ~ g.alt /\ h = [g EXCEPT !.ready = r]
    BY <1>4 DEF Moved, Grids
  <1>5. CASE h = [g EXCEPT !.alt = FALSE, !.latch = TRUE, !.ready = r, !.exits = @ + 1]
    <2>1. g.exits + 1 \in Nat
      BY DEF Grids
    <2> QED
      BY <1>5, <2>1 DEF Moved, Grids
  <1> QED
    BY <1>1, <1>2, <1>3, <1>4, <1>5

\* Ending an open update.
LEMMA FlushedMoves ==
    ASSUME NEW g \in Grids, NEW h \in Flushed(g)
    PROVE  Moved(g, h)
  <1>1. CASE h = g
    BY <1>1 DEF Moved, Grids
  <1>2. CASE h \in Advance(g)
    BY <1>2, AdvanceMoves
  <1> QED
    BY <1>1, <1>2 DEF Flushed

\* Taking the repair.
LEMMA TakenIs ==
    ASSUME NEW g \in Grids, NEW d \in BOOLEAN
    PROVE  /\ Taken(g) \in Grids /\ Taken(g).alt = g.alt /\ Taken(g).exits = g.exits
           /\ ~ Takes(g) => Taken(g).latch = g.latch
           /\ [g EXCEPT !.latch = @ \/ d] \in Grids
           /\ [g EXCEPT !.latch = @ \/ d].alt = g.alt
           /\ [g EXCEPT !.latch = @ \/ d].exits = g.exits
           /\ d \/ g.latch => [g EXCEPT !.latch = @ \/ d].latch
  BY DEF Taken, Takes, Grids
-----------------------------------------------------------------------------
(* How a step that delivers nothing keeps what a connection has.            *)

\* What the type of the state says of a connection.
LEMMA ConnIs ==
    ASSUME Shape, NEW c \in Conns
    PROVE  /\ conn[c] \in Outbounds /\ conn[c].queue \in Queues /\ conn[c].closed \in BOOLEAN
           /\ view[c] \in Views /\ job[c].frame \in Frames /\ grid \in Grids
           /\ fed \in Nat /\ drain.at \in Nat /\ Published \in Nat /\ grid.exits \in Nat
           /\ grid.latch \in BOOLEAN /\ grid.alt \in BOOLEAN
           /\ drain.deferred \in BOOLEAN /\ drain.synthesized \in BOOLEAN
           /\ Len(conn[c].queue) \in Nat
  BY DEF Shape, Outbounds, Queues, Views, Grids, Published

\* NoByteSlips, connection by connection.
LEMMA SlipsAre ==
    /\ NoByteSlips <=>
         \A c \in Conns :
            /\ Chained(conn[c].queue, view[c])
            /\ c \in subs /\ ~ conn[c].closed =>
                  Reaches(conn[c].queue, view[c], Len(conn[c].queue), Published)
    /\ NoByteSlips' <=>
         \A c \in Conns :
            /\ Chained(conn'[c].queue, view'[c])
            /\ c \in subs' /\ ~ conn'[c].closed =>
                  Reaches(conn'[c].queue, view'[c], Len(conn'[c].queue), Published')
  BY DEF NoByteSlips, Chained

\* One frame more on a queue that is chained.
LEMMA SentChains ==
    ASSUME NEW n \in Outbounds, NEW m \in Outbounds, NEW f \in Frames, NEW v,
           Sent(n, m, f), Chained(n.queue, v),
           f.kind = "output" => Reaches(n.queue, v, Len(n.queue), f.from)
    PROVE  /\ Chained(m.queue, v)
           /\ Streamed(f) => Reaches(m.queue, v, Len(m.queue), f.to)
           /\ \A x : ~ Streamed(f) /\ Reaches(n.queue, v, Len(n.queue), x) =>
                 Reaches(m.queue, v, Len(m.queue), x)
  <1>1. n.queue \in Queues /\ m.queue = Append(n.queue, f)
    BY DEF Outbounds, Sent
  <1>2. Len(m.queue) = Len(n.queue) + 1
    BY <1>1, Appended
  <1>3. Chained(m.queue, v)
    BY <1>1, ChainedAppend
  <1> QED
    BY <1>1, <1>2, <1>3, ReachesAppend

\* A step that queues nothing of the stream, goes on where the stream was, or
\* replays it to its end.
LEMMA SlipsKept ==
    ASSUME Shape, Shape', NoByteSlips, view' = view,
           \A c \in Conns :
              \/ /\ \/ Passed(conn[c], conn'[c])
                    \/ \E f \in Frames : Sent(conn[c], conn'[c], f) /\ ~ Streamed(f)
                 /\ c \in subs' /\ ~ conn'[c].closed => c \in subs /\ Published' = Published
              \/ \E f \in Frames : /\ Sent(conn[c], conn'[c], f) /\ f.kind = "output"
                                   /\ c \in subs /\ f.from = Published /\ f.to = Published'
              \/ \E f \in Frames : /\ Sent(conn[c], conn'[c], f) /\ f.kind = "replay"
                                   /\ f.to = Published'
    PROVE  NoByteSlips'
  <1> SUFFICES ASSUME NEW c \in Conns
               PROVE  /\ Chained(conn'[c].queue, view'[c])
                      /\ c \in subs' /\ ~ conn'[c].closed =>
                            Reaches(conn'[c].queue, view'[c], Len(conn'[c].queue), Published')
    BY SlipsAre
  <1>1. /\ Chained(conn[c].queue, view[c])
        /\ c \in subs /\ ~ conn[c].closed =>
              Reaches(conn[c].queue, view[c], Len(conn[c].queue), Published)
    BY SlipsAre
  <1>2. conn[c] \in Outbounds /\ conn'[c] \in Outbounds /\ view'[c] = view[c]
    BY DEF Shape, Outbounds, Queues
  <1>3. CASE /\ Passed(conn[c], conn'[c])
             /\ c \in subs' /\ ~ conn'[c].closed => c \in subs /\ Published' = Published
    BY <1>1, <1>2, <1>3 DEF Passed
  <1>4. ASSUME NEW f \in Frames, Sent(conn[c], conn'[c], f), ~ Streamed(f),
               c \in subs' /\ ~ conn'[c].closed => c \in subs /\ Published' = Published
        PROVE  /\ Chained(conn'[c].queue, view'[c])
               /\ c \in subs' /\ ~ conn'[c].closed =>
                     Reaches(conn'[c].queue, view'[c], Len(conn'[c].queue), Published')
    <2>1. f.kind # "output" /\ ~ conn[c].closed
      BY <1>4 DEF Streamed, Sent
    <2> QED
      BY <1>1, <1>2, <1>4, <2>1, SentChains
  <1>5. ASSUME NEW f \in Frames, Sent(conn[c], conn'[c], f), f.kind = "output", c \in subs,
               f.from = Published, f.to = Published'
        PROVE  /\ Chained(conn'[c].queue, view'[c])
               /\ Reaches(conn'[c].queue, view'[c], Len(conn'[c].queue), Published')
    <2>1. Streamed(f) /\ ~ conn[c].closed
      BY <1>5 DEF Streamed, Sent
    <2>2. Reaches(conn[c].queue, view[c], Len(conn[c].queue), f.from)
      BY <1>1, <1>5, <2>1
    <2> QED
      BY <1>1, <1>2, <1>5, <2>1, <2>2, SentChains
  <1>6. ASSUME NEW f \in Frames, Sent(conn[c], conn'[c], f), f.kind = "replay",
               f.to = Published'
        PROVE  /\ Chained(conn'[c].queue, view'[c])
               /\ Reaches(conn'[c].queue, view'[c], Len(conn'[c].queue), Published')
    <2>1. Streamed(f) /\ f.kind # "output"
      BY <1>6 DEF Streamed
    <2> QED
      BY <1>1, <1>2, <1>6, <2>1, SentChains
  <1> QED
    BY <1>3, <1>4, <1>5, <1>6

\* No repair was owed, or one still is.
Carried ==
    \/ grid'.alt
    \/ grid'.latch
    \/ drain'.pc = "publish" /\ drain'.deferred
    \/ /\ ~ grid.alt /\ grid'.exits = grid.exits
       /\ ~ grid.latch /\ ~ (drain.pc = "publish" /\ drain.deferred)

\* A step that keeps the repair, or repaints those it takes it from.
LEMMA RepairCarries ==
    ASSUME Shape, Shape', RepairKept, view' = view,
           \A c \in subs' :
              \/ \E f \in Frames : /\ Sent(conn[c], conn'[c], f) /\ Streamed(f)
                                   /\ f.paint = grid'.exits + 1
              \/ /\ c \in subs /\ Carried
                 /\ \/ Passed(conn[c], conn'[c])
                    \/ \E f \in Frames : /\ Sent(conn[c], conn'[c], f) /\ f.kind # "replay"
                                         /\ f.paint = 0 \/ ~ Streamed(f)
    PROVE  RepairKept'
  <1> SUFFICES ASSUME NEW c \in subs', ~ conn'[c].closed, ~ grid'.alt,
                      Stale(conn'[c].queue, view'[c], grid'.exits)
               PROVE  grid'.latch \/ (drain'.pc = "publish" /\ drain'.deferred)
    BY DEF RepairKept
  <1>1. /\ c \in Conns /\ conn[c] \in Outbounds /\ conn'[c] \in Outbounds
        /\ view'[c] = view[c] /\ conn[c].queue \in Queues /\ grid'.exits \in Nat
    BY DEF Shape, Outbounds, Queues
  <1>2. ASSUME NEW f \in Frames, Sent(conn[c], conn'[c], f), Streamed(f),
               f.paint = grid'.exits + 1
        PROVE  FALSE
    <2>1. Stale(Append(conn[c].queue, f), view[c], grid'.exits)
      BY <1>1, <1>2 DEF Sent
    <2> QED
      BY <1>1, <1>2, <2>1, StaleAppend
  <1>3. ASSUME c \in subs, Carried, ~ conn[c].closed,
               Stale(conn[c].queue, view[c], grid'.exits)
        PROVE  grid'.latch \/ (drain'.pc = "publish" /\ drain'.deferred)
    BY <1>3 DEF Carried, RepairKept
  <1>4. ASSUME Passed(conn[c], conn'[c])
        PROVE  ~ conn[c].closed /\ Stale(conn[c].queue, view[c], grid'.exits)
    BY <1>1, <1>4 DEF Passed
  <1>5. ASSUME NEW f \in Frames, Sent(conn[c], conn'[c], f), f.kind # "replay",
               f.paint = 0 \/ ~ Streamed(f)
        PROVE  ~ conn[c].closed /\ Stale(conn[c].queue, view[c], grid'.exits)
    <2>1. Stale(Append(conn[c].queue, f), view[c], grid'.exits) /\ ~ conn[c].closed
      BY <1>1, <1>5 DEF Sent
    <2> QED
      BY <1>1, <1>5, <2>1, StaleAppend
  <1> QED
    BY <1>2, <1>3, <1>4, <1>5

\* A step that replays nothing to anyone.
LEMMA EndingKept ==
    ASSUME Shape, Shape', AttachedListens, NobodyWaitsOnADeadStream, view' = view,
           attached' = attached, \A c \in Conns : job'[c].pc = job[c].pc, ending' = ending,
           \A c \in Conns :
              /\ c \in subs /\ ~ conn'[c].closed => c \in subs'
              /\ \/ Passed(conn[c], conn'[c])
                 \/ \E f \in Frames : Sent(conn[c], conn'[c], f) /\ f.kind # "replay"
    PROVE  AttachedListens' /\ NobodyWaitsOnADeadStream'
  <1> SUFFICES ASSUME NEW c \in attached', job'[c].pc = "idle", ~ conn'[c].closed
               PROVE  /\ ending' = "none" => c \in subs'
                      /\ ending' # "none" => Ended(conn'[c].queue, view'[c])
    BY DEF AttachedListens, NobodyWaitsOnADeadStream
  <1>1. /\ c \in attached /\ c \in Conns /\ job[c].pc = "idle" /\ view'[c] = view[c]
        /\ conn[c].queue \in Queues
    BY DEF Shape, Queues
  <1>2. ~ conn[c].closed
    BY <1>1 DEF Passed, Sent
  <1>3. ending' = "none" => c \in subs'
    BY <1>1, <1>2 DEF AttachedListens
  <1>4. ASSUME ending' # "none" PROVE Ended(conn'[c].queue, view'[c])
    <2>1. Ended(conn[c].queue, view[c])
      BY <1>1, <1>2, <1>4 DEF NobodyWaitsOnADeadStream
    <2>2. CASE Passed(conn[c], conn'[c])
      BY <1>1, <2>1, <2>2 DEF Passed
    <2>3. ASSUME NEW f \in Frames, Sent(conn[c], conn'[c], f), f.kind # "replay"
          PROVE  Ended(conn'[c].queue, view'[c])
      <3>1. Ended(Append(conn[c].queue, f), view[c])
        BY <1>1, <2>1, <2>3, EndedAppend
      <3> QED
        BY <1>1, <2>3, <3>1 DEF Sent
    <2> QED
      BY <1>1, <2>2, <2>3
  <1> QED
    BY <1>3, <1>4

\* A step that ends the stream tells every subscriber.
LEMMA EndingTold ==
    ASSUME Shape, Shape', AttachedListens, NobodyWaitsOnADeadStream, view' = view,
           attached' = attached, job' = job, ending' # "none",
           \A c \in Conns :
              \/ c \notin subs /\ Passed(conn[c], conn'[c])
              \/ conn'[c].closed
              \/ \E f \in Frames : Sent(conn[c], conn'[c], f) /\ f.kind \in Endings
    PROVE  AttachedListens' /\ NobodyWaitsOnADeadStream'
  <1> SUFFICES ASSUME NEW c \in attached', job'[c].pc = "idle", ~ conn'[c].closed
               PROVE  Ended(conn'[c].queue, view'[c])
    BY DEF AttachedListens, NobodyWaitsOnADeadStream
  <1>1. /\ c \in attached /\ c \in Conns /\ job[c].pc = "idle" /\ view'[c] = view[c]
        /\ conn[c].queue \in Queues
    BY DEF Shape, Queues
  <1>2. ASSUME c \notin subs, Passed(conn[c], conn'[c])
        PROVE  Ended(conn'[c].queue, view'[c])
    <2>1. ~ conn[c].closed /\ conn'[c].queue = conn[c].queue
      BY <1>2 DEF Passed
    <2>2. ending # "none"
      BY <1>1, <1>2, <2>1 DEF AttachedListens
    <2> QED
      BY <1>1, <2>1, <2>2 DEF NobodyWaitsOnADeadStream
  <1>3. ASSUME NEW f \in Frames, Sent(conn[c], conn'[c], f), f.kind \in Endings
        PROVE  Ended(conn'[c].queue, view'[c])
    <2>1. Ended(Append(conn[c].queue, f), view[c])
      BY <1>1, <1>3, EndedAppend
    <2> QED
      BY <1>1, <1>3, <2>1 DEF Sent
  <1> QED
    BY <1>1, <1>2, <1>3
-----------------------------------------------------------------------------
(* The actions that queue nothing.                                          *)

\* A step that queues and receives nothing.
LEMMA QuietKeeps ==
    ASSUME HubInv, Shape', conn' = conn, view' = view, Published' = Published,
           ending' = ending, subs' \subseteq subs, attached' \subseteq attached,
           subs' # {} => Carried,
           \A c \in attached' :
              job'[c].pc = "idle" => job[c].pc = "idle" /\ (c \in subs => c \in subs')
    PROVE  AttachedListens' /\ RepairKept' /\ NoByteSlips' /\ NobodyWaitsOnADeadStream'
  <1>1. \A c \in Conns : Passed(conn[c], conn'[c])
    BY DEF Passed
  <1>2. NoByteSlips'
    <2>1. \A c \in Conns :
             /\ Passed(conn[c], conn'[c])
             /\ c \in subs' /\ ~ conn'[c].closed => c \in subs /\ Published' = Published
      BY <1>1
    <2> QED
      BY <2>1, SlipsKept DEF HubInv
  <1>3. RepairKept'
    <2>1. \A c \in subs' : c \in subs /\ Carried /\ Passed(conn[c], conn'[c])
      BY <1>1 DEF HubInv, Shape
    <2> QED
      BY <2>1, RepairCarries DEF HubInv
  <1>4. AttachedListens' /\ NobodyWaitsOnADeadStream'
    BY DEF HubInv, AttachedListens, NobodyWaitsOnADeadStream
  <1> QED
    BY <1>2, <1>3, <1>4

\* What a step that leaves the drain and the screen alone keeps of the repair.
LEMMA GridSame ==
    ASSUME grid' = grid, drain' = drain
    PROVE  Carried /\ (fed' = fed => Published' = Published)
  BY DEF Carried, Published

\* The child writes, exits or is reaped; nothing happens.
LEMMA ProcessStep ==
    ASSUME HubInv, Write \/ Exit \/ Reap \/ UNCHANGED vars
    PROVE  HubInv'
  <1>1. /\ conn' = conn /\ view' = view /\ ending' = ending /\ subs' = subs
        /\ attached' = attached /\ job' = job /\ grid' = grid /\ drain' = drain
        /\ fed' = fed /\ dropped' = dropped /\ present' = present
    BY DEF Write, Exit, Reap, vars, stream
  <1>t. child' \in {"running", "exited"} /\ reaped' \in BOOLEAN /\ produced' \in Nat
    <2>1. child \in {"running", "exited"} /\ reaped \in BOOLEAN /\ produced \in Nat
      BY DEF HubInv, Shape
    <2>2. CASE Write
      BY <2>1, <2>2 DEF Write
    <2>3. CASE Exit
      BY <2>1, <2>3 DEF Exit
    <2>4. CASE Reap
      BY <2>1, <2>4 DEF Reap
    <2>5. CASE UNCHANGED vars
      BY <2>1, <2>5 DEF vars
    <2> QED
      BY <2>2, <2>3, <2>4, <2>5
  <1>2. Shape'
    BY <1>1, <1>t DEF HubInv, Shape
  <1>3. AttachedListens' /\ RepairKept' /\ NoByteSlips' /\ NobodyWaitsOnADeadStream'
    BY <1>1, <1>2, GridSame, QuietKeeps
  <1>4. ReplayCurrent'
    BY <1>1 DEF HubInv, ReplayCurrent
  <1>5. DrainOrder' /\ ExitedAfterTheLastByte'
    BY <1>1 DEF HubInv, Shape, DrainOrder, ExitedAfterTheLastByte, Write, Exit, Reap, vars,
                process
  <1> QED
    BY <1>2, <1>3, <1>4, <1>5 DEF HubInv

\* The drain reads a chunk.
LEMMA ReadStep ==
    ASSUME HubInv, NEW m \in 1 .. (produced - fed), Read(m)
    PROVE  HubInv'
  <1>1. /\ conn' = conn /\ view' = view /\ ending' = ending /\ subs' = subs
        /\ attached' = attached /\ job' = job /\ grid' = grid /\ present' = present
        /\ child' = child /\ reaped' = reaped /\ produced' = produced
        /\ fed' = fed + m /\ drain.pc = "read" /\ ~ Locked
        /\ drain' = [pc |-> "publish", at |-> fed, synthesized |-> FALSE, deferred |-> FALSE]
    BY DEF Read, process
  <1>2. fed \in Nat /\ produced \in Nat /\ dropped \in Nat /\ m \in Nat /\ fed' \in Nat
    BY <1>1 DEF HubInv, Shape
  <1>3. dropped' \in Nat
    BY <1>2, HubAssumption DEF Read
  <1>4. Shape'
    BY <1>1, <1>2, <1>3 DEF HubInv, Shape
  <1>5. Carried /\ Published' = Published
    BY <1>1 DEF Carried, Published
  <1>6. AttachedListens' /\ RepairKept' /\ NoByteSlips' /\ NobodyWaitsOnADeadStream'
    BY <1>1, <1>4, <1>5, QuietKeeps
  <1>7. ReplayCurrent'
    BY <1>1 DEF ReplayCurrent, Locked
  <1>8. DrainOrder' /\ ExitedAfterTheLastByte'
    BY <1>1, <1>2 DEF HubInv, DrainOrder, ExitedAfterTheLastByte
  <1> QED
    BY <1>4, <1>6, <1>7, <1>8 DEF HubInv

\* The drain finds the end of output.
LEMMA EofStep ==
    ASSUME HubInv, Eof
    PROVE  HubInv'
  <1>1. /\ conn' = conn /\ view' = view /\ ending' = ending /\ subs' = subs
        /\ attached' = attached /\ job' = job /\ grid' = grid /\ present' = present
        /\ child' = child /\ reaped' = reaped /\ produced' = produced
        /\ fed' = fed /\ dropped' = dropped /\ drain.pc = "read"
        /\ drain' = [drain EXCEPT !.pc = "eof"]
    BY DEF Eof, process
  <1>2. drain'.pc = "eof"
    BY <1>1 DEF HubInv, Shape
  <1>3. Shape'
    BY <1>1 DEF HubInv, Shape
  <1>4. Carried /\ Published' = Published
    BY <1>1, <1>2 DEF Carried, Published
  <1>5. AttachedListens' /\ RepairKept' /\ NoByteSlips' /\ NobodyWaitsOnADeadStream'
    BY <1>1, <1>3, <1>4, QuietKeeps
  <1>6. ReplayCurrent'
    BY <1>1, <1>2 DEF HubInv, ReplayCurrent
  <1>7. DrainOrder' /\ ExitedAfterTheLastByte'
    BY <1>1, <1>2 DEF HubInv, DrainOrder, ExitedAfterTheLastByte, Eof
  <1> QED
    BY <1>3, <1>5, <1>6, <1>7 DEF HubInv

\* A handler begins an attach or a detach, or ends a detach.
LEMMA HandlerStep ==
    ASSUME HubInv, NEW c \in Conns, Attach(c) \/ Detach(c) \/ DetachHub(c)
    PROVE  HubInv'
  <1>1. /\ conn' = conn /\ view' = view /\ ending' = ending /\ grid' = grid
        /\ drain' = drain /\ fed' = fed /\ dropped' = dropped /\ present' = present
        /\ child' = child /\ reaped' = reaped /\ produced' = produced
    BY DEF Attach, Detach, DetachHub, stream, process
  <1>2. /\ subs' = subs \/ (subs' = subs \ {c} /\ c \notin attached')
        /\ attached' \subseteq attached
    <2>1. CASE Attach(c)
      BY <2>1 DEF Attach
    <2>2. CASE Detach(c)
      BY <2>2 DEF Detach
    <2>3. CASE DetachHub(c)
      BY <2>3 DEF DetachHub
    <2> QED
      BY <2>1, <2>2, <2>3
  <1>3. \/ job' = [job EXCEPT ![c].pc = "attaching"]
        \/ job' = [job EXCEPT ![c].pc = "detaching"]
        \/ job' = [job EXCEPT ![c] = Idle] /\ c \notin attached'
        \/ job' = job
    BY DEF Attach, Detach, DetachHub
  <1>4. Idle \in [pc : {"idle", "attaching", "replaying", "detaching"}, frame : Frames,
                  free : Nat] /\ Idle.pc = "idle"
    BY DEF Idle, Ending, Frames, Endings
  <1> DEFINE Jobs == [pc : {"idle", "attaching", "replaying", "detaching"}, frame : Frames,
                      free : Nat]
  <1>j. job \in [Conns -> Jobs] /\ subs \subseteq Conns /\ attached \subseteq Conns
    BY DEF HubInv, Shape
  <1>k. PICK k \in Jobs : /\ job' = [job EXCEPT ![c] = k]
                          /\ k = job[c] \/ k.pc # "replaying"
                          /\ c \in attached' /\ k.pc = "idle" => job[c].pc = "idle"
    <2>1. CASE job' = [job EXCEPT ![c].pc = "attaching"]
      <3> DEFINE k == [job[c] EXCEPT !.pc = "attaching"]
      <3>1. k \in Jobs /\ k.pc = "attaching" /\ job' = [job EXCEPT ![c] = k]
        BY <1>j, <2>1
      <3> QED
        BY <3>1
    <2>2. CASE job' = [job EXCEPT ![c].pc = "detaching"]
      <3> DEFINE k == [job[c] EXCEPT !.pc = "detaching"]
      <3>1. k \in Jobs /\ k.pc = "detaching" /\ job' = [job EXCEPT ![c] = k]
        BY <1>j, <2>2
      <3> QED
        BY <3>1
    <2>3. CASE job' = [job EXCEPT ![c] = Idle] /\ c \notin attached'
      BY <1>4, <2>3
    <2>4. CASE job' = job
      <3>1. job[c] \in Jobs /\ job' = [job EXCEPT ![c] = job[c]]
        BY <1>j, <2>4
      <3> QED
        BY <3>1
    <2> QED
      BY <1>3, <2>1, <2>2, <2>3, <2>4
  <1>l. job' \in [Conns -> Jobs]
    BY <1>j, <1>k
  <1>5. Shape'
    BY <1>1, <1>2, <1>j, <1>l DEF HubInv, Shape
  <1>6. /\ \A d \in Conns : job'[d] = job[d] \/ job'[d].pc # "replaying"
        /\ \A d \in attached' : job'[d].pc = "idle" => job[d].pc = "idle"
    BY <1>2, <1>j, <1>k
  <1>7. AttachedListens' /\ RepairKept' /\ NoByteSlips' /\ NobodyWaitsOnADeadStream'
    BY <1>1, <1>2, <1>5, <1>6, GridSame, QuietKeeps
  <1>8. ReplayCurrent'
    BY <1>1, <1>6 DEF HubInv, ReplayCurrent
  <1>9. DrainOrder' /\ ExitedAfterTheLastByte'
    BY <1>1 DEF HubInv, DrainOrder, ExitedAfterTheLastByte
  <1> QED
    BY <1>5, <1>7, <1>8, <1>9 DEF HubInv
\* The screen's part in a step that may move it but takes no repair.
LEMMA MovedCarries ==
    ASSUME Shape, NEW g, Moved(grid, g), ~ Locked, drain' = drain,
           grid'.alt = g.alt, grid'.latch = g.latch, grid'.exits = g.exits
    PROVE  Carried
  <1>1. drain.pc # "publish" /\ grid \in Grids /\ g \in Grids
    BY DEF Locked, Shape, Grids, Moved
  <1>2. CASE g.alt
    BY <1>2 DEF Carried
  <1>3. CASE g.latch
    BY <1>3 DEF Carried
  <1>4. CASE ~ g.latch /\ ~ grid.alt /\ g.latch = grid.latch /\ g.exits = grid.exits
    BY <1>1, <1>4 DEF Carried
  <1> QED
    BY <1>2, <1>3, <1>4 DEF Moved

\* An attach reads its budget and forms its replay.
LEMMA AttachReplayStep ==
    ASSUME HubInv, NEW c \in Conns, AttachReplay(c)
    PROVE  HubInv'
  <1>1. /\ conn' = conn /\ view' = view /\ ending' = ending /\ attached' = attached
        /\ drain' = drain /\ fed' = fed /\ dropped' = dropped /\ present' = present
        /\ child' = child /\ reaped' = reaped /\ produced' = produced
        /\ subs' = subs \ {c} /\ ~ Locked
    BY DEF AttachReplay, stream, process
  <1> DEFINE Jobs == [pc : {"idle", "attaching", "replaying", "detaching"}, frame : Frames,
                      free : Nat]
             free == Free(conn[c])
             paints == ScreenBytes + Reserve <= free
             spent == Reserve + (IF paints THEN ScreenBytes ELSE 0)
             room == IF free > spent THEN free - spent ELSE 0
             budget == IF MaxBytes \div 2 < room THEN MaxBytes \div 2 ELSE room
             len == IF fed - dropped < budget THEN fed - dropped ELSE budget
             history == [kind |-> "replay", from |-> fed - len, to |-> fed, paint |-> 0]
             frame(g) == IF paints THEN Painted(history, g) ELSE history
  <1>2. PICK g \in Flushed(grid) :
           /\ grid' = IF subs \ {c} = {} THEN Taken(g) ELSE g
           /\ job' = [job EXCEPT ![c] = [pc |-> "replaying", frame |-> frame(g),
                                         free |-> free]]
    BY DEF AttachReplay
  <1>3. /\ fed \in Nat /\ dropped \in Nat /\ conn[c] \in Outbounds /\ grid \in Grids
        /\ job \in [Conns -> Jobs] /\ subs \subseteq Conns
    BY DEF HubInv, Shape, Outbounds, Queues, Grids
  <1>4. Moved(grid, g) /\ g \in Grids
    BY <1>3, FlushedMoves DEF Moved
  <1>5. free \in Nat
    BY <1>3, HubAssumption DEF Free, Outbounds
  <1>6. fed - len \in Nat
    <2>1. MaxBytes \div 2 \in Nat /\ spent \in Nat
      BY HubAssumption
    <2> HIDE DEF free, spent
    <2>2. budget \in Nat
      BY <1>5, <2>1
    <2> HIDE DEF budget
    <2> QED
      BY <1>3, <2>2
  <1> HIDE DEF free, len, paints
  <1>7. /\ frame(g) \in Frames /\ frame(g).kind = "replay" /\ frame(g).to = fed
        /\ frame(g).paint \in {0, g.exits + 1}
    <2>1. history \in Frames /\ g.exits + 1 \in Nat
      BY <1>3, <1>4, <1>6 DEF Frames, Grids
    <2>2. CASE paints
      BY <2>1, <2>2 DEF Frames, Painted
    <2>3. CASE ~ paints
      BY <2>1, <2>3
    <2> QED
      BY <2>2, <2>3
  <1> DEFINE k == [pc |-> "replaying", frame |-> frame(g), free |-> free]
  <1>8. k \in Jobs /\ k.pc = "replaying" /\ k.frame = frame(g) /\ job' = [job EXCEPT ![c] = k]
    BY <1>2, <1>5, <1>7
  <1> HIDE DEF k, frame
  <1>9. /\ job' \in [Conns -> Jobs] /\ job'[c] = k
        /\ \A d \in Conns : d # c => job'[d] = job[d]
    BY <1>3, <1>8
  <1>10. grid' \in Grids /\ grid'.exits = g.exits
    <2>1. Taken(g) \in Grids /\ Taken(g).exits = g.exits
      BY <1>4, TakenIs
    <2> QED
      BY <1>2, <1>4, <2>1
  <1>11. Shape'
    BY <1>1, <1>3, <1>9, <1>10 DEF HubInv, Shape, Grids
  <1>12. subs' # {} => Carried
    <2> SUFFICES ASSUME subs' # {} PROVE Carried
      OBVIOUS
    <2>1. grid' = g
      BY <1>1, <1>2
    <2> QED
      BY <1>1, <1>4, <2>1, MovedCarries DEF HubInv
  <1>13. Published' = Published
    BY <1>1 DEF Published
  <1>14. \A d \in attached' :
            job'[d].pc = "idle" => job[d].pc = "idle" /\ (d \in subs => d \in subs')
    BY <1>1, <1>8, <1>9 DEF HubInv, Shape
  <1>15. AttachedListens' /\ RepairKept' /\ NoByteSlips' /\ NobodyWaitsOnADeadStream'
    BY <1>1, <1>11, <1>12, <1>13, <1>14, QuietKeeps
  <1>16. ReplayCurrent'
    <2>1. drain.pc # "publish" /\ \A d \in Conns : job[d].pc # "replaying"
      BY <1>1 DEF Locked
    <2> QED
      BY <1>1, <1>7, <1>8, <1>9, <1>10, <2>1 DEF ReplayCurrent
  <1>17. DrainOrder' /\ ExitedAfterTheLastByte'
    BY <1>1 DEF HubInv, DrainOrder, ExitedAfterTheLastByte
  <1> QED
    BY <1>11, <1>15, <1>16, <1>17 DEF HubInv

-----------------------------------------------------------------------------
(* The actions that queue a frame.                                          *)

\* subscribers.retain(push): a subscriber is sent the frame or is closed and
\* dropped.
LEMMA PushAllIs ==
    ASSUME Shape, NEW f \in Frames, PushAll(f)
    PROVE  /\ conn' \in [Conns -> Outbounds] /\ subs' \subseteq subs
           /\ \A c \in Conns :
                 \/ c \notin subs /\ Passed(conn[c], conn'[c]) /\ c \notin subs'
                 \/ c \in subs /\ Passed(conn[c], conn'[c]) /\ conn'[c].closed /\ c \notin subs'
                 \/ c \in subs /\ Sent(conn[c], conn'[c], f) /\ c \in subs'
  <1>1. \A c \in Conns : conn[c] \in Outbounds
    BY ConnIs
  <1>2. \A c \in Conns : Push(conn[c], f) \in Outbounds
    BY <1>1, PushIs
  <1>3. \A c \in Conns : conn'[c] = IF c \in subs THEN Push(conn[c], f) ELSE conn[c]
    BY DEF PushAll
  <1>4. conn' \in [Conns -> Outbounds]
    BY <1>1, <1>2 DEF PushAll
  <1>5. subs' = {c \in subs : Kept(conn[c], f)}
    BY DEF PushAll
  <1>6. ASSUME NEW c \in Conns
        PROVE  \/ c \notin subs /\ Passed(conn[c], conn'[c]) /\ c \notin subs'
               \/ c \in subs /\ Passed(conn[c], conn'[c]) /\ conn'[c].closed /\ c \notin subs'
               \/ c \in subs /\ Sent(conn[c], conn'[c], f) /\ c \in subs'
    <2>1. CASE c \notin subs
      BY <1>3, <1>5, <2>1 DEF Passed
    <2>2. CASE c \in subs /\ Kept(conn[c], f)
      BY <1>1, <1>3, <1>5, <2>2, PushIs
    <2>3. CASE c \in subs /\ ~ Kept(conn[c], f)
      BY <1>1, <1>3, <1>5, <2>3, PushIs
    <2> QED
      BY <2>1, <2>2, <2>3
  <1> QED
    BY <1>4, <1>5, <1>6

\* publish's loop goes on from u, or ends and puts a deferred repair back.
LEMMA LoopIs ==
    ASSUME Shape, fed' = fed, NEW g \in Grids, NEW u \in 0 .. fed, NEW s \in BOOLEAN,
           NEW d \in BOOLEAN, Loop(g, u, s, d)
    PROVE  /\ drain' \in [pc : {"read", "publish", "eof", "done"}, at : Nat,
                          synthesized : BOOLEAN, deferred : BOOLEAN]
           /\ grid' \in Grids /\ grid'.alt = g.alt /\ grid'.exits = g.exits
           /\ g.latch => grid'.latch
           /\ d => grid'.latch \/ (drain'.pc = "publish" /\ drain'.deferred)
           /\ Published' = u /\ drain'.pc \in {"publish", "read"} /\ drain'.at <= fed'
  <1>1. fed \in Nat /\ u \in Nat
    BY DEF Shape
  <1>2. CASE u < fed
    <2>1. /\ drain' = [pc |-> "publish", at |-> u, synthesized |-> s, deferred |-> d]
          /\ grid' = g
      BY <1>2 DEF Loop
    <2> QED
      BY <1>1, <2>1 DEF Published
  <1>3. CASE ~ (u < fed)
    <2>1. /\ drain' = [drain EXCEPT !.pc = "read", !.at = u]
          /\ grid' = [g EXCEPT !.latch = @ \/ d]
      BY <1>3 DEF Loop
    <2>2. u = fed
      BY <1>1, <1>3
    <2>3. /\ drain'.pc = "read" /\ drain'.at = u
          /\ drain' \in [pc : {"read", "publish", "eof", "done"}, at : Nat,
                          synthesized : BOOLEAN, deferred : BOOLEAN]
      BY <1>1, <2>1 DEF Shape
    <2>4. /\ grid' \in Grids /\ grid'.alt = g.alt /\ grid'.exits = g.exits
          /\ d \/ g.latch => grid'.latch
      BY <2>1, TakenIs
    <2> QED
      BY <1>1, <2>2, <2>3, <2>4 DEF Published
  <1> QED
    BY <1>2, <1>3
\* The rest of a chunk without a splice point.
LEMMA PublishRestStep ==
    ASSUME HubInv, PublishRest
    PROVE  HubInv'
  <1>1. /\ view' = view /\ ending' = ending /\ attached' = attached /\ job' = job
        /\ fed' = fed /\ dropped' = dropped /\ present' = present
        /\ child' = child /\ reaped' = reaped /\ produced' = produced
        /\ drain.pc = "publish" /\ PushAll(Raw(drain.at, fed))
    BY DEF PublishRest, process
  <1>2. PICK g \in Advance(grid) : Loop(g, fed, drain.synthesized, drain.deferred)
    BY DEF PublishRest
  <1>3. /\ Shape /\ fed \in Nat /\ drain.at \in Nat /\ grid \in Grids
        /\ drain.synthesized \in BOOLEAN /\ drain.deferred \in BOOLEAN
    BY DEF HubInv, Shape, Grids
  <1>4. Moved(grid, g) /\ g \in Grids
    BY <1>3, AdvanceMoves DEF Moved
  <1> DEFINE f == Raw(drain.at, fed)
  <1>5. /\ f \in Frames /\ f.kind = "output" /\ f.from = Published /\ f.to = fed
        /\ f.paint = 0
    BY <1>1, <1>3, <1>4, FramesAre DEF Published, Endings
  <1> HIDE DEF f
  <1>6. /\ conn' \in [Conns -> Outbounds] /\ subs' \subseteq subs
        /\ \A c \in Conns :
              \/ c \notin subs /\ Passed(conn[c], conn'[c]) /\ c \notin subs'
              \/ c \in subs /\ Passed(conn[c], conn'[c]) /\ conn'[c].closed /\ c \notin subs'
              \/ c \in subs /\ Sent(conn[c], conn'[c], f) /\ c \in subs'
    BY <1>1, <1>3, <1>5, PushAllIs DEF f
  <1>7. /\ drain' \in [pc : {"read", "publish", "eof", "done"}, at : Nat,
                       synthesized : BOOLEAN, deferred : BOOLEAN]
        /\ grid' \in Grids /\ grid'.alt = g.alt /\ grid'.exits = g.exits
        /\ g.latch => grid'.latch
        /\ drain.deferred => grid'.latch \/ (drain'.pc = "publish" /\ drain'.deferred)
        /\ Published' = fed /\ drain'.pc \in {"publish", "read"} /\ drain'.at <= fed'
    <2>1. fed \in 0 .. fed
      BY <1>3
    <2> QED
      BY <1>1, <1>2, <1>3, <1>4, <2>1, LoopIs
  <1>8. Shape'
    BY <1>1, <1>3, <1>6, <1>7 DEF Shape, Outbounds, Queues, Grids
  <1>9. Carried
    <2>1. CASE g.alt
      BY <1>7, <2>1 DEF Carried
    <2>2. CASE g.latch
      BY <1>7, <2>2 DEF Carried
    <2>3. CASE drain.deferred
      BY <1>7, <2>3 DEF Carried
    <2>4. CASE ~ drain.deferred /\ ~ g.latch /\ ~ grid.alt /\ g.latch = grid.latch
               /\ g.exits = grid.exits
      BY <1>7, <2>4 DEF Carried
    <2> QED
      BY <1>4, <2>1, <2>2, <2>3, <2>4 DEF Moved
  <1>10. RepairKept'
    <2>1. ASSUME NEW c \in subs'
          PROVE  /\ c \in subs /\ Carried
                 /\ \E h \in Frames : /\ Sent(conn[c], conn'[c], h) /\ h.kind # "replay"
                                      /\ h.paint = 0 \/ ~ Streamed(h)
      <3>1. c \in Conns
        BY <1>3, <1>6 DEF Shape
      <3>2. Sent(conn[c], conn'[c], f) /\ c \in subs
        BY <1>6, <3>1
      <3> QED
        BY <1>5, <1>9, <3>2
    <2> QED
      BY <1>1, <1>8, <2>1, RepairCarries DEF HubInv
  <1>11. NoByteSlips'
    <2>1. \A c \in Conns :
             \/ Passed(conn[c], conn'[c]) /\ c \notin subs'
             \/ \E h \in Frames : /\ Sent(conn[c], conn'[c], h) /\ h.kind = "output"
                                  /\ c \in subs /\ h.from = Published /\ h.to = Published'
      BY <1>5, <1>6, <1>7
    <2> QED
      BY <1>1, <1>8, <2>1, SlipsKept DEF HubInv
  <1>12. AttachedListens' /\ NobodyWaitsOnADeadStream'
    <2>1. \A c \in Conns :
             /\ c \in subs /\ ~ conn'[c].closed => c \in subs'
             /\ \/ Passed(conn[c], conn'[c])
                \/ \E h \in Frames : Sent(conn[c], conn'[c], h) /\ h.kind # "replay"
      BY <1>5, <1>6
    <2> QED
      BY <1>1, <1>8, <2>1, EndingKept DEF HubInv
  <1>13. ReplayCurrent'
    BY <1>1 DEF HubInv, ReplayCurrent
  <1>14. DrainOrder' /\ ExitedAfterTheLastByte'
    BY <1>1, <1>7 DEF HubInv, DrainOrder, ExitedAfterTheLastByte
  <1> QED
    BY <1>8, <1>10, <1>11, <1>12, <1>13, <1>14 DEF HubInv

\* The bytes up to a splice point, with the repaint where there is room for it.
LEMMA PublishSpliceStep ==
    ASSUME HubInv, NEW u \in 1 .. fed, PublishSplice(u)
    PROVE  HubInv'
  <1>1. /\ view' = view /\ ending' = ending /\ attached' = attached /\ job' = job
        /\ fed' = fed /\ dropped' = dropped /\ present' = present
        /\ child' = child /\ reaped' = reaped /\ produced' = produced
        /\ drain.pc = "publish"
    BY DEF PublishSplice, process
  <1> DEFINE raw == Raw(drain.at, u)
             spliced(g) == Painted(raw, g)
             fits(g) == {c \in subs : ~ drain.synthesized /\ Fits(conn[c], spliced(g))}
  <1>2. PICK g \in Advance(grid) :
           /\ conn' = [c \in Conns |->
                         IF c \in fits(g) THEN Queue(conn[c], spliced(g))
                         ELSE IF c \in subs THEN Push(conn[c], raw) ELSE conn[c]]
           /\ subs' = fits(g) \cup {c \in subs : Kept(conn[c], raw)}
           /\ Loop(Taken(g), u, drain.synthesized \/ subs # {},
                   drain.deferred \/ subs # fits(g))
    BY DEF PublishSplice
  <1>3. /\ Shape /\ fed \in Nat /\ drain.at \in Nat /\ grid \in Grids /\ u \in Nat
        /\ drain.synthesized \in BOOLEAN /\ drain.deferred \in BOOLEAN
        /\ subs \subseteq Conns
    BY DEF HubInv, Shape, Grids
  <1>4. g \in Grids
    BY <1>3, AdvanceMoves DEF Moved
  <1> DEFINE sp == spliced(g)
             fit == fits(g)
  <1>5. /\ raw \in Frames /\ raw.kind = "output" /\ raw.from = Published /\ raw.to = u
        /\ raw.paint = 0
        /\ sp \in Frames /\ sp.kind = "output" /\ sp.from = Published
        /\ sp.to = u /\ sp.paint = g.exits + 1
    BY <1>1, <1>3, <1>4, FramesAre DEF Published, Endings
  <1>6. /\ fit \subseteq subs
        /\ \A c \in fit : ~ conn[c].closed
        /\ conn' = [c \in Conns |-> IF c \in fit THEN Queue(conn[c], sp)
                                    ELSE IF c \in subs THEN Push(conn[c], raw) ELSE conn[c]]
        /\ subs' = fit \cup {c \in subs : Kept(conn[c], raw)}
        /\ Loop(Taken(g), u, drain.synthesized \/ subs # {}, drain.deferred \/ subs # fit)
    BY <1>2 DEF Fits
  <1> HIDE DEF raw, sp, fit, spliced, fits
  <1>7. \A c \in Conns : conn[c] \in Outbounds
    BY <1>3, ConnIs
  <1>8. /\ \A c \in Conns : Push(conn[c], raw) \in Outbounds
        /\ \A c \in fit : Queue(conn[c], sp) \in Outbounds /\ Sent(conn[c], Queue(conn[c], sp), sp)
    BY <1>3, <1>5, <1>6, <1>7, PushIs, QueueIs
  <1>9. conn' \in [Conns -> Outbounds]
    BY <1>6, <1>7, <1>8
  <1>10. ASSUME NEW c \in Conns
         PROVE  \/ c \notin subs /\ Passed(conn[c], conn'[c]) /\ c \notin subs'
                \/ c \in subs /\ Passed(conn[c], conn'[c]) /\ conn'[c].closed /\ c \notin subs'
                \/ c \in subs /\ Sent(conn[c], conn'[c], raw) /\ c \in subs' /\ c \notin fit
                \/ c \in subs /\ Sent(conn[c], conn'[c], sp) /\ c \in subs' /\ c \in fit
    <2>1. CASE c \in fit
      <3>1. conn'[c] = Queue(conn[c], sp) /\ c \in subs' /\ c \in subs
        BY <1>6, <2>1
      <3> QED
        BY <1>8, <2>1, <3>1
    <2>2. CASE c \notin subs
      <3>1. conn'[c] = conn[c] /\ c \notin subs'
        BY <1>6, <2>2
      <3> QED
        BY <2>2, <3>1 DEF Passed
    <2>3. CASE c \in subs /\ c \notin fit
      <3>1. conn'[c] = Push(conn[c], raw) /\ (c \in subs' <=> Kept(conn[c], raw))
        BY <1>6, <2>3
      <3> QED
        BY <1>5, <1>7, <2>3, <3>1, PushIs
    <2> QED
      BY <2>1, <2>2, <2>3
  <1>11. /\ drain' \in [pc : {"read", "publish", "eof", "done"}, at : Nat,
                        synthesized : BOOLEAN, deferred : BOOLEAN]
         /\ grid' \in Grids /\ grid'.exits = g.exits
         /\ subs # fit => grid'.latch \/ (drain'.pc = "publish" /\ drain'.deferred)
         /\ Published' = u /\ drain'.pc \in {"publish", "read"} /\ drain'.at <= fed'
    <2>1. /\ u \in 0 .. fed /\ (drain.synthesized \/ subs # {}) \in BOOLEAN
          /\ (drain.deferred \/ subs # fit) \in BOOLEAN
      BY <1>3
    <2>2. Taken(g) \in Grids /\ Taken(g).exits = g.exits
      BY <1>4, TakenIs
    <2> QED
      BY <1>1, <1>3, <1>6, <2>1, <2>2, LoopIs
  <1>12. Shape'
    BY <1>1, <1>3, <1>6, <1>9, <1>11 DEF Shape, Outbounds, Queues, Grids
  <1>13. RepairKept'
    <2>1. ASSUME NEW c \in subs'
          PROVE  \/ \E h \in Frames : /\ Sent(conn[c], conn'[c], h) /\ Streamed(h)
                                      /\ h.paint = grid'.exits + 1
                 \/ /\ c \in subs /\ Carried
                    /\ \E h \in Frames : /\ Sent(conn[c], conn'[c], h) /\ h.kind # "replay"
                                         /\ h.paint = 0 \/ ~ Streamed(h)
      <3>1. c \in Conns
        BY <1>12 DEF Shape
      <3>2. CASE c \in fit
        <4>1. Sent(conn[c], conn'[c], sp)
          BY <1>10, <3>1, <3>2
        <4> QED
          BY <1>5, <1>11, <4>1 DEF Streamed
      <3>3. CASE c \notin fit
        <4>1. Sent(conn[c], conn'[c], raw) /\ c \in subs
          BY <1>10, <3>1, <3>3
        <4>2. subs # fit
          BY <3>3, <4>1
        <4>3. Carried
          BY <1>11, <4>2 DEF Carried
        <4> QED
          BY <1>5, <4>1, <4>3
      <3> QED
        BY <3>2, <3>3
    <2> QED
      BY <1>1, <1>3, <1>12, <2>1, RepairCarries DEF HubInv
  <1>14. NoByteSlips'
    <2>1. \A c \in Conns :
             \/ Passed(conn[c], conn'[c]) /\ c \notin subs'
             \/ \E h \in Frames : /\ Sent(conn[c], conn'[c], h) /\ h.kind = "output"
                                  /\ c \in subs /\ h.from = Published /\ h.to = Published'
      BY <1>5, <1>10, <1>11
    <2> QED
      BY <1>1, <1>12, <2>1, SlipsKept DEF HubInv
  <1>15. AttachedListens' /\ NobodyWaitsOnADeadStream'
    <2>1. \A c \in Conns :
             /\ c \in subs /\ ~ conn'[c].closed => c \in subs'
             /\ \/ Passed(conn[c], conn'[c])
                \/ \E h \in Frames : Sent(conn[c], conn'[c], h) /\ h.kind # "replay"
      BY <1>5, <1>10
    <2> QED
      BY <1>1, <1>12, <2>1, EndingKept DEF HubInv
  <1>16. ReplayCurrent'
    BY <1>1 DEF HubInv, ReplayCurrent
  <1>17. DrainOrder' /\ ExitedAfterTheLastByte'
    BY <1>1, <1>11 DEF HubInv, DrainOrder, ExitedAfterTheLastByte
  <1> QED
    BY <1>12, <1>13, <1>14, <1>15, <1>16, <1>17 DEF HubInv
\* An ending goes to every subscriber: the exit, or the session's removal.
LEMMA EndingPushed ==
    ASSUME HubInv, NEW e \in Endings, PushAll(Ending(e)), ending' = e, view' = view,
           attached' = attached, job' = job, grid' = grid, fed' = fed, dropped' = dropped,
           child' = child, reaped' \in BOOLEAN, produced' = produced, present' \in BOOLEAN,
           drain.pc # "publish", drain'.pc # "publish",
           drain' \in [pc : {"read", "publish", "eof", "done"}, at : Nat,
                       synthesized : BOOLEAN, deferred : BOOLEAN]
    PROVE  /\ Shape' /\ AttachedListens' /\ RepairKept' /\ NoByteSlips'
           /\ NobodyWaitsOnADeadStream' /\ ReplayCurrent'
  <1>1. Shape /\ grid \in Grids /\ 0 \in Nat
    BY DEF HubInv, Shape, Grids
  <1> DEFINE f == Ending(e)
  <1>2. f \in Frames /\ f.kind = e /\ ~ Streamed(f) /\ f.kind # "replay"
    BY <1>1, FramesAre DEF Endings
  <1> HIDE DEF f
  <1>3. /\ conn' \in [Conns -> Outbounds] /\ subs' \subseteq subs
        /\ \A c \in Conns :
              \/ c \notin subs /\ Passed(conn[c], conn'[c]) /\ c \notin subs'
              \/ c \in subs /\ Passed(conn[c], conn'[c]) /\ conn'[c].closed /\ c \notin subs'
              \/ c \in subs /\ Sent(conn[c], conn'[c], f) /\ c \in subs'
    BY <1>1, <1>2, PushAllIs DEF f
  <1>4. Shape'
    BY <1>1, <1>3 DEF Shape, Outbounds, Queues
  <1>5. Published' = Published /\ Carried
    BY DEF Published, Carried
  <1>6. RepairKept'
    <2>1. ASSUME NEW c \in subs'
          PROVE  /\ c \in subs /\ Carried
                 /\ \E h \in Frames : /\ Sent(conn[c], conn'[c], h) /\ h.kind # "replay"
                                      /\ h.paint = 0 \/ ~ Streamed(h)
      <3>1. c \in Conns
        BY <1>4 DEF Shape
      <3>2. Sent(conn[c], conn'[c], f) /\ c \in subs
        BY <1>3, <3>1
      <3> QED
        BY <1>2, <1>5, <3>2
    <2> QED
      BY <1>4, <2>1, RepairCarries DEF HubInv
  <1>7. NoByteSlips'
    <2>1. \A c \in Conns :
             /\ \/ Passed(conn[c], conn'[c])
                \/ \E h \in Frames : Sent(conn[c], conn'[c], h) /\ ~ Streamed(h)
             /\ c \in subs' => c \in subs /\ Published' = Published
      BY <1>2, <1>3, <1>5
    <2> QED
      BY <1>4, <2>1, SlipsKept DEF HubInv
  <1>8. AttachedListens' /\ NobodyWaitsOnADeadStream'
    <2>1. \A c \in Conns :
             \/ c \notin subs /\ Passed(conn[c], conn'[c])
             \/ conn'[c].closed
             \/ \E h \in Frames : Sent(conn[c], conn'[c], h) /\ h.kind \in Endings
      BY <1>2, <1>3
    <2>2. ending' # "none"
      BY DEF Endings
    <2> QED
      BY <1>4, <2>1, <2>2, EndingTold DEF HubInv
  <1>9. ReplayCurrent'
    BY DEF HubInv, ReplayCurrent
  <1> QED
    BY <1>4, <1>6, <1>7, <1>8, <1>9

\* The drain reports the exit.
LEMMA ReportExitStep ==
    ASSUME HubInv, ReportExit
    PROVE  HubInv'
  <1>1. /\ view' = view /\ attached' = attached /\ job' = job /\ grid' = grid
        /\ fed' = fed /\ dropped' = dropped /\ present' = present
        /\ child' = child /\ reaped' = reaped /\ produced' = produced
        /\ drain.pc = "eof" /\ drain' = [drain EXCEPT !.pc = "done"]
    BY DEF ReportExit, process
  <1>2. /\ drain' \in [pc : {"read", "publish", "eof", "done"}, at : Nat,
                       synthesized : BOOLEAN, deferred : BOOLEAN]
        /\ drain'.pc = "done" /\ reaped \in BOOLEAN /\ present \in BOOLEAN
    BY <1>1 DEF HubInv, Shape
  <1>3. CASE present
    <2>1. ending' = "exited" /\ PushAll(Ending("exited")) /\ "exited" \in Endings
      BY <1>3 DEF ReportExit, Endings
    <2>2. /\ Shape' /\ AttachedListens' /\ RepairKept' /\ NoByteSlips'
          /\ NobodyWaitsOnADeadStream' /\ ReplayCurrent'
      BY <1>1, <1>2, <2>1, EndingPushed
    <2>3. DrainOrder' /\ ExitedAfterTheLastByte'
      BY <1>1, <1>2, <1>3, <2>1 DEF HubInv, DrainOrder, ExitedAfterTheLastByte
    <2> QED
      BY <2>2, <2>3 DEF HubInv
  <1>4. CASE ~ present
    <2>1. ending' = ending /\ subs' = subs /\ conn' = conn
      BY <1>4 DEF ReportExit
    <2>2. Shape'
      BY <1>1, <1>2, <2>1 DEF HubInv, Shape
    <2>3. Carried /\ Published' = Published
      BY <1>1, <1>2 DEF Carried, Published
    <2>4. AttachedListens' /\ RepairKept' /\ NoByteSlips' /\ NobodyWaitsOnADeadStream'
      BY <1>1, <2>1, <2>2, <2>3, QuietKeeps
    <2>5. ReplayCurrent'
      BY <1>1, <1>2 DEF HubInv, ReplayCurrent
    <2>6. DrainOrder' /\ ExitedAfterTheLastByte'
      BY <1>1, <1>2, <1>4, <2>1 DEF HubInv, DrainOrder, ExitedAfterTheLastByte
    <2> QED
      BY <2>2, <2>4, <2>5, <2>6 DEF HubInv
  <1> QED
    BY <1>3, <1>4

\* The session is removed.
LEMMA KillStep ==
    ASSUME HubInv, Kill
    PROVE  HubInv'
  <1>1. /\ view' = view /\ attached' = attached /\ job' = job /\ grid' = grid
        /\ fed' = fed /\ dropped' = dropped /\ drain' = drain /\ present' = FALSE
        /\ child' = child /\ reaped' = reaped /\ produced' = produced
        /\ ending' = "removed" /\ PushAll(Ending("removed")) /\ "removed" \in Endings
        /\ drain.pc # "publish"
    BY DEF Kill, stream, process, Locked, Endings
  <1>2. /\ drain' \in [pc : {"read", "publish", "eof", "done"}, at : Nat,
                       synthesized : BOOLEAN, deferred : BOOLEAN]
        /\ reaped \in BOOLEAN
    BY <1>1 DEF HubInv, Shape
  <1>3. /\ Shape' /\ AttachedListens' /\ RepairKept' /\ NoByteSlips'
        /\ NobodyWaitsOnADeadStream' /\ ReplayCurrent'
    BY <1>1, <1>2, EndingPushed
  <1>4. DrainOrder' /\ ExitedAfterTheLastByte'
    BY <1>1 DEF DrainOrder, ExitedAfterTheLastByte
  <1> QED
    BY <1>3, <1>4 DEF HubInv

\* Everyone is repainted.
LEMMA RepaintStep ==
    ASSUME HubInv, Repaint
    PROVE  HubInv'
  <1>1. /\ view' = view /\ ending' = ending /\ attached' = attached /\ job' = job
        /\ fed' = fed /\ dropped' = dropped /\ drain' = drain /\ present' = present
        /\ child' = child /\ reaped' = reaped /\ produced' = produced /\ ~ Locked
    BY DEF Repaint, process, stream
  <1>2. PICK g \in Flushed(grid) : grid' = g /\ PushAll(Painted(Raw(fed, fed), g))
    BY DEF Repaint
  <1>3. Shape /\ fed \in Nat /\ grid \in Grids /\ "exited" \in Endings /\ drain.pc # "publish"
    BY <1>1 DEF HubInv, Shape, Grids, Endings, Locked
  <1>4. g \in Grids
    BY <1>3, FlushedMoves DEF Moved
  <1> DEFINE f == Painted(Raw(fed, fed), g)
  <1>5. /\ f \in Frames /\ f.kind = "output" /\ f.from = Published /\ f.to = Published'
        /\ f.paint = grid'.exits + 1 /\ Streamed(f)
    BY <1>1, <1>2, <1>3, <1>4, FramesAre DEF Published, Streamed
  <1> HIDE DEF f
  <1>6. /\ conn' \in [Conns -> Outbounds] /\ subs' \subseteq subs
        /\ \A c \in Conns :
              \/ c \notin subs /\ Passed(conn[c], conn'[c]) /\ c \notin subs'
              \/ c \in subs /\ Passed(conn[c], conn'[c]) /\ conn'[c].closed /\ c \notin subs'
              \/ c \in subs /\ Sent(conn[c], conn'[c], f) /\ c \in subs'
    BY <1>2, <1>3, <1>5, PushAllIs DEF f
  <1>7. Shape'
    BY <1>1, <1>2, <1>3, <1>4, <1>6 DEF Shape, Outbounds, Queues, Grids
  <1>8. RepairKept'
    <2>1. ASSUME NEW c \in subs'
          PROVE  \E h \in Frames : /\ Sent(conn[c], conn'[c], h) /\ Streamed(h)
                                   /\ h.paint = grid'.exits + 1
      <3>1. c \in Conns
        BY <1>7 DEF Shape
      <3> QED
        BY <1>5, <1>6, <3>1
    <2> QED
      BY <1>1, <1>7, <2>1, RepairCarries DEF HubInv
  <1>9. NoByteSlips'
    <2>1. \A c \in Conns :
             \/ Passed(conn[c], conn'[c]) /\ c \notin subs'
             \/ \E h \in Frames : /\ Sent(conn[c], conn'[c], h) /\ h.kind = "output"
                                  /\ c \in subs /\ h.from = Published /\ h.to = Published'
      BY <1>5, <1>6
    <2> QED
      BY <1>1, <1>7, <2>1, SlipsKept DEF HubInv
  <1>10. AttachedListens' /\ NobodyWaitsOnADeadStream'
    <2>1. \A c \in Conns :
             /\ c \in subs /\ ~ conn'[c].closed => c \in subs'
             /\ \/ Passed(conn[c], conn'[c])
                \/ \E h \in Frames : Sent(conn[c], conn'[c], h) /\ h.kind # "replay"
      BY <1>5, <1>6
    <2> QED
      BY <1>1, <1>7, <2>1, EndingKept DEF HubInv
  <1>11. ReplayCurrent'
    BY <1>1 DEF ReplayCurrent, Locked
  <1>12. DrainOrder' /\ ExitedAfterTheLastByte'
    BY <1>1 DEF HubInv, DrainOrder, ExitedAfterTheLastByte
  <1> QED
    BY <1>7, <1>8, <1>9, <1>10, <1>11, <1>12 DEF HubInv

\* The sweep repaints those with room and keeps the repair for the others.
LEMMA FlushStalledStep ==
    ASSUME HubInv, FlushStalled
    PROVE  HubInv'
  <1>1. /\ view' = view /\ ending' = ending /\ attached' = attached /\ job' = job
        /\ fed' = fed /\ dropped' = dropped /\ drain' = drain /\ present' = present
        /\ child' = child /\ reaped' = reaped /\ produced' = produced /\ ~ Locked
    BY DEF FlushStalled, process, stream
  <1> DEFINE paint(g) == Painted(Raw(fed, fed), g)
             open == {c \in subs : ~ conn[c].closed}
             fits(g) == {c \in open : Fits(conn[c], paint(g))}
  <1>2. PICK g \in Flushed(grid) :
           IF ~ Takes(g) THEN grid' = g /\ subs' = subs /\ conn' = conn
           ELSE /\ subs' = open
                /\ conn' = [c \in Conns |-> IF c \in fits(g) THEN Queue(conn[c], paint(g))
                                            ELSE conn[c]]
                /\ grid' = [Taken(g) EXCEPT !.latch = @ \/ open # fits(g)]
    BY DEF FlushStalled
  <1>3. Shape /\ fed \in Nat /\ grid \in Grids /\ "exited" \in Endings /\ drain.pc # "publish"
    BY <1>1 DEF HubInv, Shape, Grids, Endings, Locked
  <1>4. Moved(grid, g) /\ g \in Grids
    BY <1>3, FlushedMoves DEF Moved
  <1>5. ReplayCurrent'
    BY <1>1 DEF ReplayCurrent, Locked
  <1>6. DrainOrder' /\ ExitedAfterTheLastByte'
    BY <1>1 DEF HubInv, DrainOrder, ExitedAfterTheLastByte
  <1>7. CASE ~ Takes(g)
    <2>1. grid' = g /\ subs' = subs /\ conn' = conn
      BY <1>2, <1>7
    <2>2. Shape'
      BY <1>1, <1>3, <1>4, <2>1 DEF Shape, Grids
    <2>3. Carried /\ Published' = Published
      BY <1>1, <1>3, <1>4, <2>1, MovedCarries DEF Published
    <2>4. AttachedListens' /\ RepairKept' /\ NoByteSlips' /\ NobodyWaitsOnADeadStream'
      BY <1>1, <2>1, <2>2, <2>3, QuietKeeps
    <2> QED
      BY <1>5, <1>6, <2>2, <2>4 DEF HubInv
  <1>8. CASE Takes(g)
    <2> DEFINE f == paint(g)
               fit == fits(g)
    <2>1. /\ subs' = open
          /\ conn' = [c \in Conns |-> IF c \in fit THEN Queue(conn[c], f) ELSE conn[c]]
          /\ grid' = [Taken(g) EXCEPT !.latch = @ \/ open # fit]
          /\ fit \subseteq open
      BY <1>2, <1>8
    <2>2. /\ f \in Frames /\ f.kind = "output" /\ f.from = Published /\ f.to = Published'
          /\ f.paint = g.exits + 1 /\ Streamed(f)
      BY <1>1, <1>3, <1>4, FramesAre DEF Published, Streamed
    <2> HIDE DEF f, fit, paint, fits
    <2>3. /\ grid' \in Grids /\ grid'.exits = g.exits
          /\ open # fit => grid'.latch
      <3> DEFINE t == Taken(g)
                 d == open # fit
      <3>1. t \in Grids /\ t.exits = g.exits
        BY <1>4, TakenIs
      <3>2. d \in BOOLEAN /\ grid' = [t EXCEPT !.latch = @ \/ d] /\ (open # fit => d)
        BY <2>1
      <3> HIDE DEF t, d
      <3>3. /\ [t EXCEPT !.latch = @ \/ d] \in Grids
            /\ [t EXCEPT !.latch = @ \/ d].exits = t.exits
            /\ d => [t EXCEPT !.latch = @ \/ d].latch
        BY <3>1, <3>2, TakenIs
      <3> QED
        BY <3>1, <3>2, <3>3
    <2>4. \A c \in Conns : conn[c] \in Outbounds
      BY <1>3, ConnIs
    <2>5. subs \subseteq Conns /\ \A c \in fit : c \in Conns /\ c \in subs /\ ~ conn[c].closed
      BY <1>3, <2>1 DEF Shape
    <2>6. \A c \in fit : Queue(conn[c], f) \in Outbounds /\ Sent(conn[c], Queue(conn[c], f), f)
      BY <2>2, <2>4, <2>5, QueueIs
    <2>7. conn' \in [Conns -> Outbounds]
      BY <2>1, <2>4, <2>6
    <2>8. ASSUME NEW c \in Conns
          PROVE  /\ c \in fit => Sent(conn[c], conn'[c], f) /\ c \in subs
                 /\ c \notin fit => Passed(conn[c], conn'[c])
                 /\ c \in subs' <=> c \in subs /\ ~ conn[c].closed
      BY <2>1, <2>5, <2>6 DEF Passed
    <2>9. Shape'
      BY <1>1, <1>3, <2>1, <2>3, <2>7 DEF Shape, Outbounds, Queues, Grids
    <2>10. RepairKept'
      <3>1. ASSUME NEW c \in subs'
            PROVE  \/ \E h \in Frames : /\ Sent(conn[c], conn'[c], h) /\ Streamed(h)
                                        /\ h.paint = grid'.exits + 1
                   \/ c \in subs /\ Carried /\ Passed(conn[c], conn'[c])
        <4>1. c \in Conns
          BY <2>9 DEF Shape
        <4>2. CASE c \in fit
          BY <2>2, <2>3, <2>8, <4>1, <4>2
        <4>3. CASE c \notin fit
          <5>1. open # fit
            BY <2>1, <4>3
          <5>2. Carried
            BY <2>3, <5>1 DEF Carried
          <5> QED
            BY <2>8, <4>1, <4>3, <5>2
        <4> QED
          BY <4>2, <4>3
      <3> QED
        BY <1>1, <1>3, <2>9, <3>1, RepairCarries DEF HubInv
    <2>11. NoByteSlips'
      <3>1. Published' = Published
        BY <1>1 DEF Published
      <3>2. \A c \in Conns :
               \/ /\ Passed(conn[c], conn'[c])
                  /\ c \in subs' => c \in subs /\ Published' = Published
               \/ \E h \in Frames : /\ Sent(conn[c], conn'[c], h) /\ h.kind = "output"
                                    /\ c \in subs /\ h.from = Published /\ h.to = Published'
        BY <2>2, <2>8, <3>1
      <3> QED
        BY <1>1, <2>9, <3>2, SlipsKept DEF HubInv
    <2>12. AttachedListens' /\ NobodyWaitsOnADeadStream'
      <3>1. \A c \in Conns :
               /\ c \in subs /\ ~ conn'[c].closed => c \in subs'
               /\ \/ Passed(conn[c], conn'[c])
                  \/ \E h \in Frames : Sent(conn[c], conn'[c], h) /\ h.kind # "replay"
        BY <2>2, <2>8 DEF Passed, Sent
      <3> QED
        BY <1>1, <2>9, <3>1, EndingKept DEF HubInv
    <2> QED
      BY <1>5, <1>6, <2>9, <2>10, <2>11, <2>12 DEF HubInv
  <1> QED
    BY <1>7, <1>8
\* A frame from elsewhere on the connection.
LEMMA OtherPushStep ==
    ASSUME HubInv, NEW c \in Conns, OtherPush(c)
    PROVE  HubInv'
  <1>1. /\ view' = view /\ ending' = ending /\ attached' = attached /\ job' = job
        /\ fed' = fed /\ dropped' = dropped /\ drain' = drain /\ present' = present
        /\ child' = child /\ reaped' = reaped /\ produced' = produced /\ grid' = grid
        /\ subs' = subs /\ conn' = [conn EXCEPT ![c] = Push(conn[c], Other)]
    BY DEF OtherPush, process, stream
  <1>2. Shape /\ grid \in Grids /\ "exited" \in Endings /\ 0 \in Nat
    BY DEF HubInv, Shape, Grids, Endings
  <1>3. Other \in Frames /\ Other.kind # "replay" /\ ~ Streamed(Other)
    BY <1>2, FramesAre
  <1>4. conn \in [Conns -> Outbounds]
    BY <1>2 DEF Shape, Outbounds, Queues
  <1>5. Push(conn[c], Other) \in Outbounds
    BY <1>3, <1>4, PushIs
  <1>6. conn' \in [Conns -> Outbounds]
    BY <1>1, <1>4, <1>5
  <1>7. ASSUME NEW d \in Conns
        PROVE  Passed(conn[d], conn'[d]) \/ Sent(conn[d], conn'[d], Other)
    <2>1. CASE d = c
      BY <1>1, <1>3, <1>4, <2>1, PushIs
    <2>2. CASE d # c
      BY <1>1, <1>4, <2>2 DEF Passed
    <2> QED
      BY <2>1, <2>2
  <1>8. Shape'
    BY <1>1, <1>2, <1>6 DEF Shape, Outbounds, Queues
  <1>9. Carried /\ Published' = Published
    BY <1>1, GridSame
  <1>10. RepairKept'
    <2>1. ASSUME NEW d \in subs'
          PROVE  /\ d \in subs /\ Carried
                 /\ \/ Passed(conn[d], conn'[d])
                    \/ \E h \in Frames : /\ Sent(conn[d], conn'[d], h) /\ h.kind # "replay"
                                         /\ h.paint = 0 \/ ~ Streamed(h)
      <3>1. d \in Conns /\ d \in subs
        BY <1>1, <1>8 DEF Shape
      <3> QED
        BY <1>3, <1>7, <1>9, <3>1
    <2> QED
      BY <1>1, <1>2, <1>8, <2>1, RepairCarries DEF HubInv
  <1>11. NoByteSlips'
    <2>1. \A d \in Conns :
             /\ \/ Passed(conn[d], conn'[d])
                \/ \E h \in Frames : Sent(conn[d], conn'[d], h) /\ ~ Streamed(h)
             /\ d \in subs' => d \in subs /\ Published' = Published
      BY <1>1, <1>3, <1>7, <1>9
    <2> QED
      BY <1>1, <1>8, <2>1, SlipsKept DEF HubInv
  <1>12. AttachedListens' /\ NobodyWaitsOnADeadStream'
    <2>1. \A d \in Conns :
             /\ d \in subs /\ ~ conn'[d].closed => d \in subs'
             /\ \/ Passed(conn[d], conn'[d])
                \/ \E h \in Frames : Sent(conn[d], conn'[d], h) /\ h.kind # "replay"
      BY <1>1, <1>3, <1>7
    <2> QED
      BY <1>1, <1>8, <2>1, EndingKept DEF HubInv
  <1>13. ReplayCurrent'
    BY <1>1 DEF HubInv, ReplayCurrent
  <1>14. DrainOrder' /\ ExitedAfterTheLastByte'
    BY <1>1 DEF HubInv, DrainOrder, ExitedAfterTheLastByte
  <1> QED
    BY <1>8, <1>10, <1>11, <1>12, <1>13, <1>14 DEF HubInv

\* What the connection of an attach has when its replay is queued: it is
\* closed, or it is sent the replay, and an ending behind it if there is one.
LEMMA AttachPushIs ==
    ASSUME Shape, NEW c \in Conns, AttachPush(c), NEW f \in Frames, f = job[c].frame
    PROVE  /\ conn' \in [Conns -> Outbounds]
           /\ \A d \in Conns : d # c => conn'[d] = conn[d] /\ (d \in subs' <=> d \in subs)
           /\ subs' \subseteq Conns /\ (ending # "none" => subs' = subs)
           /\ \/ Passed(conn[c], conn'[c]) /\ conn'[c].closed
              \/ Sent(conn[c], conn'[c], f) /\ ending = "none" /\ c \in subs'
              \/ \E n \in Outbounds : \E e \in Frames :
                    /\ Sent(conn[c], n, f) /\ e.kind \in Endings /\ ending # "none"
                    /\ Sent(n, conn'[c], e) \/ (Passed(n, conn'[c]) /\ conn'[c].closed)
  <1> DEFINE kept == Kept(conn[c], f)
             n == Push(conn[c], f)
             k == IF kept /\ ending # "none" THEN Push(n, Ending(ending)) ELSE n
  <1>1. /\ conn' = [conn EXCEPT ![c] = k]
        /\ subs' = IF kept /\ ending = "none" THEN subs \cup {c} ELSE subs
    BY DEF AttachPush
  <1>2. /\ conn \in [Conns -> Outbounds] /\ grid \in Grids /\ 0 \in Nat
        /\ ending # "none" => ending \in Endings
        /\ subs \subseteq Conns
    BY DEF Shape, Outbounds, Queues, Grids
  <1>3. /\ n \in Outbounds
        /\ kept => Sent(conn[c], n, f)
        /\ ~ kept => Passed(conn[c], n) /\ n.closed
    BY <1>2, PushIs
  <1> DEFINE e == Ending(ending)
  <1>4. ending # "none" => e \in Frames /\ e.kind \in Endings
    BY <1>2, FramesAre
  <1> HIDE DEF n, e, kept
  <1>5. ending # "none" =>
          /\ Push(n, e) \in Outbounds
          /\ Sent(n, Push(n, e), e) \/ (Passed(n, Push(n, e)) /\ Push(n, e).closed)
    BY <1>3, <1>4, PushIs
  <1>6. k \in Outbounds
    BY <1>3, <1>5 DEF e
  <1>7. k = IF kept /\ ending # "none" THEN Push(n, e) ELSE n
    BY DEF e
  <1> HIDE DEF k
  <1>8. /\ conn' \in [Conns -> Outbounds] /\ conn'[c] = k
        /\ \A d \in Conns : d # c => conn'[d] = conn[d]
    BY <1>1, <1>2, <1>6
  <1>9. \/ Passed(conn[c], k) /\ k.closed
        \/ Sent(conn[c], k, f) /\ ending = "none" /\ c \in subs'
        \/ \E m \in Outbounds : \E h \in Frames :
              /\ Sent(conn[c], m, f) /\ h.kind \in Endings /\ ending # "none"
              /\ Sent(m, k, h) \/ (Passed(m, k) /\ k.closed)
    <2>1. CASE ~ kept
      BY <1>3, <1>7, <2>1
    <2>2. CASE kept /\ ending = "none"
      BY <1>1, <1>3, <1>7, <2>2
    <2>3. CASE kept /\ ending # "none"
      <3>1. /\ k = Push(n, e) /\ n \in Outbounds /\ e \in Frames /\ Sent(conn[c], n, f)
            /\ e.kind \in Endings
            /\ Sent(n, k, e) \/ (Passed(n, k) /\ k.closed)
        BY <1>3, <1>4, <1>5, <1>7, <2>3
      <3> QED
        BY <2>3, <3>1
    <2> QED
      BY <2>1, <2>2, <2>3
  <1> QED
    BY <1>1, <1>2, <1>8, <1>9

\* An attach queues its replay.
LEMMA AttachPushStep ==
    ASSUME HubInv, NEW c \in Conns, AttachPush(c)
    PROVE  HubInv'
  <1>1. /\ view' = view /\ ending' = ending /\ attached' = attached \cup {c}
        /\ fed' = fed /\ dropped' = dropped /\ drain' = drain /\ present' = present
        /\ child' = child /\ reaped' = reaped /\ produced' = produced /\ grid' = grid
        /\ job' = [job EXCEPT ![c] = Idle] /\ job[c].pc = "replaying"
    BY DEF AttachPush, process, stream
  <1> DEFINE f == job[c].frame
  <1>2. /\ Shape /\ f \in Frames /\ f.kind = "replay" /\ f.to = fed
        /\ f.paint \in {0, grid.exits + 1} /\ drain.pc # "publish"
    BY <1>1 DEF HubInv, Shape, ReplayCurrent
  <1>3. Published = fed /\ Published' = Published /\ Carried
    BY <1>1, <1>2, GridSame DEF Published
  <1>4. Streamed(f)
    BY <1>2 DEF Streamed
  <1>5. PICK h : h = f
    OBVIOUS
  <1> HIDE DEF f
  <1>6. /\ conn' \in [Conns -> Outbounds]
        /\ \A d \in Conns : d # c => conn'[d] = conn[d] /\ (d \in subs' <=> d \in subs)
        /\ subs' \subseteq Conns
        /\ \/ Passed(conn[c], conn'[c]) /\ conn'[c].closed
           \/ Sent(conn[c], conn'[c], h) /\ ending = "none" /\ c \in subs'
           \/ \E n \in Outbounds : \E e \in Frames :
                 /\ Sent(conn[c], n, h) /\ e.kind \in Endings /\ ending # "none"
                 /\ Sent(n, conn'[c], e) \/ (Passed(n, conn'[c]) /\ conn'[c].closed)
    BY <1>2, <1>5, AttachPushIs DEF f
  <1>7. job' \in [Conns -> [pc : {"idle", "attaching", "replaying", "detaching"},
                            frame : Frames, free : Nat]]
        /\ job'[c].pc = "idle" /\ \A d \in Conns : d # c => job'[d] = job[d]
    <2>1. Idle \in [pc : {"idle", "attaching", "replaying", "detaching"}, frame : Frames,
                    free : Nat] /\ Idle.pc = "idle"
      BY DEF Idle, Ending, Frames, Endings
    <2> QED
      BY <1>1, <1>2, <2>1 DEF Shape
  <1>8. Shape'
    BY <1>1, <1>2, <1>6, <1>7 DEF Shape, Outbounds, Queues
  <1>9. conn[c] \in Outbounds /\ conn'[c] \in Outbounds /\ conn[c].queue \in Queues
    BY <1>2, <1>6, ConnIs
  <1>10. /\ Chained(conn[c].queue, view[c])
         /\ h \in Frames /\ h.kind = "replay" /\ h.kind # "output" /\ h.to = fed /\ Streamed(h)
         /\ h.paint \in {0, grid.exits + 1}
    BY <1>2, <1>4, <1>5, SlipsAre DEF HubInv
  <1>11. ASSUME ~ conn'[c].closed
         PROVE  /\ Chained(conn'[c].queue, view[c])
                /\ Reaches(conn'[c].queue, view[c], Len(conn'[c].queue), fed)
                /\ ~ Stale(conn'[c].queue, view[c], grid.exits)
                /\ ending = "none" => c \in subs'
                /\ ending # "none" => Ended(conn'[c].queue, view[c])
    <2>1. ASSUME NEW n \in Outbounds, Sent(conn[c], n, h)
          PROVE  /\ Chained(n.queue, view[c])
                 /\ Reaches(n.queue, view[c], Len(n.queue), fed)
                 /\ ~ Stale(n.queue, view[c], grid.exits)
      <3>1. Chained(n.queue, view[c]) /\ Reaches(n.queue, view[c], Len(n.queue), fed)
        BY <1>9, <1>10, <2>1, SentChains
      <3>2. ASSUME Stale(n.queue, view[c], grid.exits) PROVE FALSE
        <4>1. Stale(Append(conn[c].queue, h), view[c], grid.exits) /\ grid.exits \in Nat
          BY <1>2, <2>1, <3>2 DEF Sent, Shape
        <4> QED
          BY <1>9, <1>10, <4>1, StaleAppend
      <3> QED
        BY <3>1, <3>2
    <2>2. CASE Sent(conn[c], conn'[c], h) /\ ending = "none" /\ c \in subs'
      BY <1>9, <2>1, <2>2
    <2>3. ASSUME NEW n \in Outbounds, NEW e \in Frames, Sent(conn[c], n, h),
                 e.kind \in Endings, ending # "none", Sent(n, conn'[c], e)
          PROVE  /\ Chained(conn'[c].queue, view[c])
                 /\ Reaches(conn'[c].queue, view[c], Len(conn'[c].queue), fed)
                 /\ ~ Stale(conn'[c].queue, view[c], grid.exits)
                 /\ Ended(conn'[c].queue, view[c])
      <3>1. /\ Chained(n.queue, view[c]) /\ Reaches(n.queue, view[c], Len(n.queue), fed)
            /\ ~ Stale(n.queue, view[c], grid.exits)
        BY <2>1, <2>3
      <3>2. e.kind # "output" /\ e.kind # "replay" /\ ~ Streamed(e)
        BY <2>3 DEF Endings, Streamed
      <3>3. /\ Chained(conn'[c].queue, view[c])
            /\ Reaches(conn'[c].queue, view[c], Len(conn'[c].queue), fed)
        BY <1>9, <2>3, <3>1, <3>2, SentChains
      <3>4. n.queue \in Queues /\ conn'[c].queue = Append(n.queue, e) /\ grid.exits \in Nat
        BY <1>2, <2>3 DEF Outbounds, Sent, Shape
      <3>5. Ended(conn'[c].queue, view[c])
        BY <2>3, <3>4, EndedAppend
      <3>6. ~ Stale(conn'[c].queue, view[c], grid.exits)
        BY <3>1, <3>2, <3>4, StaleAppend
      <3> QED
        BY <3>3, <3>5, <3>6
    <2> QED
      BY <1>6, <1>11, <2>2, <2>3
  <1>12. Chained(conn'[c].queue, view[c])
    <2>1. CASE ~ conn'[c].closed
      BY <1>11, <2>1
    <2>2. CASE Passed(conn[c], conn'[c])
      BY <1>10, <2>2 DEF Passed
    <2>3. ASSUME NEW n \in Outbounds, Sent(conn[c], n, h), Passed(n, conn'[c])
          PROVE  Chained(conn'[c].queue, view[c])
      <3>1. Chained(n.queue, view[c])
        BY <1>9, <1>10, <2>3, SentChains
      <3> QED
        BY <2>3, <3>1 DEF Passed
    <2> QED
      BY <1>6, <2>1, <2>2, <2>3 DEF Sent
  <1>13. NoByteSlips'
    <2>1. ASSUME NEW d \in Conns
          PROVE  /\ Chained(conn'[d].queue, view'[d])
                 /\ d \in subs' /\ ~ conn'[d].closed =>
                       Reaches(conn'[d].queue, view'[d], Len(conn'[d].queue), Published')
      <3>1. CASE d = c
        BY <1>1, <1>3, <1>11, <1>12, <3>1
      <3>2. CASE d # c
        BY <1>1, <1>3, <1>6, <3>2, SlipsAre DEF HubInv
      <3> QED
        BY <3>1, <3>2
    <2> QED
      BY <2>1, SlipsAre
  <1>14. RepairKept'
    <2> SUFFICES ASSUME NEW d \in subs', ~ conn'[d].closed, ~ grid'.alt,
                        Stale(conn'[d].queue, view'[d], grid'.exits)
                 PROVE  grid'.latch \/ (drain'.pc = "publish" /\ drain'.deferred)
      BY DEF RepairKept
    <2>1. CASE d = c
      BY <1>1, <1>11, <2>1
    <2>2. CASE d # c
      BY <1>1, <1>6, <2>2 DEF HubInv, RepairKept
    <2> QED
      BY <2>1, <2>2
  <1>15. AttachedListens' /\ NobodyWaitsOnADeadStream'
    <2> SUFFICES ASSUME NEW d \in attached', job'[d].pc = "idle", ~ conn'[d].closed
                 PROVE  /\ ending' = "none" => d \in subs'
                        /\ ending' # "none" => Ended(conn'[d].queue, view'[d])
      BY DEF AttachedListens, NobodyWaitsOnADeadStream
    <2>1. CASE d = c
      BY <1>1, <1>11, <2>1
    <2>2. CASE d # c
      <3>1. d \in Conns /\ d \in attached
        BY <1>1, <1>2, <2>2 DEF Shape
      <3> QED
        BY <1>1, <1>6, <1>7, <2>2, <3>1 DEF HubInv, AttachedListens, NobodyWaitsOnADeadStream
    <2> QED
      BY <2>1, <2>2
  <1>16. ReplayCurrent'
    BY <1>1, <1>7 DEF HubInv, ReplayCurrent
  <1>17. DrainOrder' /\ ExitedAfterTheLastByte'
    BY <1>1 DEF HubInv, DrainOrder, ExitedAfterTheLastByte
  <1> QED
    BY <1>8, <1>13, <1>14, <1>15, <1>16, <1>17 DEF HubInv
-----------------------------------------------------------------------------
(* The client receives, or hangs up.                                        *)

\* A queue with other frames and another charge.
LEMMA Recharged ==
    ASSUME NEW n \in Outbounds, NEW q \in Queues, NEW b \in Int
    PROVE  /\ [n EXCEPT !.queue = q, !.queued = b] \in Outbounds
           /\ [n EXCEPT !.queue = q, !.queued = b].queue = q
           /\ [n EXCEPT !.queue = q, !.queued = b].closed = n.closed
  BY DEF Outbounds

\* The client receives the first frame of its queue.
LEMMA RecvStep ==
    ASSUME HubInv, NEW c \in Conns, Recv(c)
    PROVE  HubInv'
  <1> DEFINE q == conn[c].queue
             f == Head(q)
             v == view[c]
             k == [conn[c] EXCEPT !.queue = Tail(q), !.queued = conn[c].queued - Cost(f)]
  <1>1. /\ ending' = ending /\ attached' = attached /\ job' = job /\ subs' = subs
        /\ fed' = fed /\ dropped' = dropped /\ drain' = drain /\ present' = present
        /\ child' = child /\ reaped' = reaped /\ produced' = produced /\ grid' = grid
        /\ q # <<>> /\ view' = [view EXCEPT ![c] = Seen(v, f)]
    BY DEF Recv, process, stream
  <1>2. /\ Shape /\ conn \in [Conns -> Outbounds] /\ view \in [Conns -> Views]
        /\ q \in Queues /\ v \in Views /\ conn[c] \in Outbounds /\ grid.exits \in Nat
    BY DEF HubInv, Shape, Outbounds, Queues, Views
  <1>3. /\ Tail(q) \in Queues /\ f \in Frames /\ Len(q) \in Nat \ {0}
        /\ Len(Tail(q)) = Len(q) - 1
    BY <1>1, <1>2, Received
  <1>4. Seen(v, f) \in Views /\ Cost(f) \in Int
    BY <1>2, <1>3, SeenIs, CostIs
  <1>5. k \in Outbounds /\ k.queue = Tail(q) /\ k.closed = conn[c].closed
    <2>1. conn[c].queued - Cost(f) \in Int
      BY <1>2, <1>4 DEF Outbounds
    <2>2. PICK n \in Outbounds : n = conn[c]
      BY <1>2
    <2>3. PICK t \in Queues : t = Tail(q)
      BY <1>3
    <2>4. PICK b \in Int : b = conn[c].queued - Cost(f)
      BY <2>1
    <2>5. k = [n EXCEPT !.queue = t, !.queued = b]
      BY <2>2, <2>3, <2>4, Zenon
    <2>6. /\ [n EXCEPT !.queue = t, !.queued = b] \in Outbounds
          /\ [n EXCEPT !.queue = t, !.queued = b].queue = t
          /\ [n EXCEPT !.queue = t, !.queued = b].closed = n.closed
      BY Recharged, Zenon
    <2> HIDE DEF k
    <2> QED
      BY <2>2, <2>3, <2>5, <2>6, Zenon
  <1>6. conn' = [conn EXCEPT ![c] = k]
    <2>1. conn' = [conn EXCEPT ![c].queue = Tail(@), ![c].queued = @ - Cost(f)]
      BY DEF Recv
    <2>2. conn' = [conn EXCEPT ![c] = [conn[c] EXCEPT !.queue = Tail(conn[c].queue),
                                                      !.queued = conn[c].queued - Cost(f)]]
      BY <1>2, <2>1
    <2> QED
      BY <2>2
  <1> HIDE DEF k, f, q, v
  <1>7. /\ conn' \in [Conns -> Outbounds] /\ conn'[c].queue = Tail(q)
        /\ conn'[c].closed = conn[c].closed
        /\ view' \in [Conns -> Views] /\ view'[c] = Seen(v, f)
        /\ \A d \in Conns : d # c => conn'[d] = conn[d] /\ view'[d] = view[d]
    BY <1>1, <1>2, <1>4, <1>5, <1>6
  <1>8. Shape'
    BY <1>1, <1>2, <1>7 DEF Shape, Outbounds, Queues, Views
  <1>9. Published' = Published
    BY <1>1 DEF Published
  <1>10. NoByteSlips'
    <2>1. ASSUME NEW d \in Conns
          PROVE  /\ Chained(conn'[d].queue, view'[d])
                 /\ d \in subs' /\ ~ conn'[d].closed =>
                       Reaches(conn'[d].queue, view'[d], Len(conn'[d].queue), Published')
      <3>1. /\ Chained(conn[d].queue, view[d])
            /\ d \in subs /\ ~ conn[d].closed =>
                  Reaches(conn[d].queue, view[d], Len(conn[d].queue), Published)
        BY SlipsAre DEF HubInv
      <3>2. CASE d = c
        <4>1. Chained(Tail(q), Seen(v, f))
          BY <1>1, <1>2, <3>1, <3>2, ChainedTail DEF q, v, f
        <4>2. ASSUME Reaches(q, v, Len(q), Published)
              PROVE  Reaches(Tail(q), Seen(v, f), Len(Tail(q)), Published)
          <5>1. Len(q) \in 1 .. Len(q)
            BY <1>3
          <5> QED
            BY <1>1, <1>2, <1>3, <4>2, <5>1, ReachesTail DEF f
        <4> QED
          BY <1>1, <1>7, <1>9, <3>1, <3>2, <4>1, <4>2 DEF q, v
      <3>3. CASE d # c
        BY <1>1, <1>7, <1>9, <3>1, <3>3
      <3> QED
        BY <3>2, <3>3
    <2> QED
      BY <2>1, SlipsAre
  <1>11. RepairKept'
    <2> SUFFICES ASSUME NEW d \in subs', ~ conn'[d].closed, ~ grid'.alt,
                        Stale(conn'[d].queue, view'[d], grid'.exits)
                 PROVE  grid'.latch \/ (drain'.pc = "publish" /\ drain'.deferred)
      BY DEF RepairKept
    <2>1. d \in Conns /\ d \in subs
      BY <1>1, <1>8 DEF Shape
    <2>2. ~ conn[d].closed /\ Stale(conn[d].queue, view[d], grid.exits)
      <3>1. CASE d = c
        <4>1. Stale(Tail(q), Seen(v, f), grid.exits)
          BY <1>1, <1>7, <3>1
        <4>2. Stale(q, v, grid.exits)
          BY <1>1, <1>2, <4>1, StaleTail DEF f
        <4> QED
          BY <1>7, <3>1, <4>2 DEF q, v
      <3>2. CASE d # c
        BY <1>1, <1>7, <2>1, <3>2
      <3> QED
        BY <3>1, <3>2
    <2> QED
      BY <1>1, <2>1, <2>2 DEF HubInv, RepairKept
  <1>12. AttachedListens' /\ NobodyWaitsOnADeadStream'
    <2> SUFFICES ASSUME NEW d \in attached', job'[d].pc = "idle", ~ conn'[d].closed
                 PROVE  /\ ending' = "none" => d \in subs'
                        /\ ending' # "none" => Ended(conn'[d].queue, view'[d])
      BY DEF AttachedListens, NobodyWaitsOnADeadStream
    <2>1. d \in Conns /\ d \in attached /\ job[d].pc = "idle" /\ ~ conn[d].closed
      BY <1>1, <1>2, <1>7 DEF Shape
    <2>2. /\ ending = "none" => d \in subs
          /\ ending # "none" => Ended(conn[d].queue, view[d])
      BY <2>1 DEF HubInv, AttachedListens, NobodyWaitsOnADeadStream
    <2>3. CASE d = c
      <3>1. ending # "none" => Ended(Tail(q), Seen(v, f))
        BY <1>1, <1>2, <2>2, <2>3, EndedTail DEF q, v, f
      <3> QED
        BY <1>1, <1>7, <2>2, <2>3, <3>1
    <2>4. CASE d # c
      BY <1>1, <1>7, <2>1, <2>2, <2>4
    <2> QED
      BY <2>3, <2>4
  <1>13. ReplayCurrent'
    BY <1>1 DEF HubInv, ReplayCurrent
  <1>14. DrainOrder' /\ ExitedAfterTheLastByte'
    BY <1>1 DEF HubInv, DrainOrder, ExitedAfterTheLastByte
  <1> QED
    BY <1>8, <1>10, <1>11, <1>12, <1>13, <1>14 DEF HubInv

\* The client comes back on a new connection.
LEMMA HangupStep ==
    ASSUME HubInv, NEW c \in Conns, Hangup(c)
    PROVE  HubInv'
  <1>1. /\ ending' = ending /\ job' = job /\ subs' = subs \ {c} /\ attached' = attached \ {c}
        /\ fed' = fed /\ dropped' = dropped /\ drain' = drain /\ present' = present
        /\ child' = child /\ reaped' = reaped /\ produced' = produced /\ grid' = grid
        /\ conn' = [conn EXCEPT ![c] = Fresh] /\ view' = [view EXCEPT ![c] = Nothing]
    BY DEF Hangup, process, stream
  <1>2. Shape /\ conn \in [Conns -> Outbounds] /\ view \in [Conns -> Views]
    BY DEF HubInv, Shape, Outbounds, Queues, Views
  <1>3. Fresh \in Outbounds /\ Fresh.queue = <<>> /\ Nothing \in Views
    BY DEF Fresh, Nothing, Outbounds, Views, Queues
  <1>4. /\ conn' \in [Conns -> Outbounds] /\ conn'[c].queue = <<>>
        /\ view' \in [Conns -> Views]
        /\ \A d \in Conns : d # c => conn'[d] = conn[d] /\ view'[d] = view[d]
    BY <1>1, <1>2, <1>3
  <1>5. Shape'
    BY <1>1, <1>2, <1>4 DEF Shape, Outbounds, Queues, Views
  <1>6. Published' = Published
    BY <1>1 DEF Published
  <1>7. NoByteSlips'
    <2>1. ASSUME NEW d \in Conns
          PROVE  /\ Chained(conn'[d].queue, view'[d])
                 /\ d \in subs' /\ ~ conn'[d].closed =>
                       Reaches(conn'[d].queue, view'[d], Len(conn'[d].queue), Published')
      <3>1. CASE d = c
        <4>1. Chained(<<>>, view'[d])
          BY DEF Chained
        <4> QED
          BY <1>1, <1>4, <3>1, <4>1
      <3>2. CASE d # c
        BY <1>1, <1>4, <1>6, <3>2, SlipsAre DEF HubInv
      <3> QED
        BY <3>1, <3>2
    <2> QED
      BY <2>1, SlipsAre
  <1>8. RepairKept'
    BY <1>1, <1>2, <1>4 DEF HubInv, RepairKept, Shape
  <1>9. AttachedListens' /\ NobodyWaitsOnADeadStream'
    BY <1>1, <1>2, <1>4 DEF HubInv, AttachedListens, NobodyWaitsOnADeadStream, Shape
  <1>10. ReplayCurrent'
    BY <1>1 DEF HubInv, ReplayCurrent
  <1>11. DrainOrder' /\ ExitedAfterTheLastByte'
    BY <1>1 DEF HubInv, DrainOrder, ExitedAfterTheLastByte
  <1> QED
    BY <1>5, <1>7, <1>8, <1>9, <1>10, <1>11 DEF HubInv

-----------------------------------------------------------------------------
(* The theorems.                                                            *)

\* The invariant holds of an idle hub.
LEMMA InitHub == Init => HubInv
  <1> SUFFICES ASSUME Init PROVE HubInv
    OBVIOUS
  <1>1. /\ Fresh \in [queue : Seq(Frames), queued : Int, closed : BOOLEAN]
        /\ Fresh.queue = <<>>
        /\ Nothing \in [to : Nat, paint : Nat, end : {"none"} \cup Endings]
        /\ Idle \in [pc : {"idle", "attaching", "replaying", "detaching"}, frame : Frames,
                     free : Nat]
        /\ Idle.pc = "idle"
    BY DEF Fresh, Nothing, Idle, Ending, Frames, Endings
  <1>2. Shape
    BY <1>1 DEF Init, Shape
  <1>3. DrainOrder /\ ReplayCurrent /\ AttachedListens /\ RepairKept
        /\ NobodyWaitsOnADeadStream /\ ExitedAfterTheLastByte
    BY <1>1 DEF Init, DrainOrder, ReplayCurrent, AttachedListens, RepairKept,
                NobodyWaitsOnADeadStream, ExitedAfterTheLastByte
  <1>4. NoByteSlips
    <2>1. \A c \in Conns : Chained(conn[c].queue, view[c])
      BY <1>1 DEF Init, Chained
    <2> QED
      BY <2>1, SlipsAre DEF Init
  <1> QED
    BY <1>2, <1>3, <1>4 DEF HubInv

\* Every step of the hub, of its handlers and of their clients keeps it.
LEMMA NextHub == HubInv /\ [Next]_vars => HubInv'
  <1> SUFFICES ASSUME HubInv, [Next]_vars PROVE HubInv'
    OBVIOUS
  <1>1. CASE Write \/ Exit \/ Reap \/ UNCHANGED vars
    BY <1>1, ProcessStep
  <1>2. CASE Drain
    BY <1>2, ReadStep, PublishRestStep, PublishSpliceStep, EofStep, ReportExitStep DEF Drain
  <1>3. CASE Kill \/ Repaint \/ FlushStalled
    BY <1>3, KillStep, RepaintStep, FlushStalledStep
  <1>4. ASSUME NEW c \in Conns,
               \/ Attach(c) \/ Serve(c) \/ Detach(c) \/ OtherPush(c) \/ Recv(c)
               \/ Hangup(c)
        PROVE  HubInv'
    BY <1>4, HandlerStep, AttachReplayStep, AttachPushStep, OtherPushStep, RecvStep,
       HangupStep DEF Serve
  <1> QED
    BY <1>1, <1>2, <1>3, <1>4 DEF Next

\* The hub's invariant, for any number of connections and any sizes: ring,
\* screen and subscribers agree at every step of publish, attach and the sweep
\* (sessions.rs, OutputHub).
THEOREM HubInvariant == Spec => []HubInv
  BY InitHub, NextHub, PTL DEF Spec

\* OutputHub::attach and publish: no output slips between the replay and the
\* live stream, and none is sent twice.
THEOREM NothingSlips == Spec => []NoByteSlips
  <1>1. HubInv => NoByteSlips
    BY DEF HubInv
  <1> QED
    BY <1>1, HubInvariant, PTL

\* OutputHub::attach: however attach, exit and removal interleave, whoever is
\* attached to a stream that has ended has its ending frame behind the replay.
THEOREM EndingsArrive == Spec => []NobodyWaitsOnADeadStream
  <1>1. HubInv => NobodyWaitsOnADeadStream
    BY DEF HubInv
  <1> QED
    BY <1>1, HubInvariant, PTL

\* spawn_drain: the exit is announced after the last byte of output.
THEOREM ExitComesLast == Spec => []ExitedAfterTheLastByte
  <1>1. HubInv => ExitedAfterTheLastByte
    BY DEF HubInv
  <1> QED
    BY <1>1, HubInvariant, PTL

\* publish, attach and flush_stalled: a subscriber whose picture predates the
\* last exit from the alternate screen has a repair latched for it.
THEOREM RepairsStayOwed == Spec => []RepairOwed
  <1>1. HubInv => RepairOwed
    BY DEF HubInv, RepairKept, RepairOwed, Locked
  <1> QED
    BY <1>1, HubInvariant, PTL
=============================================================================
