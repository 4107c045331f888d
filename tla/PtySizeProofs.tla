--------------------------- MODULE PtySizeProofs ---------------------------
(***************************************************************************)
(* Proofs about PtySize, for any number of connections, views and sizes,   *)
(* and any order in which they come, ask, claim the focus and leave: a     *)
(* daemon that serves one request at a time (~ Parallel) keeps the pty at  *)
(* the size its clients ask for.                                           *)
(*                                                                         *)
(* SizeInv is inductive: the one request in flight applies what the asks   *)
(* add up to, and when none is the size is that already, unless two        *)
(* connections draw the focused view.  The work is in the vector of the    *)
(* attached connections, of which only who is in it matters, not where.    *)
(***************************************************************************)
EXTENDS PtySize, FiniteSetTheorems, SequenceTheorems, WellFoundedInduction, TLAPS

\* Every set of numbers has a smallest one.
LEMMA SmallestIs ==
    ASSUME NEW S, S \subseteq Nat, S # {}
    PROVE  Smallest(S) \in S /\ \A k \in S : Smallest(S) <= k
  <1> DEFINE R == OpToRel(<, Nat)
  <1>1. \E x \in S : \A y \in S : ~ (<<y, x>> \in R)
    <2>1. IsWellFoundedOn(R, Nat)
      BY NatLessThanWellFounded
    <2> HIDE DEF R
    <2> QED BY <2>1, WFMin
  <1>2. \E x \in S : \A y \in S : x <= y
    <2>1. PICK x \in S : \A y \in S : ~ (<<y, x>> \in R)
      BY <1>1
    <2>2. ASSUME NEW y \in S, y < x
          PROVE  <<y, x>> \in {ss \in Nat \X Nat : ss[1] < ss[2]}
      BY <2>2
    <2>3. R = {ss \in Nat \X Nat : ss[1] < ss[2]}
      BY DEF OpToRel
    <2> HIDE DEF R
    <2>4. \A y \in S : ~ (y < x)
      BY <2>1, <2>2, <2>3
    <2> QED BY <2>4
  <1> QED BY <1>2 DEF Smallest

-----------------------------------------------------------------------------
(* Sizes.                                                                   *)

\* Clamping leaves no empty side.
LEMMA ClampedType ==
    ASSUME NEW s \in [cols : Nat, rows : Nat]
    PROVE  Clamped(s) \in Size
  BY DEF Clamped, Size

\* The smallest ask is a size.
LEMMA LeastType ==
    ASSUME NEW S, S \subseteq Size, S # {}
    PROVE  Least(S) \in Size
  <1> DEFINE C == {s.cols : s \in S}
             D == {s.rows : s \in S}
  <1>1. C \subseteq Nat \ {0} /\ C # {} /\ D \subseteq Nat \ {0} /\ D # {}
    BY DEF Size
  <1>2. Smallest(C) \in C /\ Smallest(D) \in D
    <2> HIDE DEF C, D
    <2> QED BY <1>1, SmallestIs
  <1>3. Smallest(C) \in Nat \ {0} /\ Smallest(D) \in Nat \ {0}
    BY <1>1, <1>2
  <1> QED BY <1>3 DEF Least, Size

\* view_ids.iter().find finds a connection that draws the view.
LEMMA OwnerDraws ==
    ASSUME NEW ids \in Seq(Conns), NEW v, Drawing(v, ids) # {}
    PROVE  Owner(v, ids) \in Drawers(v, ids)
  <1> DEFINE i == Smallest(Drawing(v, ids))
  <1>1. Len(ids) \in Nat /\ Drawing(v, ids) \subseteq Nat
    BY DEF Drawing
  <1>2. i \in Drawing(v, ids)
    BY <1>1, SmallestIs
  <1>3. i \in 1 .. Len(ids) /\ ViewOf[ids[i]] = v /\ ids[i] \in Conns
    BY <1>2, ElementOfSeq DEF Drawing
  <1> QED BY <1>3 DEF Owner, Drawers, Places

\* A view is drawn when some connection draws it.
LEMMA DrawnIffDrawers ==
    ASSUME NEW ids \in Seq(Conns), NEW v
    PROVE  Drawing(v, ids) # {} <=> Drawers(v, ids) # {}
  <1>1. \A i \in 1 .. Len(ids) : ids[i] \in Conns
    BY ElementOfSeq
  <1> QED BY <1>1 DEF Drawing, Drawers, Places

\* Session::effective_size is a size or nothing.
LEMMA EffectiveType ==
    ASSUME NEW sizes \in [Conns -> Size \cup {None}], NEW ids \in Seq(Conns), NEW v
    PROVE  EffectiveSize(sizes, ids, v) \in Size \cup {None}
  <1> DEFINE all == {sizes[c] : c \in Conns} \ {None}
  <1>1. all # {} => Least(all) \in Size
    <2>1. all \subseteq Size
      OBVIOUS
    <2> QED BY <2>1, LeastType
  <1>2. Drawing(v, ids) # {} => Owner(v, ids) \in Conns
    BY OwnerDraws DEF Drawers
  <1> QED BY <1>1, <1>2 DEF EffectiveSize

\* The order of view_ids matters only to a view drawn twice.
LEMMA EffectiveSame ==
    ASSUME NEW sizes, NEW ids \in Seq(Conns), NEW jds \in Seq(Conns), NEW v,
           v # None => /\ Drawers(v, ids) = Drawers(v, jds)
                       /\ \A c, d \in Drawers(v, ids) : c = d
    PROVE  EffectiveSize(sizes, ids, v) = EffectiveSize(sizes, jds, v)
  <1>1. CASE v = None
    BY <1>1 DEF EffectiveSize
  <1>2. CASE v # None
    <2>1. (Drawing(v, ids) # {}) = (Drawing(v, jds) # {})
      BY <1>2, DrawnIffDrawers
    <2>2. Drawing(v, ids) # {} => Owner(v, ids) = Owner(v, jds)
      BY <1>2, <2>1, OwnerDraws
    <2> QED BY <2>1, <2>2 DEF EffectiveSize
  <1> QED BY <1>1, <1>2

\* An ask of anyone makes a size.
LEMMA EffectiveOfAsk ==
    ASSUME NEW sizes \in [Conns -> Size \cup {None}], NEW ids \in Seq(Conns), NEW v,
           NEW c \in Conns, sizes[c] # None
    PROVE  EffectiveSize(sizes, ids, v) # None
  <1> DEFINE all == {sizes[d] : d \in Conns} \ {None}
  <1>1. all # {} /\ all \subseteq Size
    OBVIOUS
  <1>2. Least(all) \in Size
    BY <1>1, LeastType
  <1>3. Least(all) # None
    BY <1>2, SizeAssumption
  <1> QED BY <1>1, <1>3 DEF EffectiveSize

-----------------------------------------------------------------------------
(* view_ids as a list without repetition.                                   *)

Distinct(ids) == \A i, j \in DOMAIN ids : ids[i] = ids[j] => i = j

\* What retain leaves.
LEMMA WithoutIs ==
    ASSUME NEW ids \in Seq(Conns), Distinct(ids), NEW c \in Conns
    PROVE  /\ Without(ids, c) \in Seq(Conns) /\ Distinct(Without(ids, c))
           /\ Places(Without(ids, c), c) = {}
           /\ \A d \in Conns : d # c =>
                 (Places(Without(ids, c), d) # {} <=> Places(ids, d) # {})
  <1> DEFINE n == Len(ids)
             p == Place(ids, c)
             out == [j \in 1 .. n - 1 |-> IF j < p THEN ids[j] ELSE ids[j + 1]]
  <1>0. n \in Nat /\ DOMAIN ids = 1 .. n /\ \A i \in 1 .. n : ids[i] \in Conns
    BY LenProperties, ElementOfSeq
  <1>1. CASE Places(ids, c) = {}
    BY <1>1 DEF Without
  <1>2. CASE Places(ids, c) # {}
    <2>1. p \in 1 .. n /\ ids[p] = c
      BY <1>2 DEF Place, Places
    <2>2. Without(ids, c) = out
      BY <1>2 DEF Without
    <2>3. n - 1 \in Nat /\ out \in [1 .. n - 1 -> Conns]
      BY <1>0, <2>1
    <2>4. out \in Seq(Conns) /\ Len(out) = n - 1 /\ DOMAIN out = 1 .. n - 1
      <3> HIDE DEF out
      <3> QED BY <2>3, IsASeq, LenProperties
    <2>5. \A i \in 1 .. n : ids[i] = c => i = p
      BY <1>0, <2>1 DEF Distinct
    <2>6. \A j \in 1 .. n - 1 :
             /\ j < p => out[j] = ids[j] /\ j \in 1 .. n
             /\ ~ (j < p) => out[j] = ids[j + 1] /\ j + 1 \in 1 .. n
      BY <1>0, <2>1
    <2> HIDE DEF out
    <2>7. Distinct(out)
      <3> SUFFICES ASSUME NEW i \in 1 .. n - 1, NEW j \in 1 .. n - 1, out[i] = out[j]
                   PROVE  i = j
        BY <2>4 DEF Distinct
      <3>1. \A x, y \in 1 .. n : ids[x] = ids[y] => x = y
        BY <1>0 DEF Distinct
      <3>2. CASE i < p /\ j < p
        BY <2>6, <3>1, <3>2
      <3>3. CASE i < p /\ ~ (j < p)
        <4>1. i = j + 1
          BY <2>6, <3>1, <3>3
        <4> QED BY <4>1, <3>3, <2>1, <1>0
      <3>4. CASE ~ (i < p) /\ j < p
        <4>1. i + 1 = j
          BY <2>6, <3>1, <3>4
        <4> QED BY <4>1, <3>4, <2>1, <1>0
      <3>5. CASE ~ (i < p) /\ ~ (j < p)
        <4>1. i + 1 = j + 1
          BY <2>6, <3>1, <3>5
        <4> QED BY <4>1
      <3> QED BY <3>2, <3>3, <3>4, <3>5
    <2>8. Places(out, c) = {}
      <3> SUFFICES ASSUME NEW j \in 1 .. n - 1, out[j] = c
                   PROVE  FALSE
        BY <2>4 DEF Places
      <3> QED BY <2>6, <2>5, <2>1, <1>0
    <2>9. ASSUME NEW d \in Conns, d # c
          PROVE  Places(out, d) # {} <=> Places(ids, d) # {}
      <3>1. ASSUME NEW j \in 1 .. n - 1, out[j] = d
            PROVE  \E i \in 1 .. n : ids[i] = d
        BY <2>6, <3>1
      <3>2. ASSUME NEW i \in 1 .. n, ids[i] = d
            PROVE  \E j \in 1 .. n - 1 : out[j] = d
        <4>1. i # p
          BY <2>1, <2>9, <3>2
        <4>2. CASE i < p
          <5>1. i \in 1 .. n - 1 /\ out[i] = ids[i]
            BY <4>2, <2>6, <2>1, <1>0
          <5> QED BY <5>1, <3>2
        <4>3. CASE i > p
          <5>1. i - 1 \in 1 .. n - 1 /\ ~ (i - 1 < p) /\ (i - 1) + 1 = i
            BY <4>3, <2>1, <1>0
          <5>2. out[i - 1] = ids[(i - 1) + 1]
            BY <5>1, <2>6
          <5> QED BY <5>1, <5>2, <3>2
        <4> QED BY <4>1, <4>2, <4>3, <2>1, <1>0
      <3> QED BY <3>1, <3>2, <2>4 DEF Places
    <2> QED BY <2>2, <2>4, <2>7, <2>8, <2>9
  <1> QED BY <1>1, <1>2

\* What swap_remove leaves.
LEMMA SwapRemoveIs ==
    ASSUME NEW ids \in Seq(Conns), Distinct(ids), NEW c \in Conns
    PROVE  /\ SwapRemove(ids, c) \in Seq(Conns) /\ Distinct(SwapRemove(ids, c))
           /\ Places(SwapRemove(ids, c), c) = {}
           /\ \A d \in Conns : d # c =>
                 (Places(SwapRemove(ids, c), d) # {} <=> Places(ids, d) # {})
  <1> DEFINE n == Len(ids)
             p == Place(ids, c)
             out == [j \in 1 .. n - 1 |-> IF j = p THEN ids[n] ELSE ids[j]]
  <1>0. n \in Nat /\ DOMAIN ids = 1 .. n /\ \A i \in 1 .. n : ids[i] \in Conns
    BY LenProperties, ElementOfSeq
  <1>1. CASE Places(ids, c) = {}
    BY <1>1 DEF SwapRemove
  <1>2. CASE Places(ids, c) # {}
    <2>1. p \in 1 .. n /\ ids[p] = c
      BY <1>2 DEF Place, Places
    <2>2. SwapRemove(ids, c) = out
      BY <1>2 DEF SwapRemove
    <2>3. n - 1 \in Nat /\ n \in 1 .. n /\ out \in [1 .. n - 1 -> Conns]
      BY <1>0, <2>1
    <2>4. out \in Seq(Conns) /\ Len(out) = n - 1 /\ DOMAIN out = 1 .. n - 1
      <3> HIDE DEF out
      <3> QED BY <2>3, IsASeq, LenProperties
    <2>5. \A x, y \in 1 .. n : ids[x] = ids[y] => x = y
      BY <1>0 DEF Distinct
    <2>6. \A j \in 1 .. n - 1 : /\ j \in 1 .. n /\ j # n
                                /\ j = p => out[j] = ids[n]
                                /\ j # p => out[j] = ids[j]
      <3>0. n \in Nat
        BY <1>0
      <3> HIDE DEF n, p
      <3>1. \A j \in 1 .. n - 1 : j \in 1 .. n /\ j # n
        BY <3>0
      <3> QED BY <3>1
    <2> HIDE DEF out
    <2>7. Distinct(out)
      <3> SUFFICES ASSUME NEW i \in 1 .. n - 1, NEW j \in 1 .. n - 1, out[i] = out[j]
                   PROVE  i = j
        BY <2>4 DEF Distinct
      <3> QED BY <2>3, <2>5, <2>6
    <2>8. Places(out, c) = {}
      <3> SUFFICES ASSUME NEW j \in 1 .. n - 1, out[j] = c
                   PROVE  FALSE
        BY <2>4 DEF Places
      <3> QED BY <2>6, <2>5, <2>1, <2>3
    <2>9. ASSUME NEW d \in Conns, d # c
          PROVE  Places(out, d) # {} <=> Places(ids, d) # {}
      <3>1. ASSUME NEW j \in 1 .. n - 1, out[j] = d
            PROVE  \E i \in 1 .. n : ids[i] = d
        BY <2>3, <2>6, <3>1
      <3>2. ASSUME NEW i \in 1 .. n, ids[i] = d
            PROVE  \E j \in 1 .. n - 1 : out[j] = d
        <4>1. i # p
          BY <2>1, <2>9, <3>2
        <4>2. CASE i = n
          <5>1. p \in 1 .. n - 1
            BY <4>1, <4>2, <2>1, <1>0
          <5> QED BY <5>1, <4>2, <2>6, <3>2
        <4>3. CASE i # n
          <5>0. n \in Nat
            BY <1>0
          <5>1. i \in 1 .. n - 1
            <6> HIDE DEF n
            <6> QED BY <4>3, <5>0
          <5> QED BY <5>1, <4>1, <2>6, <3>2
        <4> QED BY <4>2, <4>3
      <3> QED BY <3>1, <3>2, <2>4 DEF Places
    <2> QED BY <2>2, <2>4, <2>7, <2>8, <2>9
  <1> QED BY <1>1, <1>2

\* What remember_view leaves.
LEMMA RememberedIs ==
    ASSUME NEW ids \in Seq(Conns), Distinct(ids), NEW c \in Conns
    PROVE  LET out == Append(Without(ids, c), c)
           IN  /\ out \in Seq(Conns) /\ Distinct(out)
               /\ \A d \in Conns : d # c => (Places(out, d) # {} <=> Places(ids, d) # {})
  <1> DEFINE w == Without(ids, c)
             n == Len(w)
             out == Append(w, c)
  <1>1. /\ w \in Seq(Conns) /\ Distinct(w) /\ Places(w, c) = {}
        /\ \A d \in Conns : d # c => (Places(w, d) # {} <=> Places(ids, d) # {})
    BY WithoutIs
  <1> HIDE DEF w
  <1>2. n \in Nat /\ DOMAIN w = 1 .. n /\ \A i \in 1 .. n : w[i] # c
    BY <1>1, LenProperties DEF Places
  <1>3. /\ out \in Seq(Conns) /\ Len(out) = n + 1 /\ out[n + 1] = c
        /\ \A i \in 1 .. n : out[i] = w[i]
    BY <1>1, AppendProperties
  <1>4. DOMAIN out = 1 .. n + 1
    BY <1>3, LenProperties
  <1> HIDE DEF out
  <1>5. Distinct(out)
    <2> SUFFICES ASSUME NEW i \in 1 .. n + 1, NEW j \in 1 .. n + 1, out[i] = out[j]
                 PROVE  i = j
      BY <1>4 DEF Distinct
    <2>1. \A x \in 1 .. n + 1 : x \in 1 .. n \/ x = n + 1
      BY <1>2
    <2>2. \A x, y \in 1 .. n : w[x] = w[y] => x = y
      BY <1>1, <1>2 DEF Distinct
    <2> QED BY <1>2, <1>3, <2>1, <2>2
  <1>6. ASSUME NEW d \in Conns, d # c
        PROVE  Places(out, d) # {} <=> Places(w, d) # {}
    <2>1. \A x \in 1 .. n + 1 : x \in 1 .. n \/ x = n + 1
      BY <1>2
    <2>2. \A x \in 1 .. n : x \in 1 .. n + 1
      BY <1>2
    <2> QED BY <1>2, <1>3, <1>6, <2>1, <2>2 DEF Places
  <1>7. \A d \in Conns : d # c => (Places(out, d) # {} <=> Places(ids, d) # {})
    BY <1>1, <1>6
  <1>8. out = Append(Without(ids, c), c)
    BY DEF out, w
  <1> QED BY <1>3, <1>5, <1>7, <1>8

\* A view drawn at one place is drawn by one connection.
LEMMA DrawnOnceSettles ==
    ASSUME TypeOK, DrawnOnce
    PROVE  Settled
  <1> SUFFICES ASSUME focused # None,
                      NEW c \in Drawers(focused, viewIds), NEW d \in Drawers(focused, viewIds)
               PROVE  c = d
    BY DEF Settled
  <1> DEFINE D == Drawing(focused, viewIds)
  <1>1. focused \in Views /\ Cardinality(D) <= 1
    BY DEF TypeOK, DrawnOnce
  <1>2. PICK i \in 1 .. Len(viewIds) : viewIds[i] = c
    BY DEF Drawers, Places
  <1>3. PICK j \in 1 .. Len(viewIds) : viewIds[j] = d
    BY DEF Drawers, Places
  <1>4. i \in D /\ j \in D
    BY <1>2, <1>3 DEF Drawing, Drawers
  <1>5. IsFiniteSet(D)
    <2>1. IsFiniteSet(1 .. Len(viewIds))
      BY FS_Interval, LenProperties DEF TypeOK
    <2> QED BY <2>1, FS_Subset DEF Drawing
  <1>6. i = j
    <2>1. Cardinality({i, j}) <= Cardinality(D) /\ IsFiniteSet({i, j})
      BY <1>4, <1>5, FS_Subset
    <2>2. Cardinality(D) \in Nat /\ Cardinality({i, j}) \in Nat
      BY <1>5, <2>1, FS_CardinalityType
    <2>3. i # j => Cardinality({i, j}) = 2
      <3> SUFFICES ASSUME i # j
                   PROVE  Cardinality({i, j}) = 2
        OBVIOUS
      <3>1. IsFiniteSet({i}) /\ Cardinality({i}) = 1
        BY FS_Singleton
      <3>2. Cardinality({i} \cup {j}) = Cardinality({i}) + 1
        BY <3>1, FS_AddElement
      <3>3. {i} \cup {j} = {i, j}
        OBVIOUS
      <3>4. Cardinality({i, j}) = 1 + 1
        BY <3>1, <3>2, <3>3, Zenon
      <3>5. 1 + 1 = 2
        OBVIOUS
      <3> QED BY <3>4, <3>5, Zenon
    <2> QED BY <1>1, <2>1, <2>2, <2>3
  <1> QED BY <1>2, <1>3, <1>6

-----------------------------------------------------------------------------
(* SizeInv is inductive when one request is served at a time.               *)

\* The first state.
LEMMA SizeInit == Init => SizeInv
  <1> SUFFICES ASSUME Init
               PROVE  SizeInv
    OBVIOUS
  <1>1. TypeOK
    <2>1. viewIds \in Seq(Conns) /\ DOMAIN viewIds = {}
      BY EmptySeq DEF Init
    <2> QED BY <2>1, SizeAssumption DEF Init, TypeOK, Actors
  <1>2. \A a \in Actors : pending[a] = None
    BY DEF Init
  <1>3. Effective = None
    <2>1. {asks[c] : c \in Conns} \ {None} = {}
      BY DEF Init
    <2> QED BY <2>1 DEF Effective, EffectiveSize, Init
  <1> QED BY <1>1, <1>2, <1>3 DEF SizeInv

\* A request that runs alone and leaves its decision in `pending`.
LEMMA Decides ==
    ASSUME TypeOK', size' = size, NEW a \in Actors, NEW p,
           pending \in [Actors -> Size \cup {None}],
           \A b \in Actors : pending[b] = None,
           pending' = [pending EXCEPT ![a] = p],
           ~ overridden' => \/ p = None /\ (Settled' /\ Effective' # None => size = Effective')
                            \/ p = Effective'
    PROVE  SizeInv'
  <1>1. \A b \in Actors : pending'[b] = IF b = a THEN p ELSE None
    OBVIOUS
  <1>2. p # Effective' => p = None \/ overridden'
    OBVIOUS
  <1>3. \A b, d \in Actors : pending'[b] # None /\ pending'[d] # None => b = d
    BY <1>1
  <1>4. ~ overridden' => \A b \in Actors : pending'[b] # None => pending'[b] = Effective'
    BY <1>1
  <1>5. ~ overridden' =>
           ((\A b \in Actors : pending'[b] = None) /\ Settled' /\ Effective' # None
              => size' = Effective')
    BY <1>1
  <1> QED BY <1>3, <1>4, <1>5 DEF SizeInv

\* Change gives the size or leaves nothing to do.
LEMMA ChangeIs ==
    ASSUME NEW e
    PROVE  Change(e) = e \/ (Change(e) = None /\ size = e)
  BY DEF Change

\* resize decides on everyone's ask.
LEMMA ResizeSettles ==
    ASSUME SizeInv, ~ Parallel, NEW c \in Conns, NEW s \in Sizes, Resize(c, s)
    PROVE  SizeInv'
  <1> DEFINE e == EffectiveSize(asks', viewIds, focused)
  <1>1. Clamped(s) \in Size
    BY ClampedType, SizeAssumption
  <1>2. asks' \in [Conns -> Size \cup {None}] /\ asks'[c] # None
    BY <1>1, SizeAssumption DEF SizeInv, TypeOK, Resize
  <1>3. e \in Size
    BY <1>2, EffectiveType, EffectiveOfAsk DEF SizeInv, TypeOK
  <1>4. Effective' = e
    BY DEF Effective, Resize
  <1>5. TypeOK'
    <2>1. Change(e) \in Size \cup {None}
      BY <1>3, ChangeIs
    <2>2. pending' \in [Actors -> Size \cup {None}]
      BY <2>1 DEF SizeInv, TypeOK, Resize, Actors
    <2> QED BY <1>2, <2>2 DEF SizeInv, TypeOK, Resize
  <1> QED
    <2> HIDE DEF e
    <2>1. c \in Actors /\ pending' = [pending EXCEPT ![c] = Change(e)]
      BY DEF Resize, Actors, e
    <2>2. size' = size /\ \A b \in Actors : pending[b] = None
      BY DEF Resize, Free
    <2>3. pending \in [Actors -> Size \cup {None}]
      BY DEF SizeInv, TypeOK
    <2> QED BY <1>4, <1>5, <2>1, <2>2, <2>3, Decides, ChangeIs

\* A generation-2 resize has the last word.
LEMMA ResizeLegacySettles ==
    ASSUME SizeInv, ~ Parallel, NEW s \in Sizes, ResizeLegacy(s)
    PROVE  SizeInv'
  <1>1. Clamped(s) \in Size
    BY ClampedType, SizeAssumption
  <1>2. Change(Clamped(s)) \in Size \cup {None}
    BY <1>1, ChangeIs
  <1>3. TypeOK'
    BY <1>2 DEF SizeInv, TypeOK, ResizeLegacy, Actors
  <1>4. Control \in Actors /\ pending' = [pending EXCEPT ![Control] = Change(Clamped(s))]
    BY DEF ResizeLegacy, Actors
  <1> QED BY <1>3, <1>4, Decides DEF ResizeLegacy, Free, SizeInv, TypeOK

\* focus decides on the new claim.
LEMMA FocusSettles ==
    ASSUME SizeInv, ~ Parallel, NEW v \in Views, Focus(v)
    PROVE  SizeInv'
  <1> DEFINE e == EffectiveSize(asks, viewIds, v)
             p == IF e = None THEN None ELSE Change(e)
  <1>1. e \in Size \cup {None}
    BY EffectiveType DEF SizeInv, TypeOK
  <1>2. Effective' = e
    BY DEF Effective, Focus
  <1>3. p \in Size \cup {None}
    BY <1>1, ChangeIs
  <1>4. Control \in Actors /\ pending' = [pending EXCEPT ![Control] = p]
    BY DEF Focus, Actors
  <1>5. TypeOK'
    BY <1>3, <1>4 DEF SizeInv, TypeOK, Focus
  <1>6. p = e \/ (p = None /\ (e # None => size = e))
    BY ChangeIs
  <1> HIDE DEF e, p
  <1> QED BY <1>2, <1>4, <1>5, <1>6, Decides DEF Focus, Free, SizeInv, TypeOK

\* attach: a view that is not the claimed one changes nothing; the claimed one
\* is decided on again.
LEMMA AttachSettles ==
    ASSUME SizeInv, ~ Parallel, NEW c \in Conns, Attach(c)
    PROVE  SizeInv'
  <1> DEFINE e == EffectiveSize(asks, viewIds', focused)
             claims == focused # None /\ focused = ViewOf[c]
             p == IF claims /\ e # None THEN Change(e) ELSE None
  <1>0. viewIds \in Seq(Conns) /\ Distinct(viewIds)
    BY DEF SizeInv, TypeOK, Distinct
  <1>1. /\ viewIds' \in Seq(Conns) /\ Distinct(viewIds')
        /\ \A d \in Conns : d # c => (Places(viewIds', d) # {} <=> Places(viewIds, d) # {})
        /\ ViewOf[c] = None => viewIds' = viewIds
    BY <1>0, RememberedIs DEF Attach
  <1>2. e \in Size \cup {None} /\ Effective' = e
    BY <1>1, EffectiveType DEF SizeInv, TypeOK, Effective, Attach
  <1>3. p \in Size \cup {None}
    BY <1>2, ChangeIs
  <1>4. c \in Actors /\ pending' = [pending EXCEPT ![c] = p]
    BY DEF Attach, Actors
  <1>5. TypeOK'
    BY <1>1, <1>3, <1>4 DEF SizeInv, TypeOK, Attach, Distinct
  <1>6. /\ size' = size /\ overridden' = overridden
        /\ \A b \in Actors : pending[b] = None
        /\ pending \in [Actors -> Size \cup {None}]
    BY DEF Attach, Free, SizeInv, TypeOK
  <1>7. ~ overridden' => \/ p = None /\ (Settled' /\ e # None => size = e)
                         \/ p = e
    <2>1. CASE claims
      BY <2>1, ChangeIs
    <2>2. CASE ~ claims
      <3> SUFFICES ASSUME ~ overridden, Settled', e # None
                   PROVE  size = e
        BY <1>6, <2>2
      <3>1. focused # None => Drawers(focused, viewIds) = Drawers(focused, viewIds')
        <4> SUFFICES ASSUME focused # None
                     PROVE  Drawers(focused, viewIds) = Drawers(focused, viewIds')
          OBVIOUS
        <4>1. ViewOf[c] # focused
          BY <2>2
        <4> QED BY <4>1, <1>1 DEF Drawers
      <3>2. Settled
        BY <3>1 DEF Settled, Attach
      <3>3. e = Effective
        BY <1>0, <1>1, <3>1, <3>2, EffectiveSame DEF Settled, Effective
      <3> QED BY <1>6, <3>2, <3>3 DEF SizeInv
    <2> QED BY <2>1, <2>2
  <1> HIDE DEF e, p
  <1> QED BY <1>2, <1>4, <1>5, <1>6, <1>7, Decides

\* detach: forget_client decides again if it took an ask or the claim away, and
\* otherwise changes nothing that counts.
LEMMA ForgetSettles ==
    ASSUME SizeInv, ~ Parallel, NEW c \in Conns, Forget(c)
    PROVE  SizeInv'
  <1> DEFINE lost == Places(viewIds, c) # {} /\ focused = ViewOf[c]
             e == EffectiveSize(asks', viewIds', focused')
             p == IF (lost \/ asks[c] # None) /\ e # None THEN Change(e) ELSE None
  <1>0. viewIds \in Seq(Conns) /\ Distinct(viewIds)
    BY DEF SizeInv, TypeOK, Distinct
  <1>1. /\ viewIds' \in Seq(Conns) /\ Distinct(viewIds')
        /\ Places(viewIds', c) = {}
        /\ \A d \in Conns : d # c => (Places(viewIds', d) # {} <=> Places(viewIds, d) # {})
    <2>1. viewIds' = SwapRemove(viewIds, c)
      BY DEF Forget
    <2> DEFINE ids == SwapRemove(viewIds, c)
    <2>2. /\ ids \in Seq(Conns) /\ Distinct(ids) /\ Places(ids, c) = {}
          /\ \A d \in Conns : d # c => (Places(ids, d) # {} <=> Places(viewIds, d) # {})
      BY <1>0, SwapRemoveIs
    <2> HIDE DEF ids
    <2> QED BY <2>1, <2>2 DEF ids
  <1>2. asks' \in [Conns -> Size \cup {None}] /\ focused' \in Views \cup {None}
    BY DEF Forget, SizeInv, TypeOK
  <1>3. e \in Size \cup {None} /\ Effective' = e
    BY <1>1, <1>2, EffectiveType DEF Effective
  <1>4. p \in Size \cup {None}
    BY <1>3, ChangeIs
  <1>5. c \in Actors /\ pending' = [pending EXCEPT ![c] = p]
    BY DEF Forget, Actors
  <1>6. TypeOK'
    BY <1>1, <1>2, <1>4, <1>5 DEF SizeInv, TypeOK, Forget, Distinct
  <1>7. /\ size' = size /\ overridden' = overridden
        /\ \A b \in Actors : pending[b] = None
        /\ pending \in [Actors -> Size \cup {None}]
    BY DEF Forget, Free, SizeInv, TypeOK
  <1>8. ~ overridden' => \/ p = None /\ (Settled' /\ e # None => size = e)
                         \/ p = e
    <2>1. CASE lost \/ asks[c] # None
      BY <2>1, ChangeIs
    <2>2. CASE ~ lost /\ asks[c] = None
      <3> SUFFICES ASSUME ~ overridden, Settled', e # None
                   PROVE  size = e
        BY <1>7, <2>2
      <3>1. focused' = focused /\ asks' = asks
        BY <2>2 DEF Forget, SizeInv, TypeOK
      <3>2. Drawers(focused, viewIds) = Drawers(focused, viewIds')
        <4>1. c \notin Drawers(focused, viewIds) /\ c \notin Drawers(focused, viewIds')
          BY <2>2, <1>1 DEF Drawers
        <4> QED BY <4>1, <1>1 DEF Drawers
      <3>3. Settled
        BY <3>1, <3>2 DEF Settled
      <3>4. e = Effective
        BY <1>0, <1>1, <3>1, <3>2, <3>3, EffectiveSame DEF Settled, Effective
      <3> QED BY <1>7, <3>3, <3>4 DEF SizeInv
    <2> QED BY <2>1, <2>2
  <1> HIDE DEF e, p
  <1> QED BY <1>3, <1>5, <1>6, <1>7, <1>8, Decides

\* apply_size carries out the one decision there is.
LEMMA ApplySettles ==
    ASSUME SizeInv, NEW a \in Actors, ApplySize(a)
    PROVE  SizeInv'
  <1>1. /\ pending[a] \in Size /\ size' = pending[a]
        /\ \A b \in Actors : pending'[b] = None
        /\ pending' \in [Actors -> Size \cup {None}]
    BY DEF ApplySize, SizeInv, TypeOK
  <1>2. TypeOK'
    BY <1>1 DEF ApplySize, SizeInv, TypeOK, Size
  <1>3. Effective' = Effective
    BY DEF ApplySize, Effective
  <1>4. ~ overridden' => size' = Effective'
    BY <1>1, <1>3 DEF ApplySize, SizeInv
  <1> QED BY <1>1, <1>2, <1>4 DEF SizeInv

\* Every step keeps SizeInv.
LEMMA SizeNext ==
    ASSUME ~ Parallel, SizeInv, [Next]_vars
    PROVE  SizeInv'
  <1>1. CASE Next
    BY <1>1, ResizeSettles, AttachSettles, ForgetSettles, FocusSettles,
       ResizeLegacySettles, ApplySettles DEF Next
  <1>2. CASE UNCHANGED vars
    <2>1. Effective' = Effective
      BY <1>2 DEF vars, Effective
    <2>2. Settled' <=> Settled
      BY <1>2 DEF vars, Settled
    <2>3. TypeOK'
      BY <1>2 DEF vars, TypeOK, SizeInv
    <2>4. pending' = pending /\ overridden' = overridden /\ size' = size
      BY <1>2 DEF vars
    <2> QED BY <2>1, <2>2, <2>3, <2>4 DEF SizeInv
  <1> QED BY <1>1, <1>2

\* SizeInv gives SizeFollowsAsks.
LEMMA SizeInvImplies ==
    ASSUME SizeInv
    PROVE  SizeFollowsAsks
  <1> SUFFICES ASSUME \A a \in Actors : pending[a] = None, ~ overridden, DrawnOnce,
                      Effective # None
               PROVE  size = Effective /\ Effective.cols >= 1 /\ Effective.rows >= 1
    BY DEF SizeFollowsAsks, Effective
  <1>1. Settled
    BY DrawnOnceSettles DEF SizeInv
  <1>2. size = Effective
    BY <1>1 DEF SizeInv
  <1>3. Effective \in Size
    BY EffectiveType DEF Effective, SizeInv, TypeOK
  <1>4. \A z \in Size : z.cols >= 1 /\ z.rows >= 1
    BY DEF Size
  <1> QED BY <1>2, <1>3, <1>4

-----------------------------------------------------------------------------
\* A daemon that serves one request at a time keeps SizeInv, for any number of
\* connections and views and any sizes they ask for.
THEOREM SizeInvariant == ~ Parallel /\ Spec => []SizeInv
  <1>1. ~ Parallel /\ SizeInv /\ [Next]_vars => SizeInv'
    BY SizeNext
  <1>2. CASE Parallel
    BY <1>2, PTL
  <1>3. CASE ~ Parallel
    BY <1>1, <1>3, SizeInit, PTL DEF Spec
  <1> QED BY <1>2, <1>3

\* The pty is at the size that the asks, the views and the claim add up to
\* whenever no request is in flight: resize, focus, attach, detach and apply_size
\* together.
THEOREM PtyFollowsAsks == ~ Parallel /\ Spec => []SizeFollowsAsks
  BY SizeInvariant, SizeInvImplies, PTL
=============================================================================
