-------------------------- MODULE KeyMappingProofs --------------------------
(* Proofs about KeyMapping, for keys of any length, any prefixes and any    *)
(* number of excludes.  What a pass leaves at the destination is shown as   *)
(* long as the destination occurs in the keys below it only in front:       *)
(* mapping a key back replaces every occurrence (runner.go:382).            *)
EXTENDS KeyMapping, Minimum, SequenceTheorems

\* Where source and destination differ, the destination occurs in no key of the
\* store but in front.
OnlyInFront ==
  \A pair \in Pair : \A key \in Below(pair[2]) \cup Below(pair[1]) :
    HasPrefix(key, pair[2]) /\ pair[1] # pair[2] =>
      \A i \in 2 .. Len(key) : ~HasPrefix(SubSeq(key, i, Len(key)), pair[2])

\* For the keys of the store, replacing the destination wherever it occurs in a
\* key gives the same as replacing it in front.
MapsBack ==
  \A pair \in Pair : \A key \in Below(pair[2]) \cup Below(pair[1]) :
    HasPrefix(key, pair[2])
      => Replace(key, pair[2], pair[1]) = pair[1] \o TrimPrefix(key, pair[2])

Written(done) == {DestKey(key) : key \in {x \in done : ~Excluded(x)}}
Used(done)    == {DestKey(key) : key \in done}

\* All that the delete loop may find, and what it does not delete.
Full        == before \cup Written(listing)
Stays(key)  == ~HasPrefix(key, destination) \/ key \in Used(listing) \/ Excluded(SourceKey(key))

Configured ==
  /\ \E pair \in Pair : source = pair[1] /\ destination = pair[2]
  /\ listing \subseteq Below(source)
  /\ before \subseteq Below(destination) \cup Below(source)

\* Each loop has done its work for the keys it is through with.
KInv ==
  /\ Configured
  /\ phase = "update" =>
       /\ todo \subseteq listing
       /\ usedKeys = Used(listing \ todo)
       /\ store = before \cup Written(listing \ todo)
  /\ phase = "delete" =>
       /\ usedKeys = Used(listing)
       /\ todo \subseteq {key \in Full : HasPrefix(key, destination)}
       /\ store = {key \in Full : key \in todo \/ Stays(key)}
  /\ phase = "end" => store = {key \in Full : Stays(key)}

\* A prefix can be taken off again.
LEMMA TrimConcat ==
  ASSUME NEW p \in Seq(Char), NEW r \in Seq(Char)
  PROVE  HasPrefix(p \o r, p) /\ TrimPrefix(p \o r, p) = r
  <1> DEFINE key == p \o r
  <1>1. /\ key \in Seq(Char) /\ Len(key) = Len(p) + Len(r)
        /\ \A i \in 1 .. Len(p) : key[i] = p[i]
        /\ \A i \in 1 .. Len(r) : key[Len(p) + i] = r[i]
    OBVIOUS
  <1>2. SubSeq(p, 1, Len(p)) = SubSeq(key, 1, Len(p))
    BY <1>1
  <1>3. HasPrefix(key, p)
    BY <1>1, <1>2 DEF HasPrefix, IsPrefix
  <1>4. SubSeq(key, Len(p) + 1, Len(key)) = r
    BY <1>1
  <1> QED
    BY <1>3, <1>4 DEF TrimPrefix

\* The types of what is configured.
LEMMA Keys ==
  ASSUME Configured
  PROVE  /\ source \in Seq(Char) /\ destination \in Seq(Char) /\ Rest \subseteq Seq(Char)
         /\ <<source, destination>> \in Pair
         /\ \A r \in Rest : DestKey(source \o r) = destination \o r
  <1>1. PICK pair \in Pair : source = pair[1] /\ destination = pair[2]
    BY DEF Configured
  <1>2. /\ pair[1] \in Seq(Char) /\ pair[2] \in Seq(Char) /\ pair = <<pair[1], pair[2]>>
        /\ Rest \subseteq Seq(Char)
    BY <1>1, ConstantsAssumption
  <1>3. \A r \in Rest : TrimPrefix(source \o r, source) = r
    BY <1>1, <1>2, TrimConcat
  <1> QED
    BY <1>1, <1>2, <1>3 DEF DestKey

----------------------------------------------------------------------------
(* strings.Replace.                                                        *)

\* What Replace does from position i on, with from[j] what it does from j on.
ReplaceFrom(key, old, new, from, i) ==
  IF i > Len(key) THEN <<>>
  ELSE IF HasPrefix(SubSeq(key, i, Len(key)), old) THEN new \o from[i + Len(old)]
  ELSE <<key[i]>> \o from[i + 1]

\* A function that says so for every position.
Replaces(key, old, new, from) ==
  from = [i \in 1 .. Len(key) + 1 |-> ReplaceFrom(key, old, new, from, i)]

LEMMA ReplaceChooses ==
  ASSUME NEW key, NEW old, NEW new, \E from : Replaces(key, old, new, from)
  PROVE  \E from : Replace(key, old, new) = from[1] /\ Replaces(key, old, new, from)
  BY Zenon DEF Replace, Replaces, ReplaceFrom

\* There is at most one: two differ, if at all, at a last position.
LEMMA ReplaceUnique ==
  ASSUME NEW key \in Seq(Char), NEW old \in Seq(Char), old # <<>>, NEW new,
         NEW f, NEW g, Replaces(key, old, new, f), Replaces(key, old, new, g)
  PROVE  f = g
  <1> DEFINE n == Len(key) + 1
             Bad == {k \in 0 .. n - 1 : f[n - k] # g[n - k]}
  <1>1. n \in Nat /\ n > 0 /\ Len(old) \in Nat /\ Len(old) > 0
    OBVIOUS
  <1>2. \A i \in 1 .. n : /\ f[i] = ReplaceFrom(key, old, new, f, i)
                          /\ g[i] = ReplaceFrom(key, old, new, g, i)
    BY DEF Replaces
  <1>3. ASSUME NEW k \in Bad, \A j \in Bad : k <= j PROVE FALSE
    <2> DEFINE i == n - k
    <2>1. i \in 1 .. n /\ f[i] # g[i]
      BY <1>1
    <2>2. \A j \in 1 .. n : j > i => f[j] = g[j]
      <3> SUFFICES ASSUME NEW j \in 1 .. n, j > i, f[j] # g[j] PROVE FALSE
        OBVIOUS
      <3>1. n - j \in 0 .. n - 1 /\ n - (n - j) = j /\ ~(k <= n - j)
        BY <1>1
      <3>2. n - j \in Bad
        BY <3>1
      <3> QED
        BY <1>3, <3>1, <3>2
    <2>3. CASE i > Len(key)
      BY <1>2, <2>1, <2>3 DEF ReplaceFrom
    <2>4. CASE i <= Len(key) /\ HasPrefix(SubSeq(key, i, Len(key)), old)
      <3>1. Len(old) <= Len(key) - i + 1
        BY <2>1, <2>4 DEF HasPrefix, IsPrefix
      <3>2. i + Len(old) \in 1 .. n /\ i + Len(old) > i /\ ~(i > Len(key))
        BY <1>1, <2>1, <2>4, <3>1
      <3>3. f[i + Len(old)] = g[i + Len(old)]
        BY <2>2, <3>2
      <3>4. f[i] = new \o f[i + Len(old)] /\ g[i] = new \o g[i + Len(old)]
        BY <1>2, <2>1, <2>4, <3>2 DEF ReplaceFrom
      <3> QED
        BY <2>1, <3>3, <3>4
    <2>5. CASE i <= Len(key) /\ ~HasPrefix(SubSeq(key, i, Len(key)), old)
      <3>1. i + 1 \in 1 .. n /\ i + 1 > i /\ ~(i > Len(key))
        BY <1>1, <2>1, <2>5
      <3>2. f[i + 1] = g[i + 1]
        BY <2>2, <3>1
      <3>3. f[i] = <<key[i]>> \o f[i + 1] /\ g[i] = <<key[i]>> \o g[i + 1]
        BY <1>2, <2>1, <2>5, <3>1 DEF ReplaceFrom
      <3> QED
        BY <2>1, <3>2, <3>3
    <2> QED
      BY <1>1, <2>1, <2>3, <2>4, <2>5
  <1>4. Bad = {}
    <2>1. Bad \subseteq Nat
      BY <1>1
    <2> QED
      BY <1>3, <2>1, LeastElement
  <1>5. \A i \in 1 .. n : f[i] = g[i]
    <2> SUFFICES ASSUME NEW i \in 1 .. n, f[i] # g[i] PROVE FALSE
      OBVIOUS
    <2>1. n - i \in 0 .. n - 1 /\ n - (n - i) = i
      BY <1>1
    <2> QED
      BY <1>4, <2>1
  <1>6. f = [i \in 1 .. n |-> f[i]] /\ g = [i \in 1 .. n |-> g[i]]
    BY DEF Replaces
  <1> QED
    BY <1>5, <1>6

LEMMA ReplaceIs ==
  ASSUME NEW key \in Seq(Char), NEW old \in Seq(Char), old # <<>>, NEW new,
         NEW f, Replaces(key, old, new, f)
  PROVE  Replace(key, old, new) = f[1]
  BY ReplaceChooses, ReplaceUnique

\* The rest of a key: one character off, or a prefix off.
LEMMA SuffixOf ==
  ASSUME NEW key \in Seq(Char), NEW i \in 1 .. Len(key)
  PROVE  /\ SubSeq(key, i, Len(key)) = <<key[i]>> \o SubSeq(key, i + 1, Len(key))
         /\ \A old \in Seq(Char) : HasPrefix(SubSeq(key, i, Len(key)), old) =>
              SubSeq(key, i, Len(key)) = old \o SubSeq(key, i + Len(old), Len(key))
  <1> DEFINE s == SubSeq(key, i, Len(key))
  <1>1. s \in Seq(Char) /\ Len(s) = Len(key) - i + 1 /\ \A j \in 1 .. Len(s) : s[j] = key[i + j - 1]
    OBVIOUS
  <1>2. s = <<key[i]>> \o SubSeq(key, i + 1, Len(key))
    BY <1>1
  <1>3. ASSUME NEW old \in Seq(Char), HasPrefix(s, old)
        PROVE  s = old \o SubSeq(key, i + Len(old), Len(key))
    <2> DEFINE t == SubSeq(key, i + Len(old), Len(key))
    <2>1. Len(old) <= Len(s) /\ SubSeq(old, 1, Len(old)) = SubSeq(s, 1, Len(old))
      BY <1>3 DEF HasPrefix, IsPrefix
    <2>2. \A j \in 1 .. Len(old) : old[j] = s[j]
      BY <1>1, <2>1
    <2>3. /\ t \in Seq(Char) /\ Len(t) = Len(s) - Len(old)
          /\ \A j \in 1 .. Len(t) : t[j] = key[i + Len(old) + j - 1]
      <3>1. /\ Len(old) \in Nat /\ Len(key) \in Nat /\ i + Len(old) \in 1 .. Len(key) + 1
            /\ Len(key) \in (i + Len(old)) - 1 .. Len(key)
            /\ Len(key) - (i + Len(old)) + 1 = Len(s) - Len(old)
        BY <1>1, <2>1
      <3> QED
        BY <3>1, SubSeqProperties
    <2>4. \A j \in 1 .. Len(t) : t[j] = s[Len(old) + j]
      BY <1>1, <2>3
    <2> QED
      BY <1>1, <2>1, <2>2, <2>3, <2>4
  <1> QED
    BY <1>2, <1>3

\* A key is replaced by itself if nothing is renamed.
LEMMA ReplaceSame ==
  ASSUME NEW key \in Seq(Char), NEW old \in Seq(Char), old # <<>>
  PROVE  Replace(key, old, old) = key
  <1> DEFINE f == [i \in 1 .. Len(key) + 1 |-> SubSeq(key, i, Len(key))]
  <1>1. ASSUME NEW i \in 1 .. Len(key) + 1 PROVE f[i] = ReplaceFrom(key, old, old, f, i)
    <2>1. CASE i > Len(key)
      BY <2>1 DEF ReplaceFrom
    <2>2. CASE i <= Len(key)
      <3>1. i \in 1 .. Len(key) /\ i + 1 \in 1 .. Len(key) + 1 /\ ~(i > Len(key))
        BY <2>2
      <3>2. CASE HasPrefix(SubSeq(key, i, Len(key)), old)
        <4>1. Len(old) <= Len(key) - i + 1
          BY <3>1, <3>2 DEF HasPrefix, IsPrefix
        <4>2. i + Len(old) \in 1 .. Len(key) + 1
          BY <3>1, <4>1
        <4> QED
          BY <3>1, <3>2, <4>2, SuffixOf DEF ReplaceFrom
      <3>3. CASE ~HasPrefix(SubSeq(key, i, Len(key)), old)
        BY <3>1, <3>3, SuffixOf DEF ReplaceFrom
      <3> QED
        BY <3>2, <3>3
    <2> QED
      BY <2>1, <2>2
  <1>2. Replaces(key, old, old, f)
    BY <1>1 DEF Replaces
  <1>3. f[1] = key
    OBVIOUS
  <1> QED
    BY <1>2, <1>3, ReplaceIs

\* A prefix that occurs nowhere else in a key is replaced in front.
LEMMA ReplaceFront ==
  ASSUME NEW key \in Seq(Char), NEW old \in Seq(Char), old # <<>>, NEW new \in Seq(Char),
         HasPrefix(key, old),
         \A i \in 2 .. Len(key) : ~HasPrefix(SubSeq(key, i, Len(key)), old)
  PROVE  Replace(key, old, new) = new \o TrimPrefix(key, old)
  <1> DEFINE rest == SubSeq(key, Len(old) + 1, Len(key))
             f == [i \in 1 .. Len(key) + 1 |-> IF i = 1 THEN new \o rest ELSE SubSeq(key, i, Len(key))]
  <1>1. Len(old) \in 1 .. Len(key) /\ Len(key) \in Nat
    BY DEF HasPrefix, IsPrefix
  <1>2. f[1] = ReplaceFrom(key, old, new, f, 1)
    <2>1. SubSeq(key, 1, Len(key)) = key /\ ~(1 > Len(key)) /\ 1 + Len(old) \in 2 .. Len(key) + 1
      BY <1>1
    <2>2. f[1 + Len(old)] = rest
      BY <1>1, <2>1
    <2>3. f[1] = new \o rest
      BY <1>1
    <2> HIDE DEF f, rest
    <2> QED
      BY <2>1, <2>2, <2>3 DEF ReplaceFrom
  <1>3. ASSUME NEW i \in 2 .. Len(key) + 1 PROVE f[i] = ReplaceFrom(key, old, new, f, i)
    <2>1. CASE i > Len(key)
      BY <2>1 DEF ReplaceFrom
    <2>2. CASE i <= Len(key)
      <3>1. /\ i \in 1 .. Len(key) /\ i \in 2 .. Len(key) /\ ~(i > Len(key))
            /\ i + 1 \in 1 .. Len(key) + 1 /\ i # 1 /\ i + 1 # 1
        BY <2>2
      <3>2. f[i] = SubSeq(key, i, Len(key)) /\ f[i + 1] = SubSeq(key, i + 1, Len(key))
        BY <3>1
      <3> QED
        BY <3>1, <3>2, SuffixOf DEF ReplaceFrom
    <2> QED
      BY <2>1, <2>2
  <1>4. Replaces(key, old, new, f)
    <2>1. f = [i \in 1 .. Len(key) + 1 |-> f[i]]
      OBVIOUS
    <2>2. \A i \in 1 .. Len(key) + 1 : i = 1 \/ i \in 2 .. Len(key) + 1
      BY <1>1
    <2> HIDE DEF f
    <2>3. \A i \in 1 .. Len(key) + 1 : f[i] = ReplaceFrom(key, old, new, f, i)
      BY <1>2, <1>3, <2>2
    <2> QED
      BY <2>1, <2>3 DEF Replaces
  <1>5. f[1] = new \o TrimPrefix(key, old)
    BY <1>1 DEF TrimPrefix
  <1> HIDE DEF f
  <1> QED
    BY <1>4, <1>5, ReplaceIs

LEMMA InFrontMapsBack == ASSUME OnlyInFront PROVE MapsBack
  <1> SUFFICES ASSUME NEW pair \in Pair, NEW key \in Below(pair[2]) \cup Below(pair[1]),
                      HasPrefix(key, pair[2])
               PROVE  Replace(key, pair[2], pair[1]) = pair[1] \o TrimPrefix(key, pair[2])
    BY DEF MapsBack
  <1>1. /\ pair[1] \in Seq(Char) /\ pair[2] \in Seq(Char) /\ pair[2] # <<>>
        /\ Rest \subseteq Seq(Char)
    BY ConstantsAssumption
  <1>2. key \in Seq(Char)
    <2>1. PICK r \in Rest : key = pair[2] \o r \/ key = pair[1] \o r
      BY DEF Below
    <2>2. r \in Seq(Char)
      BY <1>1
    <2>3. pair[2] \o r \in Seq(Char) /\ pair[1] \o r \in Seq(Char)
      BY <1>1, <2>2, ConcatProperties
    <2> QED
      BY <2>1, <2>3
  <1>3. CASE pair[1] = pair[2]
    <2>1. Replace(key, pair[2], pair[1]) = key
      BY <1>1, <1>2, <1>3, ReplaceSame
    <2>2. key = pair[2] \o TrimPrefix(key, pair[2])
      <3>1. Len(pair[2]) \in 1 .. Len(key) /\ Len(key) \in Nat /\ SubSeq(key, 1, Len(key)) = key
        BY <1>1, <1>2 DEF HasPrefix, IsPrefix
      <3>2. 1 \in 1 .. Len(key) /\ 1 + Len(pair[2]) = Len(pair[2]) + 1
        BY <3>1
      <3>3. SubSeq(key, 1, Len(key)) =
              pair[2] \o SubSeq(key, 1 + Len(pair[2]), Len(key))
        BY <1>1, <1>2, <3>1, <3>2, SuffixOf
      <3> QED
        BY <3>1, <3>2, <3>3 DEF TrimPrefix
    <2> QED
      BY <1>3, <2>1, <2>2
  <1>4. CASE pair[1] # pair[2]
    <2>1. \A i \in 2 .. Len(key) : ~HasPrefix(SubSeq(key, i, Len(key)), pair[2])
      BY <1>4 DEF OnlyInFront
    <2> QED
      BY <1>1, <1>2, <2>1, ReplaceFront
  <1> QED
    BY <1>3, <1>4

----------------------------------------------------------------------------
(* The pass.                                                               *)

\* What stays in the end is what the property says.
LEMMA FinalStore ==
  ASSUME MapsBack, Configured, store = {key \in Full : Stays(key)}
  PROVE  store = {destination \o r : r \in {x \in Rest : /\ source \o x \in listing
                                                         /\ ~Excluded(source \o x)}}
                   \cup Protected
                   \cup {key \in before : ~HasPrefix(key, destination)}
  <1> DEFINE Renamed == {destination \o r : r \in {x \in Rest : /\ source \o x \in listing
                                                                /\ ~Excluded(source \o x)}}
  <1>1. Renamed = Written(listing)
    <2>1. \A k \in listing : \E r \in Rest : k = source \o r
      BY DEF Configured, Below
    <2>2. \A r \in Rest : DestKey(source \o r) = destination \o r
      BY Keys
    <2>3. \A key \in Written(listing) :
            \E r \in Rest : source \o r \in listing /\ ~Excluded(source \o r) /\ key = destination \o r
      <3> SUFFICES ASSUME NEW k \in listing, ~Excluded(k)
                   PROVE  \E r \in Rest : /\ source \o r \in listing /\ ~Excluded(source \o r)
                                           /\ DestKey(k) = destination \o r
        BY DEF Written
      <3> QED
        BY <2>1, <2>2
    <2>4. \A r \in Rest : source \o r \in listing /\ ~Excluded(source \o r) =>
            destination \o r \in Written(listing)
      <3> SUFFICES ASSUME NEW r \in Rest, source \o r \in listing, ~Excluded(source \o r)
                   PROVE  destination \o r \in Written(listing)
        OBVIOUS
      <3>1. DestKey(source \o r) \in Written(listing)
        BY Zenon DEF Written
      <3> QED
        BY <2>2, <3>1
    <2>5. Written(listing) \subseteq Renamed
      BY <2>3
    <2>6. Renamed \subseteq Written(listing)
      BY <2>4
    <2> QED
      BY <2>5, <2>6
  <1>2. \A key \in Renamed : HasPrefix(key, destination) /\ key \in Used(listing)
    <2>1. \A r \in Rest : HasPrefix(destination \o r, destination)
      BY Keys, TrimConcat
    <2> QED
      BY <1>1, <2>1 DEF Written, Used
  <1>3. \A key \in before : HasPrefix(key, destination) =>
          SourceKey(key) = source \o TrimPrefix(key, destination)
    BY Keys DEF MapsBack, Configured, SourceKey
  <1>4. \A key \in before : HasPrefix(key, destination) /\ key \in Used(listing) =>
          key \in Renamed \/ Excluded(SourceKey(key))
    <2> SUFFICES ASSUME NEW key \in before, HasPrefix(key, destination), key \in Used(listing)
                 PROVE  key \in Renamed \/ Excluded(SourceKey(key))
      OBVIOUS
    <2>1. PICK r \in Rest : source \o r \in listing /\ key = destination \o r
      <3>1. PICK k \in listing : key = DestKey(k)
        BY DEF Used
      <3>2. PICK r \in Rest : k = source \o r
        BY DEF Configured, Below
      <3>3. DestKey(source \o r) = destination \o r
        BY Keys
      <3> QED
        BY <3>1, <3>2, <3>3
    <2>2. TrimPrefix(key, destination) = r
      BY <2>1, Keys, TrimConcat
    <2> QED
      BY <1>3, <2>1, <2>2
  <1>5. \A key \in before : key \in Protected <=>
          HasPrefix(key, destination) /\ Excluded(SourceKey(key))
    BY <1>3 DEF Protected
  <1>6. Protected \subseteq before
    BY DEF Protected
  <1> QED
    BY <1>1, <1>2, <1>4, <1>5, <1>6 DEF Full, Stays

LEMMA KInit == Init => KInv
  <1> SUFFICES ASSUME Init PROVE KInv
    OBVIOUS
  <1>1. Configured
    BY DEF Init, Configured, UpTo
  <1>2. Used(listing \ todo) = {} /\ Written(listing \ todo) = {}
    BY DEF Init, Used, Written
  <1> QED
    BY <1>1, <1>2 DEF Init, KInv

LEMMA KStep == KInv /\ [Next]_vars => KInv'
  <1> SUFFICES ASSUME KInv, [Next]_vars PROVE KInv'
    OBVIOUS
  <1>1. ASSUME UNCHANGED config
        PROVE  /\ Configured' /\ Full' = Full
               /\ \A S : Used(S)' = Used(S) /\ Written(S)' = Written(S)
               /\ \A key : Stays(key)' = Stays(key)
    BY <1>1 DEF KInv, config, Configured, Full, Used, Written, Stays, DestKey, SourceKey, Excluded
  <1>2. ASSUME NEW key \in todo, Update(key) PROVE KInv'
    <2>1. key \in listing /\ listing \ todo' = (listing \ todo) \cup {key}
      BY <1>2 DEF KInv, Update
    <2>2. Used(listing \ todo') = Used(listing \ todo) \cup {DestKey(key)}
      BY <2>1 DEF Used
    <2>3. Written(listing \ todo') =
            Written(listing \ todo) \cup IF Excluded(key) THEN {} ELSE {DestKey(key)}
      BY <2>1 DEF Written
    <2> QED
      BY <1>1, <1>2, <2>1, <2>2, <2>3 DEF KInv, Update, config
  <1>3. CASE ListKeys
    <2>1. listing \ todo = listing
      BY <1>3 DEF ListKeys
    <2>2. store = Full /\ usedKeys = Used(listing)
      BY <1>3, <2>1 DEF KInv, ListKeys, Full
    <2>3. \A key \in Full : ~HasPrefix(key, destination) => Stays(key)
      BY DEF Stays
    <2> QED
      BY <1>1, <1>3, <2>2, <2>3 DEF KInv, ListKeys, config
  <1>4. ASSUME NEW key \in todo, Delete(key) PROVE KInv'
    <2>1. key \in usedKeys \/ Excluded(SourceKey(key)) <=> Stays(key)
      BY <1>4 DEF KInv, Delete, Stays
    <2> QED
      BY <1>1, <1>4, <2>1 DEF KInv, Delete, config
  <1>5. CASE End
    BY <1>1, <1>5 DEF KInv, End, config
  <1>6. CASE UNCHANGED vars
    BY <1>1, <1>6 DEF KInv, vars, config
  <1> QED
    BY <1>2, <1>3, <1>4, <1>5, <1>6 DEF Next

\* If the destination occurs in its keys only in front, or is the source, a pass
\* leaves below it exactly the renamed keys that are not excluded and the
\* protected ones, and everything outside it alone (runner.go:311-398).
THEOREM PassMirrors == ASSUME OnlyInFront PROVE Spec => []Mirrored
  <1>1. KInv => Mirrored
    BY FinalStore, InFrontMapsBack DEF KInv, Mirrored
  <1> QED
    BY <1>1, KInit, KStep, PTL DEF Spec
==============================================================================
