---------------------------- MODULE ConfigProofs ----------------------------
(* Proofs about Config, for any paths, contents of the files and flags: what *)
(* a load makes of them, and what reloads do to it.  All that a load takes   *)
(* over from the one before is cliConfig, and that is what the flags were    *)
(* parsed to: the elements of its lists, to which Finalize writes, are       *)
(* complete already.                                                         *)
EXTENDS Config, Minimum, SequenceTheorems

----------------------------------------------------------------------------
(* Merging the configurations of a sequence, and joining the lists of one.  *)
(* Both are recursive functions: that there is such a function is shown by  *)
(* extending it by one argument, and the results are then read off a chain  *)
(* of the results so far.                                                   *)

\* What the fold computes for a set of indices.
MergeBody(base, configs, iter, s) ==
  IF s = {} THEN base ELSE Merge(iter[s \ {Max(s)}], configs[Max(s)])
Merges(base, configs, domain, iter) ==
  iter = [s \in SUBSET domain |-> MergeBody(base, configs, iter, s)]

LEMMA MergeChooses ==
  ASSUME NEW base, NEW configs, \E iter : Merges(base, configs, DOMAIN configs, iter)
  PROVE  \E iter : /\ Merges(base, configs, DOMAIN configs, iter)
                   /\ MergeAll(base, configs) = iter[DOMAIN configs]
  BY Zenon DEF MergeAll, FoldLeft, MapThenFoldSet, Merges, MergeBody

LEMMA GreatestIndex ==
  ASSUME NEW k \in Nat, NEW s \in SUBSET (1 .. k), k \in s
  PROVE  Max(s) = k
  <1>1. \A y \in s : k >= y
    OBVIOUS
  <1>2. \A x \in s : (\A y \in s : x >= y) => x = k
    OBVIOUS
  <1> QED
    BY <1>1, <1>2 DEF Max

LEMMA MergesExist ==
  ASSUME NEW base, NEW configs, NEW n \in Nat
  PROVE  \E iter : Merges(base, configs, 1 .. n, iter)
  <1> DEFINE Known == {k \in 0 .. n : \E iter : Merges(base, configs, 1 .. k, iter)}
  <1>1. 0 \in Known
    <2> DEFINE iter == [s \in SUBSET (1 .. 0) |-> base]
    <2>1. \A s \in SUBSET (1 .. 0) : s = {}
      OBVIOUS
    <2>2. iter = [s \in SUBSET (1 .. 0) |-> MergeBody(base, configs, iter, s)]
      BY <2>1 DEF MergeBody
    <2> HIDE DEF iter
    <2>3. Merges(base, configs, 1 .. 0, iter)
      BY <2>2 DEF Merges
    <2> QED
      BY <2>3
  <1>2. ASSUME NEW k \in 1 .. n, k - 1 \in Known PROVE k \in Known
    <2>1. PICK f : Merges(base, configs, 1 .. k - 1, f)
      BY <1>2
    <2> DEFINE g == [s \in SUBSET (1 .. k) |->
                       IF k \in s THEN Merge(f[s \ {k}], configs[k]) ELSE f[s]]
    <2>2. ASSUME NEW s \in SUBSET (1 .. k) PROVE g[s] = MergeBody(base, configs, g, s)
      <3>1. CASE k \in s
        <4>1. Max(s) = k
          BY <3>1, GreatestIndex
        <4>2. g[s \ {k}] = f[s \ {k}]
          OBVIOUS
        <4>3. g[s] = Merge(f[s \ {k}], configs[k]) /\ s # {}
          BY <3>1
        <4> HIDE DEF g
        <4> QED
          BY <4>1, <4>2, <4>3 DEF MergeBody
      <3>2. CASE k \notin s
        <4>1. s \in SUBSET (1 .. k - 1)
          BY <3>2
        <4>2. f[s] = MergeBody(base, configs, f, s)
          BY <2>1, <4>1 DEF Merges
        <4>3. \A x : g[s \ {x}] = f[s \ {x}]
          BY <3>2
        <4>4. g[s] = f[s]
          BY <3>2
        <4> HIDE DEF g
        <4> QED
          BY <4>2, <4>3, <4>4 DEF MergeBody
      <3> QED
        BY <3>1, <3>2
    <2>3. g = [s \in SUBSET (1 .. k) |-> g[s]]
      OBVIOUS
    <2> HIDE DEF g
    <2>4. Merges(base, configs, 1 .. k, g)
      BY <2>2, <2>3 DEF Merges
    <2> QED
      BY <1>2, <2>4
  <1> HIDE DEF Known
  <1>3. n \in Known
    BY <1>1, <1>2, Upward
  <1> QED
    BY <1>3 DEF Known

\* The results so far of merging a sequence.
MergesAlong(base, configs, n, chain) ==
  /\ chain[0] = base /\ MergeAll(base, configs) = chain[n]
  /\ \A k \in 1 .. n : chain[k] = Merge(chain[k - 1], configs[k])

LEMMA MergeChain ==
  ASSUME NEW base, NEW configs, NEW n \in Nat, DOMAIN configs = 1 .. n
  PROVE  \E chain : MergesAlong(base, configs, n, chain)
  <1>1. PICK iter : /\ Merges(base, configs, 1 .. n, iter)
                    /\ MergeAll(base, configs) = iter[1 .. n]
    <2>1. \E iter : Merges(base, configs, DOMAIN configs, iter)
      BY MergesExist
    <2> QED
      BY <2>1, MergeChooses
  <1> DEFINE chain == [k \in 0 .. n |-> iter[1 .. k]]
  <1>2. \A s \in SUBSET (1 .. n) : iter[s] = MergeBody(base, configs, iter, s)
    BY <1>1 DEF Merges
  <1>3. chain[0] = base
    <2>1. 1 .. 0 = {} /\ 1 .. 0 \in SUBSET (1 .. n) /\ chain[0] = iter[1 .. 0]
      OBVIOUS
    <2> HIDE DEF chain
    <2> QED
      BY <1>2, <2>1 DEF MergeBody
  <1>4. ASSUME NEW k \in 1 .. n PROVE chain[k] = Merge(chain[k - 1], configs[k])
    <2>1. Max(1 .. k) = k
      BY GreatestIndex
    <2>2. (1 .. k) \ {k} = 1 .. k - 1 /\ 1 .. k # {} /\ 1 .. k \in SUBSET (1 .. n)
      OBVIOUS
    <2>3. chain[k] = iter[1 .. k] /\ chain[k - 1] = iter[1 .. k - 1]
      OBVIOUS
    <2> HIDE DEF chain
    <2> QED
      BY <1>2, <2>1, <2>2, <2>3 DEF MergeBody
  <1>5. chain[n] = iter[1 .. n]
    OBVIOUS
  <1> HIDE DEF chain
  <1>6. MergesAlong(base, configs, n, chain)
    BY <1>1, <1>3, <1>4, <1>5 DEF MergesAlong
  <1> QED
    BY <1>6

Joins(seqs, n, f) == f = [i \in 1 .. n |-> IF i = 1 THEN seqs[i] ELSE f[i - 1] \o seqs[i]]

LEMMA JoinChooses ==
  ASSUME NEW seqs, Len(seqs) # 0, \E f : Joins(seqs, Len(seqs), f)
  PROVE  \E f : Joins(seqs, Len(seqs), f) /\ FlattenSeq(seqs) = f[Len(seqs)]
  BY Zenon DEF FlattenSeq, Joins

LEMMA JoinsExist ==
  ASSUME NEW seqs, NEW n \in Nat
  PROVE  \E f : Joins(seqs, n, f)
  <1> DEFINE Known == {k \in 0 .. n : \E f : Joins(seqs, k, f)}
  <1>1. 0 \in Known
    <2> DEFINE f == [i \in 1 .. 0 |-> <<>>]
    <2>1. f = [i \in 1 .. 0 |-> IF i = 1 THEN seqs[i] ELSE f[i - 1] \o seqs[i]]
      OBVIOUS
    <2> HIDE DEF f
    <2>2. Joins(seqs, 0, f)
      BY <2>1 DEF Joins
    <2> QED
      BY <2>2
  <1>2. ASSUME NEW k \in 1 .. n, k - 1 \in Known PROVE k \in Known
    <2>1. PICK f : Joins(seqs, k - 1, f)
      BY <1>2
    <2> DEFINE g == [i \in 1 .. k |-> IF i < k THEN f[i]
                                      ELSE IF i = 1 THEN seqs[i] ELSE f[i - 1] \o seqs[i]]
    <2>2. ASSUME NEW i \in 1 .. k
          PROVE  g[i] = IF i = 1 THEN seqs[i] ELSE g[i - 1] \o seqs[i]
      <3>1. \A j \in 1 .. k - 1 : f[j] = IF j = 1 THEN seqs[j] ELSE f[j - 1] \o seqs[j]
        BY <2>1 DEF Joins
      <3>2. i # 1 => g[i - 1] = f[i - 1]
        OBVIOUS
      <3>3. CASE i < k
        BY <3>1, <3>2, <3>3
      <3>4. CASE i = k
        BY <3>2, <3>4
      <3> QED
        BY <3>3, <3>4
    <2>3. g = [i \in 1 .. k |-> g[i]]
      OBVIOUS
    <2> HIDE DEF g
    <2>4. Joins(seqs, k, g)
      BY <2>2, <2>3 DEF Joins
    <2> QED
      BY <1>2, <2>4
  <1> HIDE DEF Known
  <1>3. n \in Known
    BY <1>1, <1>2, Upward
  <1> QED
    BY <1>3 DEF Known

\* The results so far of joining the sequences of a sequence.
JoinsAlong(seqs, n, chain) ==
  /\ chain[0] = <<>> /\ FlattenSeq(seqs) = chain[n]
  /\ \A k \in 1 .. n : chain[k] = chain[k - 1] \o seqs[k]

LEMMA JoinChain ==
  ASSUME NEW S, NEW n \in Nat, NEW seqs, DOMAIN seqs = 1 .. n, seqs \in Seq(Seq(S))
  PROVE  \E chain : JoinsAlong(seqs, n, chain)
  <1>1. Len(seqs) = n
    OBVIOUS
  <1>2. CASE n = 0
    <2> DEFINE chain == [k \in 0 .. 0 |-> <<>>]
    <2>1. seqs = <<>>
      BY <1>1, <1>2
    <2>2. FlattenSeq(seqs) = <<>>
      BY <1>1, <1>2, <2>1 DEF FlattenSeq
    <2>3. chain[0] = <<>>
      OBVIOUS
    <2> HIDE DEF chain
    <2>4. JoinsAlong(seqs, n, chain)
      BY <1>2, <2>2, <2>3 DEF JoinsAlong
    <2> QED
      BY <2>4
  <1>3. CASE n # 0
    <2>1. PICK f : Joins(seqs, n, f) /\ FlattenSeq(seqs) = f[n]
      BY <1>1, <1>3, JoinsExist, JoinChooses
    <2> DEFINE chain == [k \in 0 .. n |-> IF k = 0 THEN <<>> ELSE f[k]]
    <2>2. chain[0] = <<>> /\ chain[n] = f[n]
      BY <1>3
    <2>3. ASSUME NEW k \in 1 .. n PROVE chain[k] = chain[k - 1] \o seqs[k]
      <3>1. chain[k] = IF k = 1 THEN seqs[k] ELSE f[k - 1] \o seqs[k]
        <4>1. f[k] = IF k = 1 THEN seqs[k] ELSE f[k - 1] \o seqs[k]
          BY <2>1 DEF Joins
        <4>2. chain[k] = f[k]
          OBVIOUS
        <4> QED
          BY <4>1, <4>2
      <3>2. k # 1 => chain[k - 1] = f[k - 1]
        OBVIOUS
      <3>3. chain[1 - 1] = <<>>
        OBVIOUS
      <3>4. seqs[k] \in Seq(S)
        OBVIOUS
      <3>5. <<>> \o seqs[k] = seqs[k]
        BY <3>4
      <3> HIDE DEF chain
      <3> QED
        BY <3>1, <3>2, <3>3, <3>5
    <2> HIDE DEF chain
    <2>4. JoinsAlong(seqs, n, chain)
      BY <2>1, <2>2, <2>3 DEF JoinsAlong
    <2> QED
      BY <2>4
  <1> QED
    BY <1>2, <1>3

----------------------------------------------------------------------------
(* What a merged configuration has of the ones it is merged from.          *)

LEMMA MergeSetting ==
  ASSUME NEW c, NEW o, NEW s \in Setting
  PROVE  Merge(c, o).set[s] = IF o.set[s] = Unset THEN c.set[s] ELSE o.set[s]
  BY DEF Merge

Silent(configs, k, s) == \A i \in 1 .. k : configs[i].set[s] = Unset
LastTo(configs, k, i, s) ==
  /\ configs[i].set[s] # Unset
  /\ \A j \in 1 .. k : j > i => configs[j].set[s] = Unset

\* The value of a setting is that of the last one that has it.
LEMMA LastDecides ==
  ASSUME NEW base, NEW configs, NEW n \in Nat, DOMAIN configs = 1 .. n, NEW s \in Setting
  PROVE  \/ Silent(configs, n, s) /\ MergeAll(base, configs).set[s] = base.set[s]
         \/ \E i \in 1 .. n : /\ LastTo(configs, n, i, s)
                              /\ MergeAll(base, configs).set[s] = configs[i].set[s]
  <1>1. PICK chain : MergesAlong(base, configs, n, chain)
    BY MergeChain
  <1> DEFINE Decided ==
        {k \in 0 .. n : \/ Silent(configs, k, s) /\ chain[k].set[s] = base.set[s]
                        \/ \E i \in 1 .. k : /\ LastTo(configs, k, i, s)
                                             /\ chain[k].set[s] = configs[i].set[s]}
  <1>2. 0 \in Decided
    BY <1>1 DEF MergesAlong, Silent
  <1>3. ASSUME NEW k \in 1 .. n, k - 1 \in Decided PROVE k \in Decided
    <2>1. chain[k].set[s] = IF configs[k].set[s] = Unset THEN chain[k - 1].set[s]
                            ELSE configs[k].set[s]
      BY <1>1, MergeSetting DEF MergesAlong
    <2>2. CASE configs[k].set[s] # Unset
      <3>1. k \in 1 .. k /\ LastTo(configs, k, k, s)
        BY <2>2 DEF LastTo
      <3> QED
        BY <2>1, <2>2, <3>1
    <2>3. CASE configs[k].set[s] = Unset
      <3>1. \A j \in 1 .. k : j = k \/ j \in 1 .. k - 1
        OBVIOUS
      <3>2. Silent(configs, k - 1, s) => Silent(configs, k, s)
        BY <2>3, <3>1 DEF Silent
      <3>3. \A i \in 1 .. k - 1 : LastTo(configs, k - 1, i, s) => LastTo(configs, k, i, s)
        BY <2>3, <3>1 DEF LastTo
      <3>4. \A i \in 1 .. k - 1 : i \in 1 .. k
        OBVIOUS
      <3> QED
        BY <1>3, <2>1, <2>3, <3>2, <3>3, <3>4
    <2> QED
      BY <2>2, <2>3
  <1> HIDE DEF Decided
  <1>4. n \in Decided
    BY <1>2, <1>3, Upward
  <1>5. chain[n] = MergeAll(base, configs)
    BY <1>1 DEF MergesAlong
  <1> QED
    BY <1>4, <1>5 DEF Decided

ValidStanza  == {stanza \in Stanza : ValidPrefix(stanza)}

\* The prefixes and excludes of a configuration are those that are written in
\* two lists.
Lists(c, prefixes, excludes) ==
  /\ prefixes \in Seq(ValidStanza) /\ excludes \in Seq(Exclude)
  /\ c.prefixes = [i \in DOMAIN prefixes |-> MapToPrefixConfig(prefixes[i])]
  /\ c.excludes = [i \in DOMAIN excludes |-> excludes[i].source]

Mapped(f, s) == [i \in DOMAIN s |-> f[s[i]]]

\* Mapping a joined list is joining the mapped ones.
LEMMA JoinMapped ==
  ASSUME NEW S, NEW f, NEW a \in Seq(S), NEW b \in Seq(S)
  PROVE  Mapped(f, a) \o Mapped(f, b) = Mapped(f, a \o b)
  <1> DEFINE T == {f[x] : x \in S}
             fa == [i \in DOMAIN a |-> f[a[i]]]
             fb == [i \in DOMAIN b |-> f[b[i]]]
             fab == [i \in DOMAIN (a \o b) |-> f[(a \o b)[i]]]
  <1>1. fa \in Seq(T) /\ Len(fa) = Len(a) /\ \A i \in 1 .. Len(a) : fa[i] = f[a[i]]
    OBVIOUS
  <1>2. fb \in Seq(T) /\ Len(fb) = Len(b) /\ \A i \in 1 .. Len(b) : fb[i] = f[b[i]]
    OBVIOUS
  <1>3. /\ a \o b \in Seq(S) /\ Len(a \o b) = Len(a) + Len(b)
        /\ \A i \in 1 .. Len(a) + Len(b) :
             (a \o b)[i] = IF i <= Len(a) THEN a[i] ELSE b[i - Len(a)]
    BY ConcatProperties
  <1>4. /\ fab \in Seq(T) /\ Len(fab) = Len(a) + Len(b)
        /\ \A i \in 1 .. Len(a) + Len(b) : fab[i] = f[(a \o b)[i]]
    BY <1>3
  <1> HIDE DEF T, fa, fb, fab
  <1>5. /\ fa \o fb \in Seq(T) /\ Len(fa \o fb) = Len(a) + Len(b)
        /\ \A i \in 1 .. Len(a) + Len(b) :
             (fa \o fb)[i] = IF i <= Len(a) THEN fa[i] ELSE fb[i - Len(a)]
    <2>1. /\ fa \o fb \in Seq(T) /\ Len(fa \o fb) = Len(fa) + Len(fb)
          /\ \A i \in 1 .. Len(fa) + Len(fb) :
               (fa \o fb)[i] = IF i <= Len(fa) THEN fa[i] ELSE fb[i - Len(fa)]
      <3>1. fa \in Seq(T) /\ fb \in Seq(T)
        BY <1>1, <1>2
      <3> QED
        BY ONLY <3>1, ConcatProperties
    <2> QED
      BY <1>1, <1>2, <2>1
  <1>6. Len(a) \in Nat /\ Len(b) \in Nat
    OBVIOUS
  <1>7. \A i \in 1 .. Len(a) + Len(b) : (fa \o fb)[i] = fab[i]
    <2> SUFFICES ASSUME NEW i \in 1 .. Len(a) + Len(b) PROVE (fa \o fb)[i] = fab[i]
      OBVIOUS
    <2>1. CASE i <= Len(a)
      <3>1. i \in 1 .. Len(a)
        BY <1>6, <2>1
      <3> QED
        BY <1>1, <1>3, <1>4, <1>5, <2>1, <3>1
    <2>2. CASE ~(i <= Len(a))
      <3>1. i - Len(a) \in 1 .. Len(b)
        BY <1>6, <2>2
      <3> QED
        BY <1>2, <1>3, <1>4, <1>5, <2>2, <3>1
    <2> QED
      BY <2>1, <2>2
  <1>8. fa \o fb = fab
    BY <1>4, <1>5, <1>7, SeqEqual
  <1> QED
    BY <1>8 DEF fa, fb, fab, Mapped

LEMMA ListsMerge ==
  ASSUME NEW c, NEW p, NEW e, Lists(c, p, e), NEW o, NEW q, NEW f, Lists(o, q, f)
  PROVE  Lists(Merge(c, o), p \o q, e \o f)
  <1> DEFINE map == [x \in ValidStanza |-> MapToPrefixConfig(x)]
             src == [x \in Exclude |-> x.source]
  <1>1. /\ p \in Seq(ValidStanza) /\ q \in Seq(ValidStanza)
        /\ e \in Seq(Exclude) /\ f \in Seq(Exclude)
    BY DEF Lists
  <1>2. p \o q \in Seq(ValidStanza) /\ e \o f \in Seq(Exclude)
    BY <1>1, ConcatProperties
  <1>3. /\ \A s \in Seq(ValidStanza) :
             [i \in DOMAIN s |-> MapToPrefixConfig(s[i])] = [i \in DOMAIN s |-> map[s[i]]]
        /\ \A s \in Seq(Exclude) : [i \in DOMAIN s |-> s[i].source] = [i \in DOMAIN s |-> src[s[i]]]
    OBVIOUS
  <1> HIDE DEF map, src
  <1>4. /\ c.prefixes = Mapped(map, p) /\ c.excludes = Mapped(src, e)
        /\ o.prefixes = Mapped(map, q) /\ o.excludes = Mapped(src, f)
    BY <1>1, <1>3 DEF Lists, Mapped
  <1>5. c.prefixes \o o.prefixes = Mapped(map, p \o q)
    <2>1. Mapped(map, p) \o Mapped(map, q) = Mapped(map, p \o q)
      BY <1>1, JoinMapped
    <2> QED
      BY <1>4, <2>1
  <1>6. c.excludes \o o.excludes = Mapped(src, e \o f)
    <2>1. Mapped(src, e) \o Mapped(src, f) = Mapped(src, e \o f)
      BY <1>1, JoinMapped
    <2> QED
      BY <1>4, <2>1
  <1>7. /\ Merge(c, o).prefixes = c.prefixes \o o.prefixes
        /\ Merge(c, o).excludes = c.excludes \o o.excludes
    BY DEF Merge
  <1> QED
    BY <1>2, <1>3, <1>5, <1>6, <1>7 DEF Lists, Mapped

LEMMA ListsAll ==
  ASSUME NEW base, Lists(base, <<>>, <<>>), NEW configs, NEW n \in Nat, DOMAIN configs = 1 .. n,
         NEW p, DOMAIN p = 1 .. n, NEW e, DOMAIN e = 1 .. n,
         p \in Seq(Seq(ValidStanza)), e \in Seq(Seq(Exclude)),
         \A i \in 1 .. n : Lists(configs[i], p[i], e[i])
  PROVE  Lists(MergeAll(base, configs), FlattenSeq(p), FlattenSeq(e))
  <1>1. PICK c : MergesAlong(base, configs, n, c)
    BY MergeChain
  <1>2. PICK q : JoinsAlong(p, n, q)
    BY JoinChain
  <1>3. PICK f : JoinsAlong(e, n, f)
    BY JoinChain
  <1> USE DEF MergesAlong, JoinsAlong
  <1> DEFINE Listed == {k \in 0 .. n : Lists(c[k], q[k], f[k])}
  <1>4. 0 \in Listed
    BY <1>1, <1>2, <1>3
  <1>5. ASSUME NEW k \in 1 .. n, k - 1 \in Listed PROVE k \in Listed
    <2>1. Lists(c[k - 1], q[k - 1], f[k - 1]) /\ Lists(configs[k], p[k], e[k])
      BY <1>5
    <2>2. Lists(Merge(c[k - 1], configs[k]), q[k - 1] \o p[k], f[k - 1] \o e[k])
      BY Zenon, <2>1, ListsMerge
    <2>3. /\ c[k] = Merge(c[k - 1], configs[k])
          /\ q[k] = q[k - 1] \o p[k] /\ f[k] = f[k - 1] \o e[k]
      BY <1>1, <1>2, <1>3
    <2>4. Lists(c[k], q[k], f[k])
      BY ONLY <2>2, <2>3
    <2> QED
      BY <2>4
  <1> HIDE DEF Listed
  <1>6. n \in Listed
    BY ONLY <1>4, <1>5, Upward, n \in Nat
  <1> QED
    BY <1>1, <1>2, <1>3, <1>6 DEF Listed

----------------------------------------------------------------------------
(* What a runner is loaded with.                                           *)

\* What the files add up to.
Merged(contents) ==
  MergeAll(DefaultConfig, [i \in DOMAIN Path |-> FromPath(contents, Path[i])])
LoadedFrom(contents) == RunnerConfig(LoadConfigs(contents, ParseFlags(flags)))

CInv ==
  /\ flags \in Flags
  /\ files \in [File -> Content \cup {Missing}]
  /\ process = "running" =>
       /\ seen \in [File -> Content \cup {Missing}] /\ Readable(seen)
       /\ Valid(flags) /\ cliConfig = ParseFlags(flags) /\ cfg = LoadedFrom(seen)

LEMMA FinalSetting ==
  ASSUME NEW c, NEW s \in Setting
  PROVE  Finalize(c).set[s] = IF c.set[s] = Unset THEN Default[s] ELSE c.set[s]
  BY DEF Finalize, FinalizeLists

\* A setting of a runner: from the flags, else from the files, else the default.
LEMMA LoadedSetting ==
  ASSUME NEW contents, NEW s \in Setting \ {"statusDir"}
  PROVE  LoadedFrom(contents).set[s] =
           IF flags.set[s] # Unset THEN flags.set[s]
           ELSE IF Merged(contents).set[s] # Unset THEN Merged(contents).set[s] ELSE Default[s]
  <1> DEFINE override == ParseFlags(flags)
             loaded == LoadConfigs(contents, override)
  <1>1. s \in Setting /\ Default[s] # Unset
    BY ConstantsAssumption
  <1>2. DefaultConfig.set[s] = Unset
    BY DEF DefaultConfig, EmptyConfig
  <1>3. override.set[s] = flags.set[s]
    BY <1>1, <1>2 DEF ParseFlags
  <1>4. loaded = Finalize(Merge(Merged(contents), override))
    BY DEF LoadConfigs, Merged
  <1>5. LoadedFrom(contents) = Finalize(Merge(DefaultConfig, loaded))
    BY DEF LoadedFrom, RunnerConfig
  <1> HIDE DEF override, loaded
  <1>6. loaded.set[s] = IF override.set[s] # Unset THEN override.set[s]
                        ELSE IF Merged(contents).set[s] # Unset THEN Merged(contents).set[s]
                             ELSE Default[s]
    BY <1>1, <1>4, FinalSetting, MergeSetting
  <1>7. LoadedFrom(contents).set[s] = loaded.set[s]
    BY <1>1, <1>2, <1>5, <1>6, FinalSetting, MergeSetting
  <1> QED
    BY <1>3, <1>6, <1>7

LEMMA FileSetting ==
  ASSUME NEW content, NEW s \in Setting
  PROVE  FromFile(content).set[s] = Says(content, s)
  <1>1. CASE content = Missing
    BY <1>1 DEF FromFile, Says, EmptyConfig
  <1>2. CASE content # Missing
    <2>1. FromFile(content).set[s] = MoveDeprecated(content)[s]
      BY <1>2 DEF FromFile, Parse
    <2>2. /\ "token" # "backoff" /\ "token" # "attempts" /\ "backoff" # "attempts"
      OBVIOUS
    <2> QED
      BY <1>2, <2>1, <2>2 DEF MoveDeprecated, Says
  <1> QED
    BY <1>1, <1>2

\* What the files of a path add up to is said by the last that speaks.
LEMMA PathSetting ==
  ASSUME NEW i \in DOMAIN Path, NEW s \in Setting
  PROVE  LET names == FilesOf[Path[i]]
             value == FromPath(seen, Path[i]).set[s]
         IN  \/ /\ \A j \in DOMAIN names : Says(At(<<i, j>>), s) = Unset
                /\ value = Unset
             \/ \E j \in DOMAIN names :
                  /\ Says(At(<<i, j>>), s) # Unset /\ value = Says(At(<<i, j>>), s)
                  /\ \A k \in DOMAIN names : k > j => Says(At(<<i, k>>), s) = Unset
  <1> DEFINE names == FilesOf[Path[i]]
             n == Len(names)
             configs == [j \in DOMAIN names |-> FromFile(seen[names[j]])]
  <1>1. n \in Nat /\ DOMAIN names = 1 .. n /\ DOMAIN configs = 1 .. n
    BY ConstantsAssumption
  <1>2. \A j \in 1 .. n : configs[j].set[s] = Says(At(<<i, j>>), s)
    BY <1>1, FileSetting DEF At
  <1>3. FromPath(seen, Path[i]) = MergeAll(EmptyConfig, configs)
    BY DEF FromPath
  <1>4. EmptyConfig.set[s] = Unset
    BY DEF EmptyConfig
  <1> HIDE DEF n, configs, names
  <1>5. \/ Silent(configs, n, s) /\ MergeAll(EmptyConfig, configs).set[s] = EmptyConfig.set[s]
        \/ \E j \in 1 .. n : /\ LastTo(configs, n, j, s)
                             /\ MergeAll(EmptyConfig, configs).set[s] = configs[j].set[s]
    BY <1>1, LastDecides
  <1>6. CASE Silent(configs, n, s) /\ MergeAll(EmptyConfig, configs).set[s] = EmptyConfig.set[s]
    BY <1>1, <1>2, <1>3, <1>4, <1>6 DEF Silent, names
  <1>7. ASSUME NEW j \in 1 .. n, LastTo(configs, n, j, s),
               MergeAll(EmptyConfig, configs).set[s] = configs[j].set[s]
        PROVE  /\ Says(At(<<i, j>>), s) # Unset
               /\ FromPath(seen, Path[i]).set[s] = Says(At(<<i, j>>), s)
               /\ \A k \in DOMAIN names : k > j => Says(At(<<i, k>>), s) = Unset
    BY <1>1, <1>2, <1>3, <1>7 DEF LastTo
  <1> QED
    BY <1>1, <1>5, <1>6, <1>7 DEF names

\* What all files add up to is said by the last of all that speaks.
LEMMA MergedSays ==
  ASSUME NEW s \in Setting \ {"statusDir"}
  PROVE  \/ Speakers(s) = {} /\ Merged(seen).set[s] = Unset
         \/ \E p \in Speakers(s) : /\ \A q \in Speakers(s) : q = p \/ Before(q, p)
                                   /\ Merged(seen).set[s] = Says(At(p), s)
  <1> DEFINE n == Len(Path)
             configs == [i \in DOMAIN Path |-> FromPath(seen, Path[i])]
             Files(i) == DOMAIN FilesOf[Path[i]]
  <1>1. n \in Nat /\ DOMAIN Path = 1 .. n /\ DOMAIN configs = 1 .. n
    BY ConstantsAssumption
  <1>2. s \in Setting /\ DefaultConfig.set[s] = Unset
    BY DEF DefaultConfig, EmptyConfig
  <1>3. Merged(seen) = MergeAll(DefaultConfig, configs)
    BY DEF Merged
  <1>4. \A i \in 1 .. n : configs[i] = FromPath(seen, Path[i])
    BY <1>1
  <1>5. \A p \in Speakers(s) : \E i \in 1 .. n : \E j \in Files(i) :
          p = <<i, j>> /\ Says(At(<<i, j>>), s) # Unset
    BY <1>1 DEF Speakers, Place
  <1>6. \A i \in 1 .. n : \A j \in Files(i) :
          Says(At(<<i, j>>), s) # Unset => <<i, j>> \in Speakers(s)
    BY <1>1 DEF Speakers, Place
  <1>7. \A i \in 1 .. n : \A j \in Files(i) : i \in Nat /\ j \in Nat
    BY <1>1, ConstantsAssumption
  <1>8. \A i \in 1 .. n : configs[i].set[s] = Unset =>
          \A j \in Files(i) : Says(At(<<i, j>>), s) = Unset
    BY <1>1, <1>2, <1>4, PathSetting
  <1> HIDE DEF n, configs
  <1>9. \/ Silent(configs, n, s) /\ MergeAll(DefaultConfig, configs).set[s] = DefaultConfig.set[s]
        \/ \E i \in 1 .. n : /\ LastTo(configs, n, i, s)
                             /\ MergeAll(DefaultConfig, configs).set[s] = configs[i].set[s]
    BY <1>1, <1>2, LastDecides
  <1>10. CASE Silent(configs, n, s) /\ MergeAll(DefaultConfig, configs).set[s] = DefaultConfig.set[s]
    <2>1. Speakers(s) = {}
      BY <1>5, <1>8, <1>10 DEF Silent
    <2> QED
      BY <1>2, <1>3, <1>10, <2>1
  <1>11. ASSUME NEW i \in 1 .. n, LastTo(configs, n, i, s),
                MergeAll(DefaultConfig, configs).set[s] = configs[i].set[s]
         PROVE  \E p \in Speakers(s) : /\ \A q \in Speakers(s) : q = p \/ Before(q, p)
                                       /\ Merged(seen).set[s] = Says(At(p), s)
    <2>1. PICK j \in Files(i) :
            /\ Says(At(<<i, j>>), s) # Unset /\ configs[i].set[s] = Says(At(<<i, j>>), s)
            /\ \A k \in Files(i) : k > j => Says(At(<<i, k>>), s) = Unset
      BY <1>1, <1>2, <1>4, <1>11, PathSetting DEF LastTo
    <2>2. <<i, j>> \in Speakers(s)
      BY <1>6, <2>1
    <2>3. ASSUME NEW q \in Speakers(s) PROVE q = <<i, j>> \/ Before(q, <<i, j>>)
      <3>1. PICK h \in 1 .. n : \E k \in Files(h) : q = <<h, k>> /\ Says(At(<<h, k>>), s) # Unset
        BY <1>5
      <3>2. PICK k \in Files(h) : q = <<h, k>> /\ Says(At(<<h, k>>), s) # Unset
        BY <3>1
      <3>3. ~(h > i)
        BY <1>8, <1>11, <3>2 DEF LastTo
      <3>4. h = i => ~(k > j)
        BY <2>1, <3>2
      <3>5. h \in Nat /\ k \in Nat /\ i \in Nat /\ j \in Nat
        BY <1>7
      <3> QED
        BY <3>2, <3>3, <3>4, <3>5 DEF Before
    <2>4. Merged(seen).set[s] = Says(At(<<i, j>>), s)
      BY <1>3, <1>11, <2>1
    <2> QED
      BY <2>2, <2>3, <2>4
  <1> QED
    BY <1>9, <1>10, <1>11

LEMMA SettingsLoaded ==
  ASSUME CInv, process = "running", NEW s \in Setting \ {"statusDir"}
  PROVE  SettingDecided(s)
  <1>1. cfg.set[s] = IF flags.set[s] # Unset THEN flags.set[s]
                     ELSE IF Merged(seen).set[s] # Unset THEN Merged(seen).set[s] ELSE Default[s]
    BY LoadedSetting DEF CInv
  <1>2. \A p \in Speakers(s) : Says(At(p), s) # Unset
    BY DEF Speakers
  <1> QED
    BY <1>1, <1>2, MergedSays DEF SettingDecided

LEMMA FileLists ==
  ASSUME NEW content \in Content \cup {Missing}, content # Missing => Valid(content)
  PROVE  Lists(FromFile(content), PrefixesOf(content), ExcludesOf(content))
  <1>1. CASE content = Missing
    BY <1>1 DEF FromFile, EmptyConfig, PrefixesOf, ExcludesOf, Lists
  <1>2. CASE content # Missing
    <2>1. content.prefixes \in Seq(Stanza) /\ content.excludes \in Seq(Exclude) /\ Valid(content)
      BY <1>2, ConstantsAssumption
    <2>2. content.prefixes \in Seq(ValidStanza)
      BY <2>1 DEF Valid, ValidStanza
    <2>3. /\ FromFile(content).prefixes
               = [i \in DOMAIN content.prefixes |-> MapToPrefixConfig(content.prefixes[i])]
          /\ FromFile(content).excludes = [i \in DOMAIN content.excludes |-> content.excludes[i].source]
      BY <1>2 DEF FromFile, Parse, ParseLists
    <2> QED
      BY <1>2, <2>1, <2>2, <2>3 DEF PrefixesOf, ExcludesOf, Lists
  <1> QED
    BY <1>1, <1>2

LEMMA PathLists ==
  ASSUME CInv, process = "running", NEW i \in DOMAIN Path
  PROVE  Lists(FromPath(seen, Path[i]), PathPrefixes(i), PathExcludes(i))
  <1> DEFINE names == FilesOf[Path[i]]
             n == Len(names)
             configs == [j \in DOMAIN names |-> FromFile(seen[names[j]])]
             p == [j \in DOMAIN names |-> PrefixesOf(At(<<i, j>>))]
             e == [j \in DOMAIN names |-> ExcludesOf(At(<<i, j>>))]
  <1>1. /\ n \in Nat /\ DOMAIN names = 1 .. n /\ DOMAIN configs = 1 .. n
        /\ DOMAIN p = 1 .. n /\ DOMAIN e = 1 .. n
    BY ConstantsAssumption
  <1>2. ASSUME NEW j \in 1 .. n PROVE Lists(configs[j], p[j], e[j])
    <2>1. names[j] \in File /\ names[j] \in ToSet(names)
      BY <1>1 DEF File, ToSet
    <2>2. seen[names[j]] \in Content \cup {Missing}
      BY <2>1 DEF CInv
    <2>3. seen[names[j]] # Missing => Valid(seen[names[j]])
      BY <2>1 DEF CInv, Readable
    <2>4. /\ configs[j] = FromFile(seen[names[j]]) /\ p[j] = PrefixesOf(seen[names[j]])
          /\ e[j] = ExcludesOf(seen[names[j]])
      BY <1>1 DEF At
    <2> HIDE DEF names, configs, p, e
    <2> QED
      BY <2>2, <2>3, <2>4, FileLists
  <1>3. /\ FromPath(seen, Path[i]) = MergeAll(EmptyConfig, configs)
        /\ PathPrefixes(i) = FlattenSeq(p) /\ PathExcludes(i) = FlattenSeq(e)
    BY DEF FromPath, PathPrefixes, PathExcludes
  <1>4. Lists(EmptyConfig, <<>>, <<>>)
    BY DEF Lists, EmptyConfig
  <1> HIDE DEF names, n, configs, p, e
  <1>5. \A j \in 1 .. n : p[j] \in Seq(ValidStanza) /\ e[j] \in Seq(Exclude)
    BY <1>2 DEF Lists
  <1>6. p \in Seq(Seq(ValidStanza)) /\ e \in Seq(Seq(Exclude))
    BY <1>1, <1>5 DEF p, e
  <1> QED
    BY <1>1, <1>2, <1>3, <1>4, <1>6, ListsAll

\* All prefixes and excludes that are written reach the runner.
LEMMA ListsLoaded ==
  ASSUME CInv, process = "running"
  PROVE  Lists(Merge(Merged(seen), ParseFlags(flags)), AllPrefixes, AllExcludes)
  <1> DEFINE n == Len(Path)
             configs == [i \in DOMAIN Path |-> FromPath(seen, Path[i])]
             p == [i \in DOMAIN Path |-> PathPrefixes(i)]
             e == [i \in DOMAIN Path |-> PathExcludes(i)]
  <1>1. /\ n \in Nat /\ DOMAIN Path = 1 .. n /\ DOMAIN configs = 1 .. n
        /\ DOMAIN p = 1 .. n /\ DOMAIN e = 1 .. n
    BY ConstantsAssumption
  <1>2. \A i \in 1 .. n : Lists(configs[i], p[i], e[i])
    BY <1>1, PathLists
  <1>3. /\ Merged(seen) = MergeAll(DefaultConfig, configs)
        /\ AllPrefixes = FlattenSeq(p) \o flags.prefixes
        /\ AllExcludes = FlattenSeq(e) \o flags.excludes
    BY DEF Merged, AllPrefixes, AllExcludes
  <1>4. Lists(DefaultConfig, <<>>, <<>>)
    BY DEF Lists, DefaultConfig, EmptyConfig
  <1>5. p \in Seq(Seq(ValidStanza)) /\ e \in Seq(Seq(Exclude))
    <2>1. \A i \in 1 .. n : p[i] \in Seq(ValidStanza) /\ e[i] \in Seq(Exclude)
      BY <1>2 DEF Lists
    <2> QED
      BY <1>1, <2>1
  <1> HIDE DEF n, configs, p, e
  <1>6. Lists(Merged(seen), FlattenSeq(p), FlattenSeq(e))
    BY <1>1, <1>2, <1>3, <1>4, <1>5, ListsAll
  <1>7. Lists(ParseFlags(flags), flags.prefixes, flags.excludes)
    <2>1. /\ flags.prefixes \in Seq(Stanza) /\ flags.excludes \in Seq(Exclude) /\ Valid(flags)
      BY ConstantsAssumption DEF CInv
    <2>2. flags.prefixes \in Seq(ValidStanza)
      BY <2>1 DEF Valid, ValidStanza
    <2>3. /\ ParseFlags(flags).prefixes
               = [i \in DOMAIN flags.prefixes |-> MapToPrefixConfig(flags.prefixes[i])]
          /\ ParseFlags(flags).excludes = [i \in DOMAIN flags.excludes |-> flags.excludes[i].source]
      BY DEF ParseFlags, ParseLists
    <2> QED
      BY <2>1, <2>2, <2>3 DEF Lists
  <1> QED
    BY <1>3, <1>6, <1>7, ListsMerge

\* Finalize goes over the elements, twice.
LEMMA FinalLists ==
  ASSUME NEW c, NEW p, NEW e, Lists(c, p, e)
  PROVE  /\ RunnerConfig(Finalize(c)).prefixes
              = [i \in DOMAIN p |-> FinalizePrefix(FinalizePrefix(MapToPrefixConfig(p[i])))]
         /\ RunnerConfig(Finalize(c)).excludes
              = [i \in DOMAIN e |-> FinalizeExclude(FinalizeExclude(e[i].source))]
  <1> DEFINE once == Finalize(c)
             P == [i \in DOMAIN p |-> FinalizePrefix(MapToPrefixConfig(p[i]))]
             E == [i \in DOMAIN e |-> FinalizeExclude(e[i].source)]
  <1>1. p \in Seq(ValidStanza) /\ e \in Seq(Exclude)
    BY DEF Lists
  <1>2. once.prefixes = P /\ once.excludes = E
    BY DEF Lists, Finalize, FinalizeLists
  <1>3. /\ P \in Seq({P[i] : i \in DOMAIN p}) /\ E \in Seq({E[i] : i \in DOMAIN e})
        /\ DOMAIN P = DOMAIN p /\ DOMAIN E = DOMAIN e
    BY <1>1
  <1>4. <<>> \o P = P /\ <<>> \o E = E
    BY <1>3
  <1>5. DefaultConfig.prefixes = <<>> /\ DefaultConfig.excludes = <<>>
    BY DEF DefaultConfig, EmptyConfig
  <1> HIDE DEF once
  <1>6. Merge(DefaultConfig, once).prefixes = P /\ Merge(DefaultConfig, once).excludes = E
    BY <1>2, <1>4, <1>5 DEF Merge
  <1>7. /\ RunnerConfig(once).prefixes = [i \in DOMAIN P |-> FinalizePrefix(P[i])]
        /\ RunnerConfig(once).excludes = [i \in DOMAIN E |-> FinalizeExclude(E[i])]
    BY <1>6 DEF RunnerConfig, Finalize, FinalizeLists
  <1> QED
    BY <1>3, <1>7 DEF once

\* What becomes of one prefix.
LEMMA PrefixLoaded ==
  ASSUME NEW stanza \in ValidStanza
  PROVE  LET prefix == FinalizePrefix(FinalizePrefix(MapToPrefixConfig(stanza)))
         IN  /\ stanza.source # Unset =>
                  /\ prefix.source = stanza.source
                  /\ prefix.datacenter \in {stanza.datacenter, stanza.inline} \ {Unset}
                  /\ prefix.destination =
                       IF stanza.destination \in {Unset, ""} THEN stanza.source ELSE stanza.destination
             /\ prefix.dependency # Unset =>
                  "" \notin {prefix.source, prefix.datacenter, prefix.destination}
  <1> DEFINE parsed == MapToPrefixConfig(stanza)
             prefix == FinalizePrefix(FinalizePrefix(parsed))
  <1>1. stanza \in Stanza /\ ValidPrefix(stanza) /\ Unset # ""
    BY UnsetAssumption DEF ValidStanza
  <1>2. /\ prefix.source = IF parsed.source = Unset THEN "" ELSE parsed.source
        /\ prefix.datacenter = IF parsed.datacenter = Unset THEN "" ELSE parsed.datacenter
        /\ prefix.destination = IF parsed.destination = Unset THEN "" ELSE parsed.destination
        /\ prefix.dependency = parsed.dependency
    <2>1. \A c : /\ FinalizePrefix(c).source = IF c.source = Unset THEN "" ELSE c.source
                 /\ FinalizePrefix(c).datacenter = IF c.datacenter = Unset THEN "" ELSE c.datacenter
                 /\ FinalizePrefix(c).destination = IF c.destination = Unset THEN "" ELSE c.destination
                 /\ FinalizePrefix(c).dependency = c.dependency
      BY DEF FinalizePrefix
    <2> HIDE DEF parsed
    <2> QED
      BY <1>1, <2>1
  <1>3. CASE stanza.source = Unset
    <2>1. /\ parsed.source = Unset /\ parsed.datacenter = stanza.datacenter
          /\ parsed.dependency = Unset
      BY <1>3 DEF MapToPrefixConfig
    <2> HIDE DEF parsed, prefix
    <2> QED
      BY <1>2, <1>3, <2>1 DEF prefix, parsed
  <1>4. CASE stanza.source # Unset
    <2> DEFINE dc == Datacenter(stanza)
    <2>1. /\ stanza.source # "" /\ dc # "" /\ dc # Unset
          /\ dc \in {stanza.datacenter, stanza.inline}
      BY <1>1, <1>4 DEF ValidPrefix, Datacenter
    <2>2. parsed = ParsePrefixConfig(stanza.source, dc, stanza.destination)
      BY <1>4 DEF MapToPrefixConfig
    <2> HIDE DEF dc, parsed
    <2>3. /\ parsed.source = stanza.source /\ parsed.datacenter = dc
          /\ parsed.destination = IF stanza.destination \in {Unset, ""} THEN stanza.source
                                  ELSE stanza.destination
      BY <2>2 DEF ParsePrefixConfig
    <2> HIDE DEF prefix
    <2>4. /\ prefix.source = stanza.source /\ prefix.datacenter = dc
          /\ prefix.destination = IF stanza.destination \in {Unset, ""} THEN stanza.source
                                  ELSE stanza.destination
          /\ prefix.destination # "" /\ prefix.destination # Unset
      BY <1>1, <1>2, <1>4, <2>1, <2>3
    <2> QED
      BY <1>4, <2>1, <2>4 DEF prefix, parsed
  <1> QED
    BY <1>3, <1>4

\* The lists of a runner, element by element.
LEMMA ElementsLoaded ==
  ASSUME CInv, process = "running"
  PROVE  /\ AllPrefixes \in Seq(ValidStanza) /\ AllExcludes \in Seq(Exclude)
         /\ cfg.prefixes = [i \in DOMAIN AllPrefixes |->
                              FinalizePrefix(FinalizePrefix(MapToPrefixConfig(AllPrefixes[i])))]
         /\ cfg.excludes = [i \in DOMAIN AllExcludes |->
                              FinalizeExclude(FinalizeExclude(AllExcludes[i].source))]
  <1> DEFINE all == Merge(Merged(seen), ParseFlags(flags))
  <1>1. Lists(all, AllPrefixes, AllExcludes)
    BY ListsLoaded
  <1>2. cfg = RunnerConfig(Finalize(all))
    BY DEF CInv, LoadedFrom, LoadConfigs, Merged
  <1> HIDE DEF all
  <1> QED
    <2>1. AllPrefixes \in Seq(ValidStanza) /\ AllExcludes \in Seq(Exclude)
      BY <1>1 DEF Lists
    <2>2. /\ RunnerConfig(Finalize(all)).prefixes
               = [i \in DOMAIN AllPrefixes |->
                    FinalizePrefix(FinalizePrefix(MapToPrefixConfig(AllPrefixes[i])))]
          /\ RunnerConfig(Finalize(all)).excludes
               = [i \in DOMAIN AllExcludes |->
                    FinalizeExclude(FinalizeExclude(AllExcludes[i].source))]
      BY <1>1, FinalLists
    <2> QED
      BY <1>2, <2>1, <2>2

----------------------------------------------------------------------------
(* The process.                                                            *)

\* A prefix from the command line has nothing left to finalize.
LEMMA PrefixFinal ==
  ASSUME NEW given \in Flags, Valid(given), NEW i \in DOMAIN given.prefixes
  PROVE  FinalizePrefix(MapToPrefixConfig(given.prefixes[i])) = MapToPrefixConfig(given.prefixes[i])
  <1> DEFINE stanza == given.prefixes[i]
             prefix == MapToPrefixConfig(stanza)
  <1>1. /\ stanza \in Stanza /\ stanza.source # Unset /\ stanza.datacenter = Unset
        /\ Unset \notin STRING
    BY ConstantsAssumption
  <1>2. ValidPrefix(stanza)
    BY DEF Valid
  <1>3. stanza.source \in STRING /\ stanza.inline \in STRING /\ stanza.destination \in Text
    BY <1>1, <1>2 DEF ValidPrefix, Stanza, Text
  <1>4. prefix = ParsePrefixConfig(stanza.source, stanza.inline, stanza.destination)
    BY <1>1, <1>3 DEF MapToPrefixConfig, Datacenter
  <1>5. PICK to \in STRING : prefix = [source |-> stanza.source, datacenter |-> stanza.inline,
                                       destination |-> to,
                                       dependency |-> <<stanza.source, stanza.inline>>]
    BY <1>1, <1>3, <1>4 DEF ParsePrefixConfig, Text
  <1> HIDE DEF prefix, stanza
  <1>6. FinalizePrefix(prefix) = prefix
    BY <1>1, <1>3, <1>5 DEF FinalizePrefix
  <1> QED
    BY <1>6 DEF prefix, stanza

LEMMA FlagsFinal ==
  ASSUME NEW given \in Flags, Valid(given)
  PROVE  FinalizeLists(ParseFlags(given)) = ParseFlags(given)
  <1> DEFINE lists == ParseLists(given)
  <1>1. [i \in DOMAIN lists.prefixes |-> FinalizePrefix(lists.prefixes[i])] = lists.prefixes
    BY PrefixFinal DEF ParseLists
  <1>2. \A i \in DOMAIN given.excludes : given.excludes[i].source # Unset
    BY ConstantsAssumption
  <1>3. [i \in DOMAIN lists.excludes |-> FinalizeExclude(lists.excludes[i])] = lists.excludes
    BY <1>2 DEF ParseLists, FinalizeExclude
  <1>4. ASSUME NEW set, NEW prefixes, NEW excludes,
               [i \in DOMAIN prefixes |-> FinalizePrefix(prefixes[i])] = prefixes,
               [i \in DOMAIN excludes |-> FinalizeExclude(excludes[i])] = excludes
        PROVE  LET c == [set |-> set, prefixes |-> prefixes, excludes |-> excludes]
               IN  FinalizeLists(c) = c
    BY <1>4 DEF FinalizeLists
  <1> HIDE DEF lists
  <1>5. \E set : ParseFlags(given) = [set |-> set, prefixes |-> lists.prefixes,
                                     excludes |-> lists.excludes]
    BY Zenon DEF ParseFlags, lists
  <1> QED
    BY <1>1, <1>3, <1>4, <1>5

\* A runner is always made of the files and of what the flags were parsed to.
LEMMA Loads ==
  ASSUME NEW override, NewRunner(override), override = ParseFlags(flags),
         flags \in Flags, Valid(flags), process' = "running"
  PROVE  /\ cliConfig' = ParseFlags(flags) /\ cfg' = LoadedFrom(files) /\ seen' = files
         /\ Readable(files)
  <1>1. ~Ends("runnerError")
    BY DEF Ends
  <1> QED
    BY <1>1, FlagsFinal DEF NewRunner, LoadedFrom

\* One step: either nothing is loaded, or a runner starts with the files as
\* they are.
LEMMA LoadStep ==
  ASSUME CInv, [Next]_vars
  PROVE  /\ UNCHANGED flags /\ files' \in [File -> Content \cup {Missing}]
         /\ process' = "running" =>
              /\ Valid(flags)
              /\ \/ process = "running" /\ UNCHANGED <<cliConfig, cfg, seen>>
                 \/ /\ cliConfig' = ParseFlags(flags) /\ cfg' = LoadedFrom(files) /\ seen' = files
                    /\ Readable(files)
  <1> USE DEF CInv
  <1>1. CASE \E file \in File, content \in Content \cup {Missing} : Edit(file, content)
    BY <1>1 DEF Edit
  <1>2. CASE FlagsFail
    BY <1>2 DEF FlagsFail, Ends
  <1>3. CASE Start
    <2>1. UNCHANGED <<files, flags>> /\ Valid(flags)
      BY <1>3 DEF Start, Accepted
    <2>2. process' = "running" => NewRunner(ParseFlags(flags))
      BY <1>3 DEF Start, LoadFails, Ends
    <2> QED
      BY <2>1, <2>2, Loads
  <1>4. CASE Reload
    <2>1. UNCHANGED <<files, flags>> /\ Valid(flags)
      BY <1>4 DEF Reload
    <2>2. cliConfig = ParseFlags(flags)
      BY <1>4 DEF Reload
    <2>3. process' = "running" => NewRunner(cliConfig) \/ Ends("configError")
      BY <1>4 DEF Reload, LoadFails
    <2>4. process' = "running" => NewRunner(ParseFlags(flags))
      BY <2>2, <2>3 DEF Ends
    <2> QED
      BY <2>1, <2>4, Loads
  <1>5. CASE UNCHANGED vars
    BY <1>5 DEF vars
  <1> QED
    BY <1>1, <1>2, <1>3, <1>4, <1>5 DEF Next

LEMMA CStep == CInv /\ [Next]_vars => CInv'
  <1> SUFFICES ASSUME CInv, [Next]_vars PROVE CInv'
    OBVIOUS
  <1>1. flags' \in Flags /\ files' \in [File -> Content \cup {Missing}]
    BY LoadStep DEF CInv
  <1>2. ASSUME process' = "running"
        PROVE  /\ Valid(flags) /\ cliConfig' = ParseFlags(flags)
               /\ cfg' = RunnerConfig(LoadConfigs(seen', ParseFlags(flags)))
               /\ seen' \in [File -> Content \cup {Missing}] /\ Readable(seen')
    <2>1. CASE process = "running" /\ UNCHANGED <<cliConfig, cfg, seen>>
      BY <1>2, <2>1, LoadStep DEF CInv, LoadedFrom
    <2>2. CASE /\ cliConfig' = ParseFlags(flags) /\ cfg' = LoadedFrom(files) /\ seen' = files
               /\ Readable(files)
      BY <1>2, <2>2, LoadStep DEF CInv, LoadedFrom
    <2> QED
      BY <1>2, <2>1, <2>2, LoadStep
  <1> QED
    BY <1>1, <1>2, LoadStep DEF CInv, LoadedFrom, Readable, Valid

LEMMA CInit == Init => CInv
  BY DEF Init, CInv

LEMMA CAlways == Spec => []CInv
  BY CInit, CStep, PTL DEF Spec

\* For any files and flags and after any edits and reloads, a setting has the
\* value with the highest precedence, and every prefix and exclude is there.
THEOREM PrecedenceHolds == Spec => []Precedence
  <1>1. CInv => Precedence
    <2> SUFFICES ASSUME CInv, process = "running" PROVE Precedence
      BY DEF Precedence
    <2>1. \A s \in Setting \ {"statusDir"} : SettingDecided(s)
      BY SettingsLoaded
    <2>2. /\ AllPrefixes \in Seq(ValidStanza) /\ AllExcludes \in Seq(Exclude)
          /\ cfg.prefixes = [i \in DOMAIN AllPrefixes |->
                               FinalizePrefix(FinalizePrefix(MapToPrefixConfig(AllPrefixes[i])))]
          /\ cfg.excludes = [i \in DOMAIN AllExcludes |->
                               FinalizeExclude(FinalizeExclude(AllExcludes[i].source))]
      BY ElementsLoaded
    <2>3. Len(cfg.prefixes) = Len(AllPrefixes) /\ Len(cfg.excludes) = Len(AllExcludes)
      BY <2>2
    <2>4. ASSUME NEW i \in DOMAIN AllPrefixes
          PROVE  LET entry == AllPrefixes[i]
                 IN  entry.source # Unset =>
                       /\ cfg.prefixes[i].source = entry.source
                       /\ cfg.prefixes[i].datacenter \in {entry.datacenter, entry.inline} \ {Unset}
                       /\ cfg.prefixes[i].destination =
                            IF entry.destination \in {Unset, ""} THEN entry.source
                            ELSE entry.destination
      <3>1. /\ AllPrefixes[i] \in ValidStanza
            /\ cfg.prefixes[i] = FinalizePrefix(FinalizePrefix(MapToPrefixConfig(AllPrefixes[i])))
        BY <2>2
      <3> QED
        BY <3>1, PrefixLoaded
    <2>5. ASSUME NEW i \in DOMAIN AllExcludes, AllExcludes[i].source # Unset
          PROVE  cfg.excludes[i] = AllExcludes[i].source
      BY <2>2, <2>5 DEF FinalizeExclude
    <2> QED
      BY <2>1, <2>3, <2>4, <2>5 DEF Precedence
  <1> QED
    BY <1>1, CAlways, PTL

\* Whatever the files and the flags contain, no prefix that is watched has an
\* empty source, datacenter or destination.
THEOREM DestinationsNeverEmpty == Spec => []DestinationsGiven
  <1>1. CInv => DestinationsGiven
    <2> SUFFICES ASSUME CInv, process = "running", NEW i \in DOMAIN cfg.prefixes,
                        cfg.prefixes[i].dependency # Unset
                 PROVE  "" \notin {cfg.prefixes[i].source, cfg.prefixes[i].datacenter,
                                  cfg.prefixes[i].destination}
      BY DEF DestinationsGiven
    <2>1. /\ AllPrefixes \in Seq(ValidStanza) /\ i \in DOMAIN AllPrefixes
          /\ cfg.prefixes[i] = FinalizePrefix(FinalizePrefix(MapToPrefixConfig(AllPrefixes[i])))
      BY ElementsLoaded
    <2>2. AllPrefixes[i] \in ValidStanza
      BY <2>1
    <2> QED
      BY <2>1, <2>2, PrefixLoaded
  <1> QED
    BY <1>1, CAlways, PTL

\* For any files, flags and edits, a reload that finds the files as they were
\* gives the new runner the same configuration.
THEOREM ReloadChangesNothing == Spec => ReloadStable
  <1>1. CInv /\ [Next]_vars =>
          [process = "running" /\ process' = "running" /\ files = seen => cfg' = cfg]_vars
    <2> SUFFICES ASSUME CInv, [Next]_vars, process = "running", process' = "running", files = seen
                 PROVE  cfg' = cfg
      OBVIOUS
    <2> QED
      BY LoadStep DEF CInv
  <1> QED
    BY <1>1, CAlways, PTL DEF Spec, ReloadStable
============================================================================
