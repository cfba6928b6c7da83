---------------------------- MODULE Guards_proofs ----------------------------
(***************************************************************************)
(* Proofs about the surfaces that stand alone: what a repair of a control  *)
(* file takes out, what lets a repair write, what official evidence may    *)
(* stand for, what a support receipt may claim, what a demo may write.     *)
(***************************************************************************)
EXTENDS GuardsInvariants, FiniteSetTheorems, WellFoundedInduction, TLAPS

LEMMA LeastExists ==
  ASSUME NEW S \in SUBSET Nat, S # {}
  PROVE  \E m \in S : \A k \in S : m <= k
<1>1. PICK m \in S : \A k \in S : ~ (<< k, m >> \in OpToRel(<, Nat))
  BY NatLessThanWellFounded, WFMin
<1>2. ASSUME NEW k \in S PROVE m <= k
  <2>1. ~ (<< k, m >> \in OpToRel(<, Nat))
    BY <1>1
  <2>2. k \in Nat /\ m \in Nat
    OBVIOUS
  <2>3. ~ (k < m)
    BY <2>1, <2>2 DEF OpToRel
  <2> QED
    BY <2>2, <2>3
<1> QED
  BY <1>2

-----------------------------------------------------------------------------
(***************************************************************************)
(* ConfigRepair: how an edit changes what a document says, what the faults *)
(* and the plans say of the files, and what becomes of the capsules.       *)
(***************************************************************************)

LEMMA PathFront ==
  ASSUME NEW p \in KeyPaths
  PROVE  /\ Config!Front(p) \in Seq(ConfigWords) /\ Len(Config!Front(p)) = Len(p) - 1
         /\ \A i \in 1..(Len(p) - 1) : Config!Front(p)[i] = p[i]
         /\ Len(p) \in Nat \ {0}
<1>1. p \in Seq(ConfigWords) /\ Len(p) \in Nat /\ Len(p) # 0
  BY DEF KeyPaths
<1>2. Len(p) - 1 \in Nat /\ Len(p) - 1 <= Len(p)
  BY <1>1
<1>3. \A i \in 1..(Len(p) - 1) : p[i] \in ConfigWords
  BY <1>1
<1>4. Len(SubSeq(p, 1, Len(p) - 1)) = Len(p) - 1
  <2>1. ASSUME NEW n \in 0..Len(p) PROVE Len(SubSeq(p, 1, n)) = n
    BY <1>1
  <2> DEFINE m == Len(p) - 1
  <2>2. m \in 0..Len(p)
    BY <1>2
  <2> HIDE DEF m
  <2>3. Len(SubSeq(p, 1, m)) = m
    BY <2>1, <2>2
  <2> QED
    BY <2>3 DEF m
<1>5. SubSeq(p, 1, Len(p) - 1) \in Seq(ConfigWords) /\ \A i \in 1..(Len(p) - 1) : SubSeq(p, 1, Len(p) - 1)[i] = p[i]
  BY <1>1, <1>2, <1>3
<1> QED
  BY <1>1, <1>4, <1>5 DEF Config!Front

LEMMA FrontAppend ==
  ASSUME NEW p \in Seq(ConfigWords), NEW x \in ConfigWords
  PROVE  Append(p, x) \in KeyPaths /\ Config!Front(Append(p, x)) = p
<1>1. Append(p, x) \in Seq(ConfigWords) /\ Len(Append(p, x)) = Len(p) + 1 /\ Len(p) \in Nat
  OBVIOUS
<1>2. \A i \in 1..Len(p) : Append(p, x)[i] = p[i]
  OBVIOUS
<1>3. SubSeq(Append(p, x), 1, Len(p)) = p
  BY <1>1, <1>2
<1>4. Append(p, x) # << >>
  BY <1>1
<1> QED
  BY <1>1, <1>3, <1>4 DEF Config!Front, KeyPaths

LEMMA UptoPaths ==
  ASSUME NEW p \in Seq(ConfigWords)
  PROVE  /\ Config!Range(Config!Upto(p)) \subseteq KeyPaths
         /\ \A q \in Config!Range(Config!Upto(p)) : Len(q) > 1 => Config!Front(q) \in Config!Range(Config!Upto(p))
         /\ p # << >> => p \in Config!Range(Config!Upto(p))
         /\ Config!Upto(p) \in Seq(KeyPaths)
<1>1. ASSUME NEW n \in 1..Len(p) PROVE SubSeq(p, 1, n) \in KeyPaths /\ Len(SubSeq(p, 1, n)) = n
  BY DEF KeyPaths
<1>2. ASSUME NEW n \in 1..Len(p), n > 1 PROVE Config!Front(SubSeq(p, 1, n)) = SubSeq(p, 1, n - 1)
  BY <1>1, <1>2 DEF Config!Front, KeyPaths
<1>3. SubSeq(p, 1, Len(p)) = p
  OBVIOUS
<1>4. Config!Range(Config!Upto(p)) = {SubSeq(p, 1, n) : n \in 1..Len(p)}
  BY DEF Config!Upto, Config!Range
<1>5. ASSUME NEW q \in Config!Range(Config!Upto(p)), Len(q) > 1 PROVE Config!Front(q) \in Config!Range(Config!Upto(p))
  <2>1. PICK n \in 1..Len(p) : q = SubSeq(p, 1, n)
    BY <1>4
  <2>2. n > 1 /\ n - 1 \in 1..Len(p)
    BY <1>1, <1>5, <2>1
  <2> QED
    BY <1>2, <1>4, <2>1, <2>2
<1>6. Config!Upto(p) \in Seq(KeyPaths)
  BY <1>1 DEF Config!Upto
<1>7. p # << >> => Len(p) \in 1..Len(p)
  OBVIOUS
<1> QED
  BY <1>1, <1>3, <1>4, <1>5, <1>6, <1>7

LEMMA PathUnder ==
  ASSUME NEW at \in Seq(ConfigWords), NEW p \in KeyPaths
  PROVE  at \o p \in KeyPaths /\ Len(at \o p) = Len(at) + Len(p)
BY DEF KeyPaths

LEMMA EndsIn ==
  ASSUME NEW at \in Seq(ConfigWords), NEW p \in KeyPaths
  PROVE  Config!IsSuffix(p, at \o p)
<1>1. Len(at \o p) = Len(at) + Len(p) /\ Len(at) \in Nat /\ Len(p) \in Nat
  BY DEF KeyPaths
<1>2. ASSUME NEW i \in 1..Len(p) PROVE Config!Reverse(at \o p)[i] = Config!Reverse(p)[i]
  BY <1>1 DEF Config!Reverse, KeyPaths
<1>3. Len(Config!Reverse(p)) = Len(p) /\ Len(Config!Reverse(at \o p)) = Len(at) + Len(p)
  BY <1>1 DEF Config!Reverse, KeyPaths
<1>4. SubSeq(Config!Reverse(p), 1, Len(p)) = SubSeq(Config!Reverse(at \o p), 1, Len(p))
  BY <1>1, <1>2, <1>3
<1> QED
  BY <1>1, <1>3, <1>4 DEF Config!IsSuffix, Config!IsPrefix

LEMMA SecondOfTwo ==
  ASSUME NEW S, NEW q \in Seq(S), Len(q) = 2
  PROVE  Tail(q) \in Seq(S) /\ Len(Tail(q)) = 1 /\ Tail(q)[1] = q[2]
<1>1. q # << >>
  OBVIOUS
<1>2. Tail(q) \in Seq(S)
  BY <1>1
<1>3. Len(Tail(q)) = 1
  BY <1>1
<1>4. Tail(q)[1] = q[2]
  BY <1>1
<1> QED
  BY <1>2, <1>3, <1>4

LEMMA FirstPart ==
  ASSUME NEW S, NEW a \in Seq(S), NEW b \in Seq(S), NEW i \in 1..Len(a)
  PROVE  (a \o b)[i] = a[i]
OBVIOUS

LEMMA SecondPart ==
  ASSUME NEW S, NEW a \in Seq(S), NEW b \in Seq(S), NEW i \in 1..Len(b)
  PROVE  (a \o b)[Len(a) + i] = b[i]
OBVIOUS

LEMMA WholeOfTwo ==
  ASSUME NEW S, NEW q \in Seq(S), Len(q) = 2, NEW t \in Seq(S), Len(t) = 1, t[1] = q[2]
  PROVE  << q[1] >> \o t = q
<1> DEFINE k == << q[1] >> \o t
<1>1. q[1] \in S
  OBVIOUS
<1>2. << q[1] >> \in Seq(S) /\ Len(<< q[1] >>) = 1 /\ << q[1] >>[1] = q[1]
  BY <1>1
<1>3. k \in Seq(S) /\ Len(k) = 2
  BY <1>2
<1>4. k[1] = q[1] /\ k[2] = q[2]
  <2> DEFINE h == << q[1] >>
  <2>1. h \in Seq(S) /\ Len(h) = 1 /\ h[1] = q[1]
    BY <1>2
  <2> HIDE DEF h
  <2>2. (h \o t)[1] = h[1]
    BY <2>1, FirstPart
  <2>3. 1 \in 1..Len(t) /\ Len(h) + 1 = 2
    BY <2>1
  <2>4. (h \o t)[Len(h) + 1] = t[1]
    BY <2>1, <2>3, SecondPart
  <2>5. (h \o t)[2] = t[1]
    BY <2>3, <2>4
  <2> QED
    BY <2>1, <2>2, <2>5 DEF h
<1> HIDE DEF k
<1>5. k = q
  BY <1>3, <1>4
<1> QED
  BY <1>5 DEF k

LEMMA WholeKey ==
  ASSUME NEW key \in KeyPaths, Len(key) = 2
  PROVE  << key[1] >> \o Tail(key) = key /\ Tail(key) \in KeyPaths
<1>1. key \in Seq(ConfigWords)
  BY DEF KeyPaths
<1> DEFINE t == Tail(key)
<1>2. t \in Seq(ConfigWords) /\ Len(t) = 1
  BY <1>1, SecondOfTwo
<1>3. t[1] = key[2]
  BY <1>1, SecondOfTwo
<1> HIDE DEF t
<1>4. << key[1] >> \o t = key
  BY <1>1, <1>2, <1>3, WholeOfTwo
<1>5. t # << >>
  BY <1>2
<1>6. t \in KeyPaths
  BY <1>2, <1>5 DEF KeyPaths
<1> QED
  BY <1>4, <1>6 DEF t

LEMMA PutFields ==
  ASSUME NEW st, SoundState(st), NEW paths, NEW values
  PROVE  LET o == Config!Put(st, paths, values)
         IN  /\ o = [ok |-> o.ok, paths |-> o.paths, value |-> o.value, at |-> o.at, keys |-> o.keys]
             /\ o.ok = st.ok /\ o.at = st.at /\ o.keys = st.keys /\ o.paths = st.paths \o paths
             /\ Kept(st.value, o.value, values)
<1> DEFINE v == [p \in (DOMAIN st.value) \cup DOMAIN values |->
                   IF p \in DOMAIN st.value THEN st.value[p] ELSE values[p]]
           o == Config!Put(st, paths, values)
<1>1. o = [[st EXCEPT !.paths = st.paths \o paths] EXCEPT !.value = v]
  BY DEF Config!Put, SoundState
<1> HIDE DEF v, o
<1>2. o = [ok |-> st.ok, paths |-> st.paths \o paths, value |-> v, at |-> st.at, keys |-> st.keys]
  BY <1>1 DEF SoundState
<1>3. /\ o = [ok |-> o.ok, paths |-> o.paths, value |-> o.value, at |-> o.at, keys |-> o.keys]
      /\ o.ok = st.ok /\ o.at = st.at /\ o.keys = st.keys /\ o.paths = st.paths \o paths /\ o.value = v
  BY <1>2
<1> QED
  <2>1. Kept(st.value, v, values)
    BY DEF v, Kept
  <2> QED
    BY <1>3, <2>1 DEF o

LEMMA PathsGrow ==
  ASSUME NEW old \in Seq(KeyPaths), NEW new \in Seq(KeyPaths)
  PROVE  old \o new \in Seq(KeyPaths) /\ Config!Range(old) \cup Config!Range(new) \subseteq Config!Range(old \o new)
<1>1. old \o new \in Seq(KeyPaths)
  OBVIOUS
<1>2. ASSUME NEW i \in DOMAIN old PROVE old[i] \in Config!Range(old \o new)
  <2>1. i \in DOMAIN (old \o new) /\ (old \o new)[i] = old[i]
    OBVIOUS
  <2> QED
    BY <2>1 DEF Config!Range
<1>3. ASSUME NEW i \in DOMAIN new PROVE new[i] \in Config!Range(old \o new)
  <2>1. Len(old) + i \in DOMAIN (old \o new) /\ (old \o new)[Len(old) + i] = new[i]
    OBVIOUS
  <2> QED
    BY <2>1 DEF Config!Range
<1> QED
  BY <1>1, <1>2, <1>3 DEF Config!Range

\* Putting what is new keeps a document sound.
LEMMA PutSound ==
  ASSUME NEW st, SoundState(st), NEW paths \in Seq(KeyPaths), NEW values,
         DOMAIN values \subseteq Config!Range(paths),
         \A p \in DOMAIN values :
           /\ values[p].type = "table" => values[p] = Config!Table
           /\ Len(p) > 1 => /\ Config!Front(p) \in (DOMAIN st.value) \cup DOMAIN values
                            /\ Config!Front(p) \in DOMAIN st.value => st.value[Config!Front(p)].type = "table"
                            /\ Config!Front(p) \in DOMAIN values => values[Config!Front(p)].type = "table"
  PROVE  SoundState(Config!Put(st, paths, values))
<1> DEFINE o == Config!Put(st, paths, values)
<1>1. /\ o = [ok |-> o.ok, paths |-> o.paths, value |-> o.value, at |-> o.at, keys |-> o.keys]
      /\ o.ok = st.ok /\ o.at = st.at /\ o.keys = st.keys /\ o.paths = st.paths \o paths
      /\ Kept(st.value, o.value, values)
  BY PutFields
<1> HIDE DEF o
<1>2. o.ok \in BOOLEAN /\ o.at \in Seq(ConfigWords) /\ o.paths \in Seq(KeyPaths) /\ DOMAIN o.value \subseteq Config!Range(o.paths)
  BY <1>1, PathsGrow DEF SoundState, Kept
<1>3. ASSUME NEW p \in DOMAIN o.value
      PROVE  /\ o.value[p].type = "table" => o.value[p] = Config!Table
             /\ Len(p) > 1 => Config!Front(p) \in DOMAIN o.value /\ o.value[Config!Front(p)].type = "table"
  <2>1. CASE p \in DOMAIN st.value
    BY <1>1, <2>1 DEF SoundState, Kept
  <2>2. CASE p \notin DOMAIN st.value
    <3>1. p \in DOMAIN values /\ o.value[p] = values[p]
      BY <1>1, <2>2 DEF Kept
    <3> QED
      BY <1>1, <3>1 DEF Kept
  <2> QED
    BY <2>1, <2>2
<1> QED
  BY <1>1, <1>2, <1>3 DEF SoundState, o

LEMMA Opened ==
  ASSUME NEW st, SoundState(st), NEW path \in Seq(ConfigWords)
  PROVE  LET o == Config!EnsureTable(st, path)
         IN  /\ SoundState(o) /\ o.at = st.at /\ o.keys = st.keys
             /\ o.ok => st.ok /\ Grown(st.value, o.value, Config!Range(Config!Upto(path)), << >>)
<1> DEFINE o == Config!EnsureTable(st, path)
           tables == [p \in Config!Range(Config!Upto(path)) |-> Config!Table]
<1>1. CASE \E p \in Config!Range(Config!Upto(path)) : Config!Has(st, p) /\ st.value[p].type # "table"
  <2>1. o = Config!Failed(st)
    BY <1>1 DEF Config!EnsureTable
  <2>2. o = [st EXCEPT !.ok = FALSE]
    BY <2>1 DEF Config!Failed
  <2> HIDE DEF o
  <2>3. SoundState(o) /\ o.at = st.at /\ o.keys = st.keys /\ ~o.ok
    BY <2>2 DEF SoundState
  <2> QED
    BY <2>3 DEF o
<1>2. CASE ~ \E p \in Config!Range(Config!Upto(path)) : Config!Has(st, p) /\ st.value[p].type # "table"
  <2>1. o = Config!Put(st, Config!Upto(path), tables)
    BY <1>2 DEF Config!EnsureTable
  <2>2. \A p \in Config!Range(Config!Upto(path)) : p \in DOMAIN st.value => st.value[p].type = "table"
    BY <1>2 DEF Config!Has
  <2>3. DOMAIN tables = Config!Range(Config!Upto(path)) /\ \A p \in Config!Range(Config!Upto(path)) : tables[p] = Config!Table
    OBVIOUS
  <2>4. Config!Table.type = "table"
    BY DEF Config!Table
  <2>5. Config!Upto(path) \in Seq(KeyPaths) /\ \A q \in Config!Range(Config!Upto(path)) : Len(q) > 1 => Config!Front(q) \in Config!Range(Config!Upto(path))
    BY UptoPaths
  <2> HIDE DEF tables, o
  <2>6. SoundState(Config!Put(st, Config!Upto(path), tables))
    BY <2>2, <2>3, <2>4, <2>5, PutSound
  <2>7. /\ o.ok = st.ok /\ o.at = st.at /\ o.keys = st.keys
        /\ Kept(st.value, o.value, tables)
    BY <2>1, PutFields
  <2>8. \A p \in DOMAIN st.value : st.value[p].type = "table" => st.value[p] = Config!Table
    BY DEF SoundState
  <2>9. Grown(st.value, o.value, Config!Range(Config!Upto(path)), << >>)
    BY <2>2, <2>3, <2>7, <2>8 DEF Grown, Kept
  <2> QED
    BY <2>1, <2>6, <2>7, <2>9 DEF o
<1> QED
  BY <1>1, <1>2

LEMMA GivenFacts ==
  ASSUME NEW path \in KeyPaths, NEW value, Config!SoundValue(value)
  PROVE  LET g == Given(path, value)
         IN  /\ DOMAIN g \subseteq KeyPaths /\ path \in DOMAIN g
             /\ g[path] = IF value.type = "table" THEN Config!Table ELSE value
             /\ \A p \in DOMAIN g : p # path => /\ value.type = "table" /\ Config!Front(p) = path
                                              /\ g[p].type # "table"
<1> DEFINE entry == [k \in DOMAIN value.entries |-> Append(path, value.entries[k].name)]
           g == Given(path, value)
<1>1. CASE value.type # "table"
  BY <1>1 DEF Given
<1>2. CASE value.type = "table"
  <2>1. DOMAIN g = {path} \cup Config!Range(entry)
    BY <1>2 DEF Given
  <2>2. ASSUME NEW p \in Config!Range(entry)
        PROVE  /\ p \in KeyPaths /\ Config!Front(p) = path
               /\ value.entries[CHOOSE k \in DOMAIN entry : entry[k] = p].value.type # "table"
    <3>1. \E k \in DOMAIN entry : entry[k] = p
      BY DEF Config!Range
    <3> DEFINE k == CHOOSE i \in DOMAIN entry : entry[i] = p
    <3>2. k \in DOMAIN entry /\ entry[k] = p
      BY <3>1
    <3>3. k \in DOMAIN value.entries /\ p = Append(path, value.entries[k].name)
      BY <3>2
    <3> HIDE DEF k
    <3>4. value.entries[k].name \in ConfigWords /\ value.entries[k].value.type # "table"
      BY <1>2, <3>3 DEF Config!SoundValue, ConfigWords, Config!Range
    <3>5. path \in Seq(ConfigWords)
      BY DEF KeyPaths
    <3>6. p \in KeyPaths /\ Config!Front(p) = path
      BY <3>3, <3>4, <3>5, FrontAppend
    <3> QED
      BY <3>4, <3>6 DEF k
  <2>3. g[path] = Config!Table
    BY <1>2, <2>1 DEF Given
  <2>4. ASSUME NEW p \in Config!Range(entry), p # path
        PROVE  g[p] = value.entries[CHOOSE k \in DOMAIN entry : entry[k] = p].value
    BY <1>2, <2>1, <2>4 DEF Given
  <2> HIDE DEF g, entry
  <2> QED
    BY <1>2, <2>1, <2>2, <2>3, <2>4 DEF g
<1> QED
  BY <1>1, <1>2

LEMMA Assigned ==
  ASSUME NEW st, SoundState(st), NEW path \in KeyPaths, path \notin DOMAIN st.value,
         Len(path) > 1 => Config!Front(path) \in DOMAIN st.value /\ st.value[Config!Front(path)].type = "table",
         NEW value, Config!SoundValue(value)
  PROVE  LET o == Config!PutValue(st, path, value)
         IN  /\ SoundState(o) /\ o.at = st.at /\ o.ok = st.ok
             /\ Grown(st.value, o.value, {}, Given(path, value))
<1> DEFINE entry == [k \in DOMAIN value.entries |-> Append(path, value.entries[k].name)]
           o == Config!PutValue(st, path, value)
           g == Given(path, value)
           names == IF value.type = "table" THEN << path >> \o entry ELSE << path >>
<1>1. o = Config!Put(st, names, g)
  BY DEF Config!PutValue, Given
<1>2. /\ DOMAIN g \subseteq KeyPaths /\ path \in DOMAIN g
      /\ g[path] = IF value.type = "table" THEN Config!Table ELSE value
      /\ \A p \in DOMAIN g : p # path => value.type = "table" /\ Config!Front(p) = path /\ g[p].type # "table"
  BY GivenFacts
<1>3. names \in Seq(KeyPaths) /\ DOMAIN g \subseteq Config!Range(names)
  <2>1. CASE value.type # "table"
    BY <2>1, <1>2 DEF Given, Config!Range
  <2>2. CASE value.type = "table"
    <3>1. DOMAIN g = {path} \cup Config!Range(entry)
      BY <2>2 DEF Given
    <3>2. entry \in Seq(KeyPaths)
      <4>1. \A p \in Config!Range(entry) : p \in KeyPaths
        BY <1>2, <3>1
      <4>2. \A k \in DOMAIN entry : entry[k] \in KeyPaths
        BY <4>1 DEF Config!Range
      <4>3. DOMAIN entry = DOMAIN value.entries /\ entry = [k \in DOMAIN entry |-> entry[k]]
        OBVIOUS
      <4>4. PICK n \in Nat : DOMAIN value.entries = 1..n
        <5>1. value.entries \in Seq(Config!Range(value.entries))
          BY <2>2 DEF Config!SoundValue
        <5> QED
          BY <5>1
      <4> HIDE DEF entry
      <4> QED
        BY <4>2, <4>3, <4>4
    <3> HIDE DEF entry
    <3>3. << path >> \in Seq(KeyPaths) /\ path \in Config!Range(<< path >>)
      BY DEF Config!Range
    <3>4. << path >> \o entry \in Seq(KeyPaths) /\ Config!Range(<< path >>) \cup Config!Range(entry) \subseteq Config!Range(<< path >> \o entry)
      BY <3>2, <3>3, PathsGrow
    <3> QED
      BY <2>2, <3>1, <3>3, <3>4
  <2> QED
    BY <2>1, <2>2
<1>4. Config!Table.type = "table"
  BY DEF Config!Table
<1> HIDE DEF names, g
<1>5. ASSUME NEW p \in DOMAIN g
      PROVE  /\ g[p].type = "table" => g[p] = Config!Table
             /\ Len(p) > 1 => /\ Config!Front(p) \in (DOMAIN st.value) \cup DOMAIN g
                              /\ Config!Front(p) \in DOMAIN st.value => st.value[Config!Front(p)].type = "table"
                              /\ Config!Front(p) \in DOMAIN g => g[Config!Front(p)].type = "table"
             /\ p \notin DOMAIN st.value
  <2>1. CASE p = path
    <3>1. Len(path) > 1 => Config!Front(path) \in DOMAIN st.value /\ st.value[Config!Front(path)].type = "table"
      OBVIOUS
    <3>2. Config!Front(path) # path
      BY PathFront
    <3>3. Config!Front(path) \in DOMAIN g => Config!Front(path) = path \/ Config!Front(Config!Front(path)) = path
      BY <1>2
    <3>4. Len(path) > 1 => Config!Front(Config!Front(path)) # path
      <4> SUFFICES ASSUME Len(path) > 1, Config!Front(Config!Front(path)) = path PROVE FALSE
        OBVIOUS
      <4>1. Len(Config!Front(path)) = Len(path) - 1 /\ Config!Front(path) \in Seq(ConfigWords) /\ Len(path) \in Nat
        BY PathFront
      <4>2. Config!Front(path) # << >>
        BY <4>1
      <4>3. Len(Config!Front(Config!Front(path))) = Len(Config!Front(path)) - 1
        BY <4>1, <4>2, PathFront DEF KeyPaths
      <4> QED
        BY <4>1, <4>3
    <3> QED
      BY <1>2, <1>4, <2>1, <3>1, <3>2, <3>3, <3>4
  <2>2. CASE p # path
    <3>1. Config!Front(p) = path /\ value.type = "table" /\ g[p].type # "table" /\ g[path] = Config!Table
      BY <1>2, <2>2
    <3>2. Len(p) > 1
      <4>1. Len(path) = Len(p) - 1 /\ Len(path) \in Nat \ {0} /\ Len(p) \in Nat
        BY <1>2, <3>1, PathFront
      <4> QED
        BY <4>1
    <3>3. p \notin DOMAIN st.value
      BY <3>1, <3>2 DEF SoundState
    <3> QED
      BY <1>2, <1>4, <3>1, <3>3
  <2> QED
    BY <2>1, <2>2
<1> HIDE DEF o
<1>6. SoundState(Config!Put(st, names, g))
  BY <1>3, <1>5, PutSound
<1>7. o.ok = st.ok /\ o.at = st.at /\ Kept(st.value, o.value, g)
  BY <1>1, PutFields
<1>8. Grown(st.value, o.value, {}, g)
  BY <1>5, <1>7 DEF Grown, Kept
<1> QED
  BY <1>1, <1>6, <1>7, <1>8 DEF o, g

LEMMA SoundLinePath ==
  ASSUME NEW line, Config!SoundLine(line) PROVE line.path \in KeyPaths /\ Config!SoundValue(line.value)
<1>1. ASSUME NEW W, NEW V, W \subseteq V, NEW s \in Seq(W) PROVE s \in Seq(V)
  BY <1>1
<1>2. STRING \subseteq ConfigWords
  BY DEF ConfigWords
<1>3. line.path \in Seq(STRING) /\ line.path # << >> /\ Config!SoundValue(line.value)
  BY DEF Config!SoundLine
<1>4. line.path \in Seq(ConfigWords)
  <2> HIDE DEF ConfigWords
  <2> QED
    BY <1>1, <1>2, <1>3
<1> QED
  BY <1>3, <1>4 DEF KeyPaths

LEMMA FailedSound ==
  ASSUME NEW st, SoundState(st) PROVE SoundState(Config!Failed(st)) /\ ~Config!Failed(st).ok
<1> DEFINE o == Config!Failed(st)
<1>1. o = [st EXCEPT !.ok = FALSE]
  BY DEF Config!Failed
<1> HIDE DEF o
<1>2. SoundState(o) /\ ~o.ok
  BY <1>1 DEF SoundState
<1> QED
  BY <1>2 DEF o

LEMMA ReadHeader ==
  ASSUME NEW st, SoundState(st), NEW line, Config!SoundLine(line), st.ok, line.kind = "header"
  PROVE  SoundState(Config!ReadLine(st, line)) /\ (Config!ReadLine(st, line).ok => LineRead(st, line, Config!ReadLine(st, line)))
<1>1. CASE Len(line.path) > MaxTables
  <2>1. Config!ReadLine(st, line) = Config!Failed(st)
    BY <1>1 DEF Config!ReadLine
  <2> QED
    BY <2>1, FailedSound
<1>2. CASE ~(Len(line.path) > MaxTables)
  <2> DEFINE e == Config!EnsureTable(st, line.path)
             o == Config!ReadLine(st, line)
  <2>1. o = [e EXCEPT !.at = line.path]
    BY <1>2 DEF Config!ReadLine
  <2>2. line.path \in Seq(ConfigWords)
    BY SoundLinePath DEF KeyPaths
  <2>3. SoundState(e) /\ (e.ok => Grown(st.value, e.value, Config!Range(Config!Upto(line.path)), << >>))
    BY <2>2, Opened
  <2> HIDE DEF e, o
  <2>4. SoundState(o) /\ o.at = line.path /\ o.ok = e.ok /\ o.value = e.value
    BY <2>1, <2>2, <2>3 DEF SoundState
  <2>5. DOMAIN << >> = {}
    OBVIOUS
  <2> QED
    BY <2>3, <2>4, <2>5 DEF o, LineRead, TablesOf, GivenBy
<1> QED
  BY <1>1, <1>2

LEMMA ReadAssign ==
  ASSUME NEW st, SoundState(st), NEW line, Config!SoundLine(line), st.ok, line.kind = "assign"
  PROVE  SoundState(Config!ReadLine(st, line)) /\ (Config!ReadLine(st, line).ok => LineRead(st, line, Config!ReadLine(st, line)))
<1> DEFINE path == st.at \o line.path
           opened == Config!EnsureTable(st, Config!Front(path))
           o == Config!ReadLine(st, line)
           stop == \/ st.keys = MaxKeys
                   \/ Len(line.path) > 1 /\ Len(Config!Front(path)) > MaxTables
                   \/ ~opened.ok
                   \/ Config!Has(opened, path)
<1>1. o = IF stop THEN Config!Failed(st) ELSE [Config!PutValue(opened, path, line.value) EXCEPT !.keys = @ + 1]
  BY DEF Config!ReadLine
<1>2. path \in KeyPaths /\ Config!SoundValue(line.value)
  BY SoundLinePath, PathUnder DEF SoundState
<1>3. Config!Front(path) \in Seq(ConfigWords) /\ Len(Config!Front(path)) = Len(path) - 1 /\ Len(path) \in Nat
  BY <1>2, PathFront
<1>4. CASE stop
  <2>1. o = Config!Failed(st)
    BY <1>1, <1>4
  <2> HIDE DEF o
  <2>2. SoundState(o) /\ ~o.ok
    BY <2>1, FailedSound
  <2> QED
    BY <2>2 DEF o
<1>5. CASE ~stop
  <2> DEFINE p == Config!PutValue(opened, path, line.value)
  <2>1. o = [p EXCEPT !.keys = @ + 1] /\ opened.ok /\ path \notin DOMAIN opened.value
    BY <1>1, <1>5 DEF Config!Has
  <2>2. /\ SoundState(opened) /\ opened.at = st.at
        /\ Grown(st.value, opened.value, Config!Range(Config!Upto(Config!Front(path))), << >>)
    BY <1>3, <2>1, Opened
  <2> HIDE DEF path
  <2>3. Len(path) > 1 => Config!Front(path) \in DOMAIN opened.value /\ opened.value[Config!Front(path)].type = "table"
    <3> SUFFICES ASSUME Len(path) > 1
                 PROVE  Config!Front(path) \in DOMAIN opened.value /\ opened.value[Config!Front(path)].type = "table"
      OBVIOUS
    <3> DEFINE f == Config!Front(path)
    <3>1. f \in Seq(ConfigWords) /\ Len(f) > 0
      <4>1. Len(Config!Front(path)) = Len(path) - 1 /\ Len(path) \in Nat /\ Config!Front(path) \in Seq(ConfigWords)
        BY <1>3
      <4> QED
        BY <4>1
    <3> HIDE DEF f
    <3>2. f # << >>
      BY <3>1
    <3>3. f \in Config!Range(Config!Upto(f))
      BY <3>1, <3>2, UptoPaths
    <3> QED
      BY <2>2, <3>3 DEF Grown, Config!Table, f
  <2> HIDE DEF o, opened
  <2>4. SoundState(p) /\ p.at = opened.at /\ p.ok = opened.ok /\ Grown(opened.value, p.value, {}, Given(path, line.value))
    BY <1>2, <2>1, <2>2, <2>3, Assigned
  <2> HIDE DEF p
  <2>5. SoundState(o) /\ o.at = p.at /\ o.ok = p.ok /\ o.value = p.value
    BY <2>1, <2>4 DEF SoundState
  <2>6. DOMAIN Given(path, line.value) \cap DOMAIN opened.value = {}
    <3> SUFFICES ASSUME NEW q \in DOMAIN Given(path, line.value), q \in DOMAIN opened.value PROVE FALSE
      OBVIOUS
    <3>1. q # path => Config!Front(q) = path /\ q \in KeyPaths
      BY <1>2, GivenFacts
    <3>2. q # path
      BY <2>1
    <3>3. Len(q) > 1
      <4>1. Len(path) = Len(q) - 1 /\ Len(q) \in Nat
        BY <3>1, <3>2, PathFront
      <4>2. Len(path) \in Nat \ {0}
        BY <1>2, PathFront
      <4> QED
        BY <4>1, <4>2
    <3> QED
      BY <2>1, <2>2, <3>1, <3>2, <3>3 DEF SoundState
  <2>7. TablesOf(st.at, line) = Config!Range(Config!Upto(Config!Front(path))) /\ GivenBy(st.at, line) = Given(path, line.value)
    BY DEF TablesOf, GivenBy, path
  <2>8. Grown(st.value, o.value, TablesOf(st.at, line), GivenBy(st.at, line))
    <3>1. DOMAIN << >> = {}
      OBVIOUS
    <3> QED
      BY <2>2, <2>4, <2>5, <2>6, <2>7, <3>1 DEF Grown
  <2>9. DOMAIN GivenBy(st.at, line) \cap ((DOMAIN st.value) \cup TablesOf(st.at, line)) = {}
    BY <2>2, <2>6, <2>7 DEF Grown
  <2> QED
    BY <2>2, <2>4, <2>5, <2>8, <2>9 DEF LineRead, o
<1> QED
  BY <1>4, <1>5

LEMMA ReadLineSound ==
  ASSUME NEW st, SoundState(st), NEW line, Config!SoundLine(line)
  PROVE  SoundState(Config!ReadLine(st, line)) /\ (Config!ReadLine(st, line).ok => LineRead(st, line, Config!ReadLine(st, line)))
<1>1. line.kind \in {"header", "assign", "bad"} /\ st.ok \in BOOLEAN
  BY DEF Config!SoundLine, SoundState
<1>2. CASE ~st.ok
  <2>1. Config!ReadLine(st, line) = st
    BY <1>2 DEF Config!ReadLine
  <2> QED
    BY <1>2, <2>1
<1>3. CASE st.ok /\ line.kind = "bad"
  <2>1. Config!ReadLine(st, line) = Config!Failed(st)
    BY <1>3 DEF Config!ReadLine
  <2> QED
    BY <2>1, FailedSound
<1> QED
  BY <1>1, <1>2, <1>3, ReadHeader, ReadAssign

\* Induction up to a bound, for the set of numbers at which a fact holds.
LEMMA UpTo ==
  ASSUME NEW N \in Nat, NEW T, 0 \in T, \A n \in 0..(N - 1) : n \in T => n + 1 \in T
  PROVE  0..N \subseteq T
<1> DEFINE F == (0..N) \ T
<1> SUFFICES ASSUME F # {} PROVE FALSE
  OBVIOUS
<1>0. F \in SUBSET Nat
  OBVIOUS
<1>1. PICK m \in F : \A k \in F : m <= k
  <2> HIDE DEF F
  <2> QED
    BY <1>0, LeastExists
<1>2. m \in 0..N /\ m # 0 /\ m \notin T
  OBVIOUS
<1>3. m - 1 \in 0..(N - 1) /\ m - 1 \notin F
  BY <1>1, <1>2
<1> QED
  BY <1>2, <1>3

\* The recursion of Reading is well founded: there is such a function.
LEMMA ReadingDefined ==
  ASSUME NEW lines, Len(lines) \in Nat
  PROVE  Config!Reading(lines) = [n \in 0..Len(lines) |-> IF n = 0 THEN Config!Empty ELSE Config!ReadLine(Config!Reading(lines)[n - 1], lines[n])]
<1> DEFINE N == Len(lines)
           Is(g, n) == g = [k \in 0..n |-> IF k = 0 THEN Config!Empty ELSE Config!ReadLine(g[k - 1], lines[k])]
           T == {n \in 0..N : \E g : Is(g, n)}
<1>1. N \in Nat
  OBVIOUS
<1>2. 0 \in T
  <2> DEFINE g == [k \in 0..0 |-> Config!Empty]
  <2>1. Is(g, 0) /\ 0 \in 0..N
    BY <1>1
  <2> HIDE DEF Is, g
  <2> QED
    BY <2>1
<1>3. ASSUME NEW n \in 0..(N - 1), n \in T PROVE n + 1 \in T
  <2>1. PICK g : Is(g, n)
    BY <1>3
  <2> DEFINE h == [k \in 0..(n + 1) |-> IF k = n + 1 THEN Config!ReadLine(g[n], lines[n + 1]) ELSE g[k]]
             r == [k \in 0..(n + 1) |-> IF k = 0 THEN Config!Empty ELSE Config!ReadLine(h[k - 1], lines[k])]
  <2>2. ASSUME NEW k \in 0..(n + 1) PROVE h[k] = r[k]
    <3>1. CASE k = n + 1
      <4>1. h[k - 1] = g[n]
        BY <3>1
      <4> QED
        BY <3>1, <4>1
    <3>2. CASE k # n + 1
      <4>1. k \in 0..n
        BY <3>2
      <4>2. h[k] = g[k]
        BY <3>2
      <4>3. g[k] = IF k = 0 THEN Config!Empty ELSE Config!ReadLine(g[k - 1], lines[k])
        BY <2>1, <4>1
      <4>4. k # 0 => h[k - 1] = g[k - 1]
        BY <4>1
      <4> QED
        BY <4>2, <4>3, <4>4
    <3> QED
      BY <3>1, <3>2
  <2>3. Is(h, n + 1)
    <3> HIDE DEF r
    <3>1. h = r
      <4> SUFFICES [k \in 0..(n + 1) |-> h[k]] = [k \in 0..(n + 1) |-> r[k]]
        BY DEF r
      <4> HIDE DEF h
      <4> QED
        BY <2>2
    <3> QED
      BY <3>1 DEF r
  <2>4. n + 1 \in 0..N
    OBVIOUS
  <2> HIDE DEF Is, h
  <2> QED
    BY <2>3, <2>4
<1>4. N \in T
  <2> HIDE DEF T
  <2>1. 0..N \subseteq T
    BY <1>1, <1>2, <1>3, UpTo
  <2> QED
    BY <1>1, <2>1
<1>5. \E g : Is(g, N)
  BY <1>4
<1> QED
  BY <1>5 DEF Config!Reading

LEMMA ReadingSteps ==
  ASSUME NEW lines, Len(lines) \in Nat
  PROVE  /\ Config!Reading(lines)[0] = Config!Empty
         /\ \A n \in 1..Len(lines) : Config!Reading(lines)[n] = Config!ReadLine(Config!Reading(lines)[n - 1], lines[n])
<1> DEFINE Def(n) == IF n = 0 THEN Config!Empty ELSE Config!ReadLine(Config!Reading(lines)[n - 1], lines[n])
<1>1. \A n \in 0..Len(lines) : Config!Reading(lines)[n] = Def(n)
  <2>1. Config!Reading(lines) = [n \in 0..Len(lines) |-> Def(n)]
    BY ReadingDefined
  <2> HIDE DEF Def
  <2> QED
    BY <2>1
<1> QED
  BY <1>1

\* The recursion of Editing is well founded: there is such a function.
LEMMA EditingDefined ==
  ASSUME NEW lines, Len(lines) \in Nat, NEW key, NEW emptied
  PROVE  Config!Editing(lines, key, emptied) = [n \in 0..Len(lines) |-> IF n = 0 THEN Config!Untouched ELSE Config!EditLine(Config!Editing(lines, key, emptied)[n - 1], lines[n], key, emptied)]
<1> DEFINE N == Len(lines)
           Is(g, n) == g = [k \in 0..n |-> IF k = 0 THEN Config!Untouched ELSE Config!EditLine(g[k - 1], lines[k], key, emptied)]
           T == {n \in 0..N : \E g : Is(g, n)}
<1>1. N \in Nat
  OBVIOUS
<1>2. 0 \in T
  <2> DEFINE g == [k \in 0..0 |-> Config!Untouched]
  <2>1. Is(g, 0) /\ 0 \in 0..N
    BY <1>1
  <2> HIDE DEF Is, g
  <2> QED
    BY <2>1
<1>3. ASSUME NEW n \in 0..(N - 1), n \in T PROVE n + 1 \in T
  <2>1. PICK g : Is(g, n)
    BY <1>3
  <2> DEFINE h == [k \in 0..(n + 1) |-> IF k = n + 1 THEN Config!EditLine(g[n], lines[n + 1], key, emptied) ELSE g[k]]
             r == [k \in 0..(n + 1) |-> IF k = 0 THEN Config!Untouched ELSE Config!EditLine(h[k - 1], lines[k], key, emptied)]
  <2>2. ASSUME NEW k \in 0..(n + 1) PROVE h[k] = r[k]
    <3>1. CASE k = n + 1
      <4>1. h[k - 1] = g[n]
        BY <3>1
      <4> QED
        BY <3>1, <4>1
    <3>2. CASE k # n + 1
      <4>1. k \in 0..n
        BY <3>2
      <4>2. h[k] = g[k]
        BY <3>2
      <4>3. g[k] = IF k = 0 THEN Config!Untouched ELSE Config!EditLine(g[k - 1], lines[k], key, emptied)
        BY <2>1, <4>1
      <4>4. k # 0 => h[k - 1] = g[k - 1]
        BY <4>1
      <4> QED
        BY <4>2, <4>3, <4>4
    <3> QED
      BY <3>1, <3>2
  <2>3. Is(h, n + 1)
    <3> HIDE DEF r
    <3>1. h = r
      <4> SUFFICES [k \in 0..(n + 1) |-> h[k]] = [k \in 0..(n + 1) |-> r[k]]
        BY DEF r
      <4> HIDE DEF h
      <4> QED
        BY <2>2
    <3> QED
      BY <3>1 DEF r
  <2>4. n + 1 \in 0..N
    OBVIOUS
  <2> HIDE DEF Is, h
  <2> QED
    BY <2>3, <2>4
<1>4. N \in T
  <2> HIDE DEF T
  <2>1. 0..N \subseteq T
    BY <1>1, <1>2, <1>3, UpTo
  <2> QED
    BY <1>1, <2>1
<1>5. \E g : Is(g, N)
  BY <1>4
<1> QED
  BY <1>5 DEF Config!Editing

LEMMA EditingSteps ==
  ASSUME NEW lines, Len(lines) \in Nat, NEW key, NEW emptied
  PROVE  /\ Config!Editing(lines, key, emptied)[0] = Config!Untouched
         /\ \A n \in 1..Len(lines) : Config!Editing(lines, key, emptied)[n] = Config!EditLine(Config!Editing(lines, key, emptied)[n - 1], lines[n], key, emptied)
<1> DEFINE Def(n) == IF n = 0 THEN Config!Untouched ELSE Config!EditLine(Config!Editing(lines, key, emptied)[n - 1], lines[n], key, emptied)
<1>1. \A n \in 0..Len(lines) : Config!Editing(lines, key, emptied)[n] = Def(n)
  <2>1. Config!Editing(lines, key, emptied) = [n \in 0..Len(lines) |-> Def(n)]
    BY EditingDefined
  <2> HIDE DEF Def
  <2> QED
    BY <2>1
<1> QED
  BY <1>1

LEMMA EmptySound == SoundState(Config!Empty)
<1>1. DOMAIN << >> = {} /\ << >> \in Seq(ConfigWords) /\ << >> \in Seq(KeyPaths)
  OBVIOUS
<1> QED
  BY <1>1 DEF SoundState, Config!Empty

LEMMA LinesOf ==
  ASSUME NEW lines, Config!SoundDocument(lines)
  PROVE  /\ Len(lines) \in Nat /\ DOMAIN lines = 1..Len(lines)
         /\ \A n \in 1..Len(lines) : Config!SoundLine(lines[n]) /\ lines[n] \in Config!Range(lines)
BY DEF Config!SoundDocument, Config!Range

LEMMA ReadingSound ==
  ASSUME NEW lines, Config!SoundDocument(lines)
  PROVE  \A n \in 0..Len(lines) : SoundState(Config!Reading(lines)[n])
<1> DEFINE N == Len(lines)
           T == {n \in 0..N : SoundState(Config!Reading(lines)[n])}
<1>1. N \in Nat /\ \A n \in 1..N : Config!SoundLine(lines[n])
  BY LinesOf
<1>2. 0 \in T
  BY <1>1, EmptySound, ReadingSteps
<1>3. ASSUME NEW n \in 0..(N - 1), n \in T PROVE n + 1 \in T
  <2>1. n + 1 \in 1..N /\ (n + 1) - 1 = n
    BY <1>1
  <2>2. Config!Reading(lines)[n + 1] = Config!ReadLine(Config!Reading(lines)[n], lines[n + 1])
    BY <1>1, <2>1, ReadingSteps
  <2>3. SoundState(Config!Reading(lines)[n]) /\ Config!SoundLine(lines[n + 1])
    BY <1>1, <1>3, <2>1
  <2> QED
    BY <2>1, <2>2, <2>3, ReadLineSound
<1>4. 0..N \subseteq T
  <2> HIDE DEF T
  <2> QED
    BY <1>1, <1>2, <1>3, UpTo
<1> QED
  BY <1>4

\* A document that goes on is read as it was, and on.
LEMMA ParseAppend ==
  ASSUME NEW S, NEW lines \in Seq(S), NEW line \in S
  PROVE  Config!Parse(Append(lines, line)) = Config!ReadLine(Config!Parse(lines), line)
<1> DEFINE N == Len(lines)
           more == Append(lines, line)
           T == {n \in 0..N : Config!Reading(more)[n] = Config!Reading(lines)[n]}
<1>1. N \in Nat /\ Len(more) = N + 1 /\ more[N + 1] = line /\ \A n \in 1..N : more[n] = lines[n]
  OBVIOUS
<1> HIDE DEF N, more
<1>2. Config!Reading(lines)[0] = Config!Empty /\ \A n \in 1..N : Config!Reading(lines)[n] = Config!ReadLine(Config!Reading(lines)[n - 1], lines[n])
  BY <1>1, ReadingSteps DEF N
<1>3. Config!Reading(more)[0] = Config!Empty /\ \A n \in 1..(N + 1) : Config!Reading(more)[n] = Config!ReadLine(Config!Reading(more)[n - 1], more[n])
  BY <1>1, ReadingSteps
<1>4. 0 \in T
  BY <1>1, <1>2, <1>3
<1>5. ASSUME NEW n \in 0..(N - 1), n \in T PROVE n + 1 \in T
  <2>1. n + 1 \in 1..N /\ n + 1 \in 1..(N + 1) /\ (n + 1) - 1 = n /\ n + 1 \in 0..N
    BY <1>1
  <2>2. Config!Reading(more)[n + 1] = Config!ReadLine(Config!Reading(lines)[n], lines[n + 1])
    BY <1>1, <1>3, <1>5, <2>1
  <2> QED
    BY <1>2, <2>1, <2>2
<1>6. N \in T
  <2> HIDE DEF T
  <2>1. 0..N \subseteq T
    BY <1>1, <1>4, <1>5, UpTo
  <2> QED
    BY <1>1, <2>1
<1>7. Config!Reading(more)[N + 1] = Config!ReadLine(Config!Reading(more)[N], line)
  <2>1. N + 1 \in 1..(N + 1) /\ (N + 1) - 1 = N
    BY <1>1
  <2> QED
    BY <1>1, <1>3, <2>1
<1> QED
  BY <1>1, <1>6, <1>7 DEF Config!Parse, N, more

LEMMA ParseNothing == Config!Parse(<< >>) = Config!Empty
<1>1. Len(<< >>) = 0 /\ 0 \in Nat
  OBVIOUS
<1> QED
  BY <1>1, ReadingSteps DEF Config!Parse

LEMMA NamedEnds ==
  ASSUME NEW at \in Seq(ConfigWords), NEW section \in {at, << >>}, NEW line, Config!SoundLine(line),
         NEW key \in KeyPaths, Config!Names(line, section, key)
  PROVE  line.kind = "assign" /\ Config!IsSuffix(key, at \o line.path)
<1>1. CASE line.path = key
  BY <1>1, EndsIn DEF Config!Names
<1>2. CASE line.path # key
  <2>1. Len(key) = 2 /\ line.path = Tail(key) /\ section = << key[1] >>
    BY <1>2 DEF Config!Names
  <2>2. section = at
    <3>1. << key[1] >> # << >>
      OBVIOUS
    <3> QED
      BY <2>1, <3>1
  <2>3. at \o line.path = key
    BY <2>1, <2>2, WholeKey
  <2>4. Config!IsSuffix(key, << >> \o key) /\ << >> \o key = key
    <3>1. << >> \in Seq(ConfigWords) /\ key \in Seq(ConfigWords)
      BY DEF KeyPaths
    <3>2. << >> \o key = key
      BY <3>1
    <3> QED
      BY <3>1, <3>2, EndsIn
  <2> QED
    BY <2>3, <2>4 DEF Config!Names
<1> QED
  BY <1>1, <1>2

\* Both read the same line.
LEMMA EditSame ==
  ASSUME NEW P, NEW Q, NEW key, NEW emptied \in BOOLEAN, EditedAs(P, Q, key, emptied),
         NEW line, NEW P1, NEW Q1, LineRead(P, line, P1), LineRead(Q, line, Q1)
  PROVE  EditedAs(P1, Q1, key, emptied)
<1> DEFINE t == TablesOf(P.at, line)
           g == GivenBy(P.at, line)
<1>1. /\ Grown(P.value, P1.value, t, g) /\ Grown(Q.value, Q1.value, t, g)
      /\ DOMAIN g \cap ((DOMAIN P.value) \cup t) = {}
      /\ P1.at = Q1.at
  BY DEF LineRead, EditedAs
<1> HIDE DEF t, g
<1>2. DOMAIN Q1.value \subseteq DOMAIN P1.value
  BY <1>1 DEF Grown, EditedAs
<1>3. ASSUME NEW p \in DOMAIN Q1.value
      PROVE  Q1.value[p] = P1.value[p] \/ (emptied /\ Config!IsSuffix(key, p) /\ Q1.value[p] = Config!Table)
  <2>1. CASE p \in DOMAIN Q.value
    BY <1>1, <2>1 DEF Grown, EditedAs
  <2>2. ASSUME p \in t PROVE Q1.value[p] = P1.value[p]
    BY <1>1, <2>2 DEF Grown
  <2>3. ASSUME p \in DOMAIN g PROVE Q1.value[p] = P1.value[p]
    BY <1>1, <2>3 DEF Grown
  <2>4. p \in DOMAIN Q.value \/ p \in t \/ p \in DOMAIN g
    BY <1>1 DEF Grown
  <2> QED
    BY <2>1, <2>2, <2>3, <2>4
<1>4. Config!Table.type = "table"
  BY DEF Config!Table
<1>5. ASSUME NEW p \in DOMAIN P1.value, P1.value[p].type # "table"
      PROVE  \/ p \in DOMAIN Q1.value \/ Config!IsSuffix(key, p)
             \/ Config!IsSuffix(key, Config!Front(p)) /\ Len(p) > 1 /\ (emptied => Config!Front(p) \in DOMAIN Q1.value)
  <2>1. CASE p \in DOMAIN P.value
    BY <1>1, <1>5, <2>1 DEF Grown, EditedAs
  <2>2. CASE p \in t \cup DOMAIN g
    BY <1>1, <1>4, <1>5, <2>2 DEF Grown
  <2> QED
    BY <1>1, <2>1, <2>2 DEF Grown
<1> QED
  BY <1>1, <1>2, <1>3, <1>5 DEF EditedAs

\* The line is left out.
LEMMA EditOut ==
  ASSUME NEW P, NEW Q, NEW key, EditedAs(P, Q, key, FALSE), P.at \in Seq(ConfigWords),
         NEW line, Config!SoundLine(line), line.kind = "assign", Config!IsSuffix(key, P.at \o line.path),
         NEW P1, LineRead(P, line, P1)
  PROVE  EditedAs(P1, Q, key, FALSE)
<1> DEFINE path == P.at \o line.path
           g == Given(path, line.value)
           t == TablesOf(P.at, line)
<1>1. Grown(P.value, P1.value, t, g) /\ P1.at = P.at
  BY DEF LineRead, GivenBy
<1>2. path \in KeyPaths /\ Config!SoundValue(line.value)
  BY SoundLinePath, PathUnder
<1>3. DOMAIN g \subseteq KeyPaths /\ \A p \in DOMAIN g : p # path => Config!Front(p) = path
  BY <1>2, GivenFacts
<1> HIDE DEF t, g, path
<1>4. Config!Table.type = "table"
  BY DEF Config!Table
<1>5. Config!IsSuffix(key, path)
  BY DEF path
<1>6. ASSUME NEW p \in DOMAIN P1.value, P1.value[p].type # "table"
      PROVE  p \in DOMAIN Q.value \/ Config!IsSuffix(key, p) \/ (Config!IsSuffix(key, Config!Front(p)) /\ Len(p) > 1)
  <2>1. CASE p \in DOMAIN P.value
    BY <1>1, <1>6, <2>1 DEF Grown, EditedAs
  <2>2. CASE p \in t
    BY <1>1, <1>4, <1>6, <2>2 DEF Grown
  <2>3. CASE p \in DOMAIN g
    <3>1. p # path => Config!Front(p) = path /\ Len(p) > 1
      <4> SUFFICES ASSUME p # path PROVE Config!Front(p) = path /\ Len(p) > 1
        OBVIOUS
      <4>1. Config!Front(p) = path /\ p \in KeyPaths
        BY <1>3, <2>3
      <4>2. Len(path) = Len(p) - 1 /\ Len(p) \in Nat /\ Len(path) \in Nat \ {0}
        BY <1>2, <4>1, PathFront
      <4> QED
        BY <4>1, <4>2
    <3> QED
      BY <1>5, <3>1
  <2> QED
    BY <1>1, <2>1, <2>2, <2>3 DEF Grown
<1> QED
  BY <1>1, <1>6 DEF EditedAs, Grown

\* The line is made to say the empty table.
LEMMA EditEmptied ==
  ASSUME NEW P, NEW Q, NEW key, NEW emptied \in BOOLEAN, emptied, EditedAs(P, Q, key, emptied), P.at \in Seq(ConfigWords),
         NEW line, Config!SoundLine(line), line.kind = "assign", Config!IsSuffix(key, P.at \o line.path),
         NEW P1, LineRead(P, line, P1), NEW Q1, LineRead(Q, Config!Assign(line.path, TRUE, Config!Table), Q1)
  PROVE  EditedAs(P1, Q1, key, emptied)
<1> DEFINE path == P.at \o line.path
           g == Given(path, line.value)
           t == TablesOf(P.at, line)
           e == Config!Assign(line.path, TRUE, Config!Table)
<1>1. Grown(P.value, P1.value, t, g) /\ P1.at = P.at /\ DOMAIN g \cap ((DOMAIN P.value) \cup t) = {}
  BY DEF LineRead, GivenBy
<1>2. path \in KeyPaths /\ Config!SoundValue(line.value)
  BY SoundLinePath, PathUnder
<1>3. /\ DOMAIN g \subseteq KeyPaths /\ path \in DOMAIN g
      /\ \A p \in DOMAIN g : p # path => Config!Front(p) = path
  BY <1>2, GivenFacts
<1>4. Config!Table.type = "table" /\ Config!Table.entries = << >>
  BY DEF Config!Table
<1>5. Grown(Q.value, Q1.value, t, [p \in {path} |-> Config!Table]) /\ Q1.at = P.at
  <2>1. e.kind = "assign" /\ e.path = line.path /\ e.value = Config!Table /\ Q.at = P.at
    BY DEF Config!Assign, EditedAs
  <2>2. TablesOf(Q.at, e) = t /\ GivenBy(Q.at, e) = Given(path, Config!Table)
    BY <2>1 DEF TablesOf, GivenBy
  <2>3. Given(path, Config!Table) = [p \in {path} |-> Config!Table]
    <3> DEFINE entry == [k \in DOMAIN << >> |-> Append(path, << >>[k].name)]
    <3>1. Config!Range(entry) = {}
      BY DEF Config!Range
    <3>2. Given(path, Config!Table) = [p \in {path} \cup Config!Range(entry) |->
              IF p = path THEN Config!Table
              ELSE << >>[CHOOSE k \in DOMAIN entry : entry[k] = p].value]
      BY <1>4 DEF Given
    <3> HIDE DEF entry
    <3> QED
      BY <3>1, <3>2
  <2> HIDE DEF e
  <2> QED
    BY <2>1, <2>2, <2>3 DEF LineRead, e
<1> HIDE DEF t, g, path
<1>6. Config!IsSuffix(key, path)
  BY DEF path
<1>7. DOMAIN Q1.value \subseteq DOMAIN P1.value
  BY <1>1, <1>3, <1>5 DEF Grown, EditedAs
<1>8. ASSUME NEW p \in DOMAIN Q1.value
      PROVE  Q1.value[p] = P1.value[p] \/ (Config!IsSuffix(key, p) /\ Q1.value[p] = Config!Table)
  <2>1. CASE p \in DOMAIN Q.value
    BY <1>1, <1>5, <2>1 DEF Grown, EditedAs
  <2>2. CASE p \in t
    BY <1>1, <1>5, <2>2 DEF Grown
  <2>3. CASE p = path
    BY <1>5, <1>6, <2>3 DEF Grown
  <2> QED
    BY <1>5, <2>1, <2>2, <2>3 DEF Grown
<1>9. ASSUME NEW p \in DOMAIN P1.value, P1.value[p].type # "table"
      PROVE  \/ p \in DOMAIN Q1.value \/ Config!IsSuffix(key, p)
             \/ Config!IsSuffix(key, Config!Front(p)) /\ Len(p) > 1 /\ Config!Front(p) \in DOMAIN Q1.value
  <2>1. CASE p \in DOMAIN P.value
    BY <1>1, <1>5, <1>9, <2>1 DEF Grown, EditedAs
  <2>2. CASE p \in t
    BY <1>1, <1>4, <1>9, <2>2 DEF Grown
  <2>3. CASE p \in DOMAIN g
    <3>1. p # path => Config!Front(p) = path /\ Len(p) > 1
      <4> SUFFICES ASSUME p # path PROVE Config!Front(p) = path /\ Len(p) > 1
        OBVIOUS
      <4>1. Config!Front(p) = path /\ p \in KeyPaths
        BY <1>3, <2>3
      <4>2. Len(path) = Len(p) - 1 /\ Len(p) \in Nat /\ Len(path) \in Nat \ {0}
        BY <1>2, <4>1, PathFront
      <4> QED
        BY <4>1, <4>2
    <3>2. path \in DOMAIN Q1.value
      BY <1>5 DEF Grown
    <3> QED
      BY <1>6, <3>1, <3>2
  <2> QED
    BY <1>1, <2>1, <2>2, <2>3 DEF Grown
<1>10. Q1.at = P1.at
  BY <1>1, <1>5
<1>11. \A p \in DOMAIN P1.value :
         \/ P1.value[p].type = "table" \/ p \in DOMAIN Q1.value \/ Config!IsSuffix(key, p)
         \/ Config!IsSuffix(key, Config!Front(p)) /\ Len(p) > 1 /\ (emptied => Config!Front(p) \in DOMAIN Q1.value)
  BY <1>9
<1>12. \A p \in DOMAIN Q1.value :
         Q1.value[p] = P1.value[p] \/ (emptied /\ Config!IsSuffix(key, p) /\ Q1.value[p] = Config!Table)
  BY <1>8
<1> QED
  BY <1>7, <1>10, <1>11, <1>12 DEF EditedAs

\* One more line is put out, the very one or another.
LEMMA ConfigOneMore ==
  ASSUME NEW L, \A l \in L : Config!SoundLine(l), NEW out \in Seq(L), NEW line \in L,
         SoundState(Config!Parse(out))
  PROVE  /\ Append(out, line) \in Seq(L) /\ SoundState(Config!Parse(Append(out, line)))
         /\ Config!Parse(Append(out, line)).ok =>
              Config!Parse(out).ok /\ LineRead(Config!Parse(out), line, Config!Parse(Append(out, line)))
<1>1. Config!Parse(Append(out, line)) = Config!ReadLine(Config!Parse(out), line)
  BY ParseAppend
<1>2. Config!SoundLine(line)
  OBVIOUS
<1>3. LineRead(Config!Parse(out), line, Config!ReadLine(Config!Parse(out), line)) => Config!Parse(out).ok
  BY DEF LineRead
<1> QED
  BY <1>1, <1>2, <1>3, ReadLineSound

LEMMA EditKept ==
  ASSUME NEW P, SoundState(P), NEW L, \A l \in L : Config!SoundLine(l), NEW line \in L,
         NEW key \in KeyPaths, NEW emptied \in BOOLEAN,
         NEW done, EditSound(P, done, L, key, emptied), NEW next,
         next = [out |-> next.out, section |-> next.section, met |-> next.met],
         next.out = Append(done.out, line),
         Config!ReadLine(P, line).ok => next.section \in {Config!ReadLine(P, line).at, << >>}
  PROVE  EditSound(Config!ReadLine(P, line), next, L, key, emptied)
<1> DEFINE P1 == Config!ReadLine(P, line)
           Q == Config!Parse(done.out)
           Q1 == Config!Parse(next.out)
<1>1. Config!SoundLine(line) /\ (P1.ok => LineRead(P, line, P1))
  BY ReadLineSound
<1>2. /\ next.out \in Seq(L) /\ SoundState(Q1)
      /\ Q1.ok => Q.ok /\ LineRead(Q, line, Q1)
  BY ConfigOneMore DEF EditSound
<1>3. ASSUME P1.ok, Q1.ok PROVE EditedAs(P1, Q1, key, emptied)
  <2>1. P.ok /\ LineRead(P, line, P1)
    BY <1>1, <1>3 DEF LineRead
  <2>2. LineRead(Q, line, Q1) /\ EditedAs(P, Q, key, emptied)
    BY <1>2, <1>3, <2>1 DEF EditSound
  <2> HIDE DEF P1, Q, Q1
  <2> QED
    BY <2>1, <2>2, EditSame
<1> QED
  BY <1>2, <1>3 DEF EditSound

LEMMA EditMet ==
  ASSUME NEW P, SoundState(P), NEW L, \A l \in L : Config!SoundLine(l), NEW line \in L,
         Config!Assign(line.path, TRUE, Config!Table) \in L,
         NEW key \in KeyPaths, NEW emptied \in BOOLEAN,
         NEW done, EditSound(P, done, L, key, emptied), Config!Names(line, done.section, key), NEW next,
         next = [out |-> next.out, section |-> next.section, met |-> next.met],
         next.out = IF emptied THEN Append(done.out, Config!Assign(line.path, TRUE, Config!Table)) ELSE done.out,
         next.section = done.section
  PROVE  EditSound(Config!ReadLine(P, line), next, L, key, emptied)
<1> DEFINE P1 == Config!ReadLine(P, line)
           Q == Config!Parse(done.out)
           Q1 == Config!Parse(next.out)
           e == Config!Assign(line.path, TRUE, Config!Table)
<1>1. Config!SoundLine(line) /\ (P1.ok => LineRead(P, line, P1)) /\ P.at \in Seq(ConfigWords)
  BY ReadLineSound DEF SoundState
<1>2. line.kind = "assign"
  BY DEF Config!Names
<1>3. P1.ok => P.ok /\ P1.at = P.at
  BY <1>1, <1>2 DEF LineRead
<1>4. P1.ok => Config!IsSuffix(key, P.at \o line.path)
  <2> SUFFICES ASSUME P1.ok PROVE Config!IsSuffix(key, P.at \o line.path)
    OBVIOUS
  <2>1. done.section \in {P.at, << >>}
    BY <1>3 DEF EditSound
  <2> QED
    BY <1>1, <2>1, NamedEnds
<1>5. CASE emptied
  <2>1. next.out = Append(done.out, e)
    BY <1>5
  <2>2. /\ next.out \in Seq(L) /\ SoundState(Q1)
        /\ Q1.ok => Q.ok /\ LineRead(Q, e, Q1)
    BY <2>1, ConfigOneMore DEF EditSound
  <2>3. ASSUME P1.ok, Q1.ok PROVE EditedAs(P1, Q1, key, emptied)
    <3>1. P.ok /\ LineRead(P, line, P1) /\ LineRead(Q, e, Q1)
      BY <1>1, <1>3, <2>2, <2>3
    <3>2. EditedAs(P, Q, key, emptied)
      BY <2>2, <2>3, <3>1 DEF EditSound
    <3>3. Config!IsSuffix(key, P.at \o line.path)
      BY <1>4, <2>3
    <3> HIDE DEF P1, Q, Q1
    <3> QED
      BY <1>1, <1>2, <1>5, <3>1, <3>2, <3>3, EditEmptied
  <2> QED
    BY <1>3, <2>2, <2>3 DEF EditSound
<1>6. CASE ~emptied
  <2>1. next.out = done.out
    BY <1>6
  <2>2. ASSUME P1.ok, Q.ok PROVE EditedAs(P1, Q, key, FALSE)
    <3>1. LineRead(P, line, P1)
      BY <1>1, <2>2
    <3>2. EditedAs(P, Q, key, FALSE)
      <4>1. emptied = FALSE
        BY <1>6
      <4> QED
        BY <1>3, <2>2, <4>1 DEF EditSound
    <3>3. Config!IsSuffix(key, P.at \o line.path)
      BY <1>4, <2>2
    <3> HIDE DEF P1, Q
    <3> QED
      BY <1>1, <1>2, <3>1, <3>2, <3>3, EditOut
  <2>3. emptied = FALSE
    BY <1>6
  <2> QED
    BY <1>3, <2>1, <2>2, <2>3 DEF EditSound
<1> QED
  BY <1>5, <1>6

LEMMA EditStep ==
  ASSUME NEW P, SoundState(P), NEW L, \A l \in L : Config!SoundLine(l), NEW line \in L,
         Config!Assign(line.path, TRUE, Config!Table) \in L,
         NEW key \in KeyPaths, NEW emptied \in BOOLEAN,
         NEW done, EditSound(P, done, L, key, emptied)
  PROVE  EditSound(Config!ReadLine(P, line), Config!EditLine(done, line, key, emptied), L, key, emptied)
<1> DEFINE next == Config!EditLine(done, line, key, emptied)
           fields(x) == x = [out |-> x.out, section |-> x.section, met |-> x.met]
<1>1. fields(done) /\ Config!SoundLine(line)
  BY DEF EditSound
<1>2. CASE line.kind = "header"
  <2>1. next = [done EXCEPT !.out = Append(@, line), !.section = IF line.bare THEN line.path ELSE << >>]
    BY <1>2 DEF Config!EditLine
  <2>2. fields(next) /\ next.out = Append(done.out, line) /\ next.section \in {line.path, << >>}
    <3> HIDE DEF next
    <3> QED
      BY <1>1, <2>1
  <2>3. Config!ReadLine(P, line).ok => Config!ReadLine(P, line).at = line.path
    BY <1>1, <1>2, ReadLineSound DEF LineRead
  <2> HIDE DEF next
  <2> QED
    BY <2>2, <2>3, EditKept DEF next
<1>3. CASE line.kind # "header" /\ Config!Names(line, done.section, key)
  <2>1. next = [done EXCEPT !.out = IF emptied THEN Append(@, Config!Assign(line.path, TRUE, Config!Table)) ELSE @,
                            !.met = TRUE]
    BY <1>3 DEF Config!EditLine
  <2>2. /\ fields(next) /\ next.section = done.section
        /\ next.out = IF emptied THEN Append(done.out, Config!Assign(line.path, TRUE, Config!Table)) ELSE done.out
    <3> HIDE DEF next
    <3> QED
      BY <1>1, <2>1
  <2> HIDE DEF next
  <2> QED
    BY <1>3, <2>2, EditMet DEF next
<1>4. CASE line.kind # "header" /\ ~Config!Names(line, done.section, key)
  <2>1. next = [done EXCEPT !.out = Append(@, line)]
    BY <1>4 DEF Config!EditLine
  <2>2. fields(next) /\ next.section = done.section /\ next.out = Append(done.out, line)
    <3> HIDE DEF next
    <3> QED
      BY <1>1, <2>1
  <2>3. Config!ReadLine(P, line).ok => P.ok /\ Config!ReadLine(P, line).at = P.at
    BY <1>1, <1>4, ReadLineSound DEF LineRead
  <2>4. Config!ReadLine(P, line).ok => next.section \in {Config!ReadLine(P, line).at, << >>}
    BY <2>2, <2>3 DEF EditSound
  <2> HIDE DEF next
  <2> QED
    BY <2>2, <2>4, EditKept DEF next
<1> QED
  BY <1>2, <1>3, <1>4

\* What an edit makes of a document, and how the two read.
LEMMA EditedSound ==
  ASSUME NEW lines, Config!SoundDocument(lines), NEW key \in KeyPaths, NEW emptied \in BOOLEAN,
         NEW next, next = Config!Edited(lines, key, emptied), next # None
  PROVE  /\ Config!SoundDocument(next)
         /\ Config!Parse(lines).ok /\ Config!Parse(next).ok => EditedAs(Config!Parse(lines), Config!Parse(next), key, emptied)
<1> DEFINE N == Len(lines)
           L == Config!Range(lines) \cup {Config!Assign(l.path, TRUE, Config!Table) : l \in Config!Range(lines)}
           P(n) == Config!Reading(lines)[n]
           E(n) == Config!Editing(lines, key, emptied)[n]
           T == {n \in 0..N : EditSound(P(n), E(n), L, key, emptied)}
<1>1. N \in Nat /\ \A n \in 1..N : lines[n] \in Config!Range(lines)
  BY LinesOf
<1>2. \A l \in L : Config!SoundLine(l)
  <2>1. \A l \in Config!Range(lines) : Config!SoundLine(l)
    BY DEF Config!SoundDocument
  <2>2. ASSUME NEW l \in Config!Range(lines) PROVE Config!SoundLine(Config!Assign(l.path, TRUE, Config!Table))
    <3>1. Config!SoundValue(Config!Table)
      <4>1. Config!Table.entries = << >> /\ Config!Range(<< >>) = {}
        BY DEF Config!Table, Config!Range
      <4> QED
        BY <4>1 DEF Config!SoundValue
    <3> QED
      BY <2>1, <3>1 DEF Config!SoundLine, Config!Assign
  <2> QED
    BY <2>1, <2>2
<1>3. ASSUME NEW n \in 1..N PROVE lines[n] \in L /\ Config!Assign(lines[n].path, TRUE, Config!Table) \in L
  BY <1>1
<1>4. 0 \in T
  <2>1. P(0) = Config!Empty /\ E(0) = Config!Untouched
    BY <1>1, ReadingSteps, EditingSteps
  <2>2. EditSound(Config!Empty, Config!Untouched, L, key, emptied)
    <3>1. EditedAs(Config!Empty, Config!Empty, key, emptied)
      <4>1. DOMAIN Config!Empty.value = {}
        BY DEF Config!Empty
      <4> QED
        BY <4>1 DEF EditedAs
    <3>2. /\ Config!Untouched = [out |-> Config!Untouched.out, section |-> Config!Untouched.section, met |-> Config!Untouched.met]
          /\ Config!Untouched.out = << >> /\ Config!Untouched.section = << >> /\ << >> \in Seq(L)
      BY DEF Config!Untouched
    <3> QED
      BY <3>1, <3>2, ParseNothing, EmptySound DEF EditSound
  <2> QED
    BY <1>1, <2>1, <2>2
<1> HIDE DEF L
<1>5. ASSUME NEW n \in 0..(N - 1), n \in T PROVE n + 1 \in T
  <2>1. n + 1 \in 1..N /\ (n + 1) - 1 = n /\ n \in 0..N /\ n + 1 \in 0..N
    BY <1>1
  <2>2. P(n + 1) = Config!ReadLine(P(n), lines[n + 1]) /\ E(n + 1) = Config!EditLine(E(n), lines[n + 1], key, emptied)
    BY <1>1, <2>1, ReadingSteps, EditingSteps
  <2>3. SoundState(P(n)) /\ EditSound(P(n), E(n), L, key, emptied)
    BY <1>5, <2>1, ReadingSound
  <2>4. EditSound(Config!ReadLine(P(n), lines[n + 1]), Config!EditLine(E(n), lines[n + 1], key, emptied), L, key, emptied)
    <3> HIDE DEF P, E
    <3> QED
      BY <1>2, <1>3, <2>1, <2>3, EditStep
  <2> QED
    BY <2>1, <2>2, <2>4
<1>6. N \in T
  <2> HIDE DEF T
  <2>1. 0..N \subseteq T
    BY <1>1, <1>4, <1>5, UpTo
  <2> QED
    BY <1>1, <2>1
<1>7. next = E(N).out
  BY DEF Config!Edited
<1>8. next \in Seq(L)
  BY <1>6, <1>7 DEF EditSound
<1>9. Config!SoundDocument(next)
  <2>1. next \in Seq(Config!Range(next)) /\ Config!Range(next) \subseteq L
    BY <1>8 DEF Config!Range
  <2> QED
    BY <1>2, <2>1 DEF Config!SoundDocument
<1> QED
  BY <1>6, <1>7, <1>9 DEF EditSound, Config!Parse

LEMMA SuffixWhole ==
  ASSUME NEW key \in KeyPaths, NEW t \in KeyPaths, Config!IsSuffix(key, t)
  PROVE  Len(key) <= Len(t) /\ (Len(key) = Len(t) => key = t)
<1>1. key \in Seq(ConfigWords) /\ t \in Seq(ConfigWords) /\ Len(key) \in Nat /\ Len(t) \in Nat
  BY DEF KeyPaths
<1>2. /\ Len(Config!Reverse(key)) = Len(key) /\ Len(Config!Reverse(t)) = Len(t)
      /\ \A i \in 1..Len(key) : Config!Reverse(key)[i] = key[(Len(key) - i) + 1]
      /\ \A i \in 1..Len(t) : Config!Reverse(t)[i] = t[(Len(t) - i) + 1]
      /\ Config!Reverse(key) \in Seq(ConfigWords) /\ Config!Reverse(t) \in Seq(ConfigWords)
  BY <1>1 DEF Config!Reverse
<1>3. Config!IsPrefix(Config!Reverse(key), Config!Reverse(t))
  BY DEF Config!IsSuffix
<1>4. Len(key) <= Len(t) /\ \A i \in 1..Len(key) : Config!Reverse(key)[i] = Config!Reverse(t)[i]
  BY <1>1, <1>2, <1>3 DEF Config!IsPrefix
<1>5. ASSUME Len(key) = Len(t), NEW i \in 1..Len(key) PROVE key[i] = t[i]
  <2> DEFINE j == (Len(key) - i) + 1
  <2>1. j \in 1..Len(key) /\ (Len(key) - j) + 1 = i
    BY <1>1
  <2> HIDE DEF j
  <2> QED
    BY <1>2, <1>4, <1>5, <2>1
<1> QED
  BY <1>1, <1>4, <1>5

LEMMA FrontPrefix ==
  ASSUME NEW p \in KeyPaths PROVE Config!IsPrefix(Config!Front(p), p)
<1>1. /\ p \in Seq(ConfigWords) /\ Config!Front(p) \in Seq(ConfigWords) /\ Len(Config!Front(p)) = Len(p) - 1
      /\ Len(p) \in Nat \ {0}
      /\ \A i \in 1..(Len(p) - 1) : Config!Front(p)[i] = p[i]
  BY PathFront DEF KeyPaths
<1> DEFINE q == Config!Front(p)
<1> HIDE DEF q
<1>2. /\ q \in Seq(ConfigWords) /\ Len(q) \in Nat /\ Len(q) <= Len(p)
      /\ \A i \in 1..Len(q) : q[i] = p[i]
  BY <1>1 DEF q
<1>3. SubSeq(q, 1, Len(q)) = SubSeq(p, 1, Len(q))
  BY <1>1, <1>2
<1> QED
  BY <1>2, <1>3 DEF Config!IsPrefix, q

\* Where a path was set first.
LEMMA SetFirst ==
  ASSUME NEW doc, SoundState(doc), NEW path \in DOMAIN doc.value
  PROVE  Config!SetAt(doc, path) \in Nat /\ Config!SetAt(doc, path) \in DOMAIN doc.paths /\ doc.paths[Config!SetAt(doc, path)] = path
<1> DEFINE S == {n \in DOMAIN doc.paths : doc.paths[n] = path}
<1>1. doc.paths \in Seq(KeyPaths) /\ path \in Config!Range(doc.paths)
  BY DEF SoundState
<1>2. S \in SUBSET Nat /\ S # {}
  BY <1>1 DEF Config!Range
<1>3. PICK n \in S : \A m \in S : n <= m
  <2> HIDE DEF S
  <2> QED
    BY <1>2, LeastExists
<1>4. n \in DOMAIN doc.paths /\ doc.paths[n] = path /\ \A m \in 1..(n - 1) : doc.paths[m] # path
  BY <1>1, <1>3
<1>5. Config!SetAt(doc, path) \in DOMAIN doc.paths /\ doc.paths[Config!SetAt(doc, path)] = path
  BY <1>4 DEF Config!SetAt
<1> QED
  BY <1>1, <1>5

LEMMA ObsoletePaths == Config!Obsolete \subseteq KeyPaths /\ Config!PolicySet \in KeyPaths /\ << "features" >> \in KeyPaths
<1>1. /\ "legacy_experimental_shell" \in ConfigWords /\ "old_sandbox_mode_v0" \in ConfigWords
      /\ "shell_environment_policy" \in ConfigWords /\ "set" \in ConfigWords /\ "features" \in ConfigWords
  BY DEF ConfigWords
<1>2. ASSUME NEW x \in ConfigWords, NEW y \in ConfigWords PROVE << x >> \in KeyPaths /\ << x, y >> \in KeyPaths
  BY DEF KeyPaths
<1> QED
  BY <1>1, <1>2 DEF Config!Obsolete, Config!PolicySet

\* Of two keys at the top, the one that was set first.
LEMMA FlatTop ==
  ASSUME NEW doc, NEW a \in Config!Obsolete, NEW b \in Config!Obsolete, Config!SetAt(doc, a) < Config!SetAt(doc, b), a # b
  PROVE  Config!FlatBefore(doc, a, b)
<1>1. /\ Len(a) = 1 /\ Len(b) = 1 /\ a = << a[1] >> /\ b = << b[1] >> /\ a[1] # b[1]
      /\ DOMAIN a = {1} /\ DOMAIN b = {1} /\ a \in Seq(ConfigWords) /\ b \in Seq(ConfigWords)
  <2>1. /\ Len(a) = 1 /\ Len(b) = 1 /\ a = << a[1] >> /\ b = << b[1] >> /\ a[1] # b[1]
        /\ DOMAIN a = {1} /\ DOMAIN b = {1}
    BY DEF Config!Obsolete
  <2>2. a \in KeyPaths /\ b \in KeyPaths
    BY ObsoletePaths
  <2> QED
    BY <2>1, <2>2 DEF KeyPaths
<1>2. SubSeq(a, 1, 1) = a /\ SubSeq(b, 1, 1) = b
  BY <1>1
<1>3. SubSeq(a, 1, 1 - 1) = SubSeq(b, 1, 1 - 1)
  BY <1>1
<1>4. ~Config!IsPrefix(b, a)
  BY <1>1, <1>2 DEF Config!IsPrefix
<1> QED
  BY <1>1, <1>2, <1>3, <1>4 DEF Config!FlatBefore

LEMMA FirstObsolete ==
  ASSUME NEW doc, SoundState(doc), NEW S, S \subseteq Config!Obsolete \cap DOMAIN doc.value, S # {}
  PROVE  Config!First(doc, S) \in S
<1>1. \E a \in S : \A b \in S \ {a} : Config!FlatBefore(doc, a, b)
  <2>1. PICK x \in S : TRUE
    OBVIOUS
  <2>2. CASE S = {x}
    BY <2>2
  <2>3. CASE S # {x}
    <3>1. PICK y \in S : y # x
      BY <2>3
    <3>2. S = {x, y}
      BY <3>1 DEF Config!Obsolete
    <3>3. Config!SetAt(doc, x) \in Nat /\ Config!SetAt(doc, y) \in Nat /\ Config!SetAt(doc, x) # Config!SetAt(doc, y)
      <4>1. doc.paths[Config!SetAt(doc, x)] = x /\ doc.paths[Config!SetAt(doc, y)] = y
        BY <3>2, SetFirst
      <4> QED
        BY <3>1, <3>2, <4>1, SetFirst
    <3>4. CASE Config!SetAt(doc, x) < Config!SetAt(doc, y)
      BY <3>1, <3>2, <3>4, FlatTop
    <3>5. CASE Config!SetAt(doc, y) < Config!SetAt(doc, x)
      BY <3>1, <3>2, <3>5, FlatTop
    <3> QED
      BY <3>3, <3>4, <3>5
  <2> QED
    BY <2>2, <2>3
<1> QED
  BY <1>1 DEF Config!First

LEMMA SortedIn ==
  ASSUME KeyOrder \in Seq(Config!Range(KeyOrder)), NEW S, S \subseteq Config!Range(KeyOrder), S # {}
  PROVE  Config!SortedFirst(S) \in S
<1> DEFINE I == {n \in DOMAIN KeyOrder : KeyOrder[n] \in S}
<1>1. I \in SUBSET Nat /\ I # {} /\ DOMAIN KeyOrder \subseteq Nat
  BY DEF Config!Range
<1>2. PICK n \in I : \A m \in I : n <= m
  <2> HIDE DEF I
  <2> QED
    BY <1>1, LeastExists
<1>3. n \in DOMAIN KeyOrder /\ KeyOrder[n] \in S /\ \A m \in DOMAIN KeyOrder : KeyOrder[m] \in S => n <= m
  BY <1>2
<1> QED
  BY <1>3 DEF Config!SortedFirst

\* A document without a fault, or with an obsolete key alone: what may be in it.
LEMMA RightTypes ==
  ASSUME NEW doc, SoundState(doc), NEW p \in DOMAIN doc.value, ~Config!WrongType(doc, p)
  PROVE  /\ doc.value[p].type = "table" => p \in {Config!Policy, << "features" >>, Config!PolicySet} \cup Config!Obsolete
         /\ (doc.value[p].type # "table" /\ p \notin Config!Obsolete) =>
              \/ Len(p) = 1 /\ p[1] \in {"model", "model_provider"} /\ doc.value[p].type = "string"
              \/ p = << "notify" >> /\ doc.value[p].type = "boolean"
              \/ Len(p) > 1 /\ p[1] = "features" /\ doc.value[p].type = "boolean"
<1> DEFINE type == doc.value[p].type
<1>1. CASE p \in Config!Obsolete
  BY <1>1
<1>2. CASE p = Config!PolicySet
  BY <1>2 DEF Config!WrongType, Config!PolicySet, Config!Obsolete, Config!Policy
<1>3. CASE p \notin Config!Obsolete /\ p # Config!PolicySet
  <2>1. CASE type = "table" /\ p \in {Config!Policy, << "features" >>}
    BY <2>1
  <2>2. CASE ~(type = "table" /\ p \in {Config!Policy, << "features" >>})
    <3>1. Config!Expected(p) # None /\ type = Config!Expected(p)
      BY <1>3, <2>2 DEF Config!WrongType
    <3>2. CASE p \in {<< "model" >>, << "model_provider" >>}
      <4>1. Len(p) = 1 /\ p[1] \in {"model", "model_provider"}
        BY <3>2
      <4>2. Config!Expected(p) = "string"
        BY <3>2 DEF Config!Expected, Config!PolicySet, Config!Policy
      <4> QED
        BY <1>3, <3>1, <4>1, <4>2
    <3>3. CASE p \notin {<< "model" >>, << "model_provider" >>} /\ p = << "notify" >>
      <4>1. Config!Expected(p) = "boolean"
        BY <3>3 DEF Config!Expected, Config!PolicySet, Config!Policy
      <4> QED
        BY <1>3, <3>1, <3>3, <4>1
    <3>4. CASE p \notin {<< "model" >>, << "model_provider" >>, << "notify" >>} /\ p \in {Config!Policy, << "features" >>}
      <4>1. Config!Expected(p) = "table"
        BY <1>3, <3>4 DEF Config!Expected, Config!PolicySet, Config!Policy
      <4> QED
        BY <2>2, <3>1, <3>4, <4>1
    <3>5. CASE p \notin {<< "model" >>, << "model_provider" >>, << "notify" >>, Config!Policy, << "features" >>}
      <4>1. Len(p) > 1 /\ p[1] = "features"
        BY <1>3, <3>1, <3>5 DEF Config!Expected
      <4>2. Config!Expected(p) = "boolean"
        BY <1>3, <3>5, <4>1 DEF Config!Expected
      <4> QED
        BY <1>3, <3>1, <4>1, <4>2
    <3> QED
      BY <3>2, <3>3, <3>4, <3>5
  <2> QED
    BY <2>1, <2>2
<1> QED
  BY <1>1, <1>2, <1>3

\* What the fault that is reported says of a document.
LEMMA FaultFacts ==
  ASSUME NEW doc, SoundState(doc), NEW f, f = Config!FaultIn(doc)
  PROVE  /\ f.class \in {"syntax", "type", "obsolete", "none"}
         /\ f.class = "none" <=> f = Config!NoFault
         /\ f.class # "syntax" => doc.ok
         /\ f.class \in {"obsolete", "none"} =>
              \A p \in DOMAIN doc.value : ~Config!WrongType(doc, p) /\ (Len(p) = 1 => Config!KnownTop(p))
         /\ f.class = "none" => Config!Obsolete \cap DOMAIN doc.value = {}
         /\ f.class = "obsolete" => f.key \in Config!Obsolete /\ f.keys = {f.key}
<1> DEFINE unknown == {p \in DOMAIN doc.value : Len(p) = 1 /\ ~Config!KnownTop(p)}
           wrong   == {p \in DOMAIN doc.value : Config!WrongType(doc, p)}
           old     == Config!Obsolete \cap DOMAIN doc.value
<1>0. Config!NoFault.class = "none" /\ Config!NoFault = Config!Fault("none", << >>, {})
  BY DEF Config!NoFault, Config!Fault
<1>c. \A class, key, keys : /\ Config!Fault(class, key, keys).class = class
                            /\ Config!Fault(class, key, keys).key = key
                            /\ Config!Fault(class, key, keys).keys = keys
  BY DEF Config!Fault
<1>1. CASE ~doc.ok \/ Config!TooDeep(doc)
  <2>1. f = Config!Fault("syntax", << >>, {})
    BY <1>1 DEF Config!FaultIn
  <2> QED
    BY <1>0, <1>c, <2>1
<1>2. CASE ~(~doc.ok \/ Config!TooDeep(doc)) /\ unknown # {}
  <2>1. f = Config!Fault("type", Config!First(doc, unknown), {Config!First(doc, unknown)})
    BY <1>2 DEF Config!FaultIn
  <2> QED
    BY <1>0, <1>2, <1>c, <2>1
<1>3. CASE ~(~doc.ok \/ Config!TooDeep(doc)) /\ unknown = {} /\ wrong # {}
  <2>1. \E key, keys : f = Config!Fault("type", key, keys)
    BY <1>3 DEF Config!FaultIn
  <2> QED
    BY <1>0, <1>3, <1>c, <2>1
<1>4. CASE ~(~doc.ok \/ Config!TooDeep(doc)) /\ unknown = {} /\ wrong = {} /\ old # {}
  <2>1. f = Config!Fault("obsolete", Config!First(doc, old), {Config!First(doc, old)})
    BY <1>4 DEF Config!FaultIn
  <2>2. Config!First(doc, old) \in Config!Obsolete
    <3> HIDE DEF old
    <3> QED
      BY <1>4, FirstObsolete DEF old
  <2>3. \A p \in DOMAIN doc.value : ~Config!WrongType(doc, p) /\ (Len(p) = 1 => Config!KnownTop(p))
    BY <1>4
  <2>4. f.class = "obsolete" /\ f.key = Config!First(doc, old) /\ f.keys = {Config!First(doc, old)}
    BY <1>c, <2>1
  <2>5. doc.ok /\ f # Config!NoFault
    BY <1>0, <1>4, <2>4
  <2> HIDE DEF old
  <2> QED
    BY <2>2, <2>3, <2>4, <2>5
<1>5. CASE ~(~doc.ok \/ Config!TooDeep(doc)) /\ unknown = {} /\ wrong = {} /\ old = {}
  <2>1. f = Config!NoFault
    BY <1>5 DEF Config!FaultIn
  <2>3. \A p \in DOMAIN doc.value : ~Config!WrongType(doc, p) /\ (Len(p) = 1 => Config!KnownTop(p))
    BY <1>5
  <2> QED
    BY <1>0, <1>5, <2>1, <2>3
<1> QED
  BY <1>1, <1>2, <1>3, <1>4, <1>5

LEMMA ParseSound ==
  ASSUME NEW lines, Config!SoundDocument(lines) PROVE SoundState(Config!Parse(lines))
<1>1. Len(lines) \in 0..Len(lines)
  BY LinesOf
<1> QED
  BY <1>1, ReadingSound DEF Config!Parse

\* What is reported, of which of the two files.
LEMMA ProbeFacts ==
  ASSUME NEW files, Config!SoundFiles(files), NEW probe, probe = Config!Probe(files)
  PROVE  /\ probe.file \in {"primary", "override"}
         /\ probe.fault.class \in {"none", "syntax", "type", "obsolete", "conflict"}
         /\ probe.fault.class # "conflict" => probe.fault = Config!FaultOf(files[probe.file])
         /\ probe.file = "override" => Config!FaultOf(files.primary) = Config!NoFault
         /\ probe.fault.class = "conflict" =>
              /\ probe.file = "override" /\ Config!FaultOf(files.override) = Config!NoFault
              /\ Config!Conflicts(files) # {} /\ probe.fault.keys = Config!Conflicts(files)
              /\ probe.fault.key = Config!SortedFirst(Config!Conflicts(files))
         /\ probe.fault = Config!NoFault => /\ Config!Conflicts(files) = {} /\ Config!FaultOf(files.primary) = Config!NoFault
                                     /\ Config!FaultOf(files.override) = Config!NoFault
<1> DEFINE P == Config!FaultOf(files.primary)
           O == Config!FaultOf(files.override)
<1>1. /\ P.class \in {"none", "syntax", "type", "obsolete"} /\ (P.class = "none" <=> P = Config!NoFault)
      /\ O.class \in {"none", "syntax", "type", "obsolete"} /\ (O.class = "none" <=> O = Config!NoFault)
  <2>1. Config!NoFault.class = "none"
    BY DEF Config!NoFault, Config!Fault
  <2>2. ASSUME NEW lines, lines = None \/ Config!SoundDocument(lines)
        PROVE  /\ Config!FaultOf(lines).class \in {"none", "syntax", "type", "obsolete"}
               /\ Config!FaultOf(lines).class = "none" <=> Config!FaultOf(lines) = Config!NoFault
    <3>1. CASE lines = None
      BY <2>1, <3>1 DEF Config!FaultOf
    <3>2. CASE lines # None
      <4>1. SoundState(Config!Parse(lines)) /\ Config!FaultOf(lines) = Config!FaultIn(Config!Parse(lines))
        BY <2>2, <3>2, ParseSound DEF Config!FaultOf, Config!Validate
      <4> QED
        BY <4>1, FaultFacts
    <3> QED
      BY <3>1, <3>2
  <2> HIDE DEF P, O
  <2> QED
    BY <2>2 DEF Config!SoundFiles, P, O
<1>2. /\ Config!Fault("conflict", Config!SortedFirst(Config!Conflicts(files)), Config!Conflicts(files)).class = "conflict"
      /\ Config!Fault("conflict", Config!SortedFirst(Config!Conflicts(files)), Config!Conflicts(files)).key = Config!SortedFirst(Config!Conflicts(files))
      /\ Config!Fault("conflict", Config!SortedFirst(Config!Conflicts(files)), Config!Conflicts(files)).keys = Config!Conflicts(files)
  BY DEF Config!Fault
<1>3. probe = Config!Reported(P, O, Config!Conflicts(files)) /\ Config!NoFault.class = "none"
  BY DEF Config!Probe, Config!NoFault, Config!Fault
<1> HIDE DEF P, O
<1>4. CASE P # Config!NoFault
  <2>1. probe.file = "primary" /\ probe.fault = P
    BY <1>3, <1>4 DEF Config!Reported
  <2> QED
    BY <1>1, <1>4, <2>1 DEF P, Config!SoundFiles
<1>5. CASE P = Config!NoFault /\ O = Config!NoFault /\ Config!Conflicts(files) # {}
  <2>1. probe.file = "override" /\ probe.fault = Config!Fault("conflict", Config!SortedFirst(Config!Conflicts(files)), Config!Conflicts(files))
    BY <1>3, <1>5 DEF Config!Reported
  <2> QED
    BY <1>2, <1>3, <1>5, <2>1 DEF P, O
<1>6. CASE P = Config!NoFault /\ ~(O = Config!NoFault /\ Config!Conflicts(files) # {})
  <2>1. probe.file = "override" /\ probe.fault = O
    BY <1>3, <1>6 DEF Config!Reported
  <2> QED
    BY <1>1, <1>3, <1>6, <2>1 DEF P, O, Config!SoundFiles
<1> QED
  BY <1>4, <1>5, <1>6

\* The keys on which two files disagree are scalars of both.
LEMMA ConflictFacts ==
  ASSUME NEW files, Config!SoundFiles(files), NEW key \in Config!Conflicts(files)
  PROVE  /\ files.primary # None /\ files.override # None /\ key \in KeyPaths
         /\ Scalar(Config!Parse(files.primary), key) /\ Scalar(Config!Parse(files.override), key)
         /\ Config!Parse(files.primary).value[key] # Config!Parse(files.override).value[key]
<1>1. files.primary # None /\ files.override # None
  BY DEF Config!Conflicts
<1>2. key \in Config!Differing(Config!Parse(files.primary).value, Config!Parse(files.override).value)
  BY <1>1 DEF Config!Conflicts
<1>3. SoundState(Config!Parse(files.primary))
  BY <1>1, ParseSound DEF Config!SoundFiles
<1>4. DOMAIN Config!Parse(files.primary).value \subseteq KeyPaths
  BY <1>3 DEF SoundState, Config!Range
<1> QED
  BY <1>1, <1>2, <1>4 DEF Config!Differing, Scalar

LEMMA PlanFacts ==
  ASSUME KeyOrder \in Seq(Config!Range(KeyOrder)), NEW files, Config!SoundFiles(files),
         NEW file \in {"primary", "override"},
         NEW plan, plan = Config!LivePlan(files[file], Config!Probe(files)), plan # None
  PROVE  PlanSays(files, files[file], Config!Probe(files), plan)
<1> DEFINE probe == Config!Probe(files)
           lines == files[file]
           fault == probe.fault
<1>n. Config!NoFault.class = "none"
  BY DEF Config!NoFault, Config!Fault
<1>1. lines # None /\ fault.class \in {"type", "obsolete", "conflict"}
  BY DEF Config!LivePlan
<1>2. CASE fault.class = "type"
  <2>1. /\ Config!PolicySet \in fault.keys /\ Config!SetPolicyEmpty(lines) # None
        /\ Config!Validate(Config!SetPolicyEmpty(lines)) = Config!NoFault
        /\ plan = Config!Plan("wrong-type-set", "primary", Config!PolicySet, Config!SetPolicyEmpty(lines))
    BY <1>1, <1>2 DEF Config!LivePlan
  <2>2. Config!SetPolicyEmpty(lines) = Config!Edited(lines, Config!PolicySet, TRUE)
    BY <1>2 DEF Config!SetPolicyEmpty
  <2> HIDE DEF lines, fault, probe
  <2>3. plan.file = "primary" /\ plan.key = Config!PolicySet /\ plan.next = Config!SetPolicyEmpty(lines)
    BY <2>1 DEF Config!Plan
  <2> QED
    BY <1>1, <1>2, <1>n, <2>1, <2>2, <2>3, ObsoletePaths DEF PlanSays, lines, fault, probe
<1>3. CASE fault.class = "obsolete"
  <2>1. /\ Config!RemoveKey(lines, fault.key) # None
        /\ plan = Config!Plan("obsolete-key-remove", probe.file, fault.key, Config!RemoveKey(lines, fault.key))
    BY <1>1, <1>3 DEF Config!LivePlan
  <2>2. Config!RemoveKey(lines, fault.key) = Config!Edited(lines, fault.key, FALSE)
    BY <1>3, <2>1 DEF Config!RemoveKey
  <2>3. fault.key \in Config!Obsolete /\ fault.keys = {fault.key}
    <3>1. fault = Config!FaultOf(files[probe.file]) /\ probe.file \in {"primary", "override"}
      BY <1>3, ProbeFacts
    <3>2. files[probe.file] # None
      BY <1>3, <1>n, <3>1 DEF Config!FaultOf
    <3>3. SoundState(Config!Parse(files[probe.file])) /\ fault = Config!FaultIn(Config!Parse(files[probe.file]))
      BY <3>1, <3>2, ParseSound DEF Config!SoundFiles, Config!FaultOf, Config!Validate
    <3> QED
      BY <1>3, <3>3, FaultFacts
  <2> HIDE DEF lines, fault, probe
  <2>4. plan.file = probe.file /\ plan.key = fault.key /\ plan.next = Config!RemoveKey(lines, fault.key)
    BY <2>1 DEF Config!Plan
  <2> QED
    BY <1>1, <1>3, <1>n, <2>1, <2>2, <2>3, <2>4, ObsoletePaths DEF PlanSays, lines, fault, probe
<1>4. CASE fault.class = "conflict"
  <2>1. /\ Config!RemoveKey(lines, fault.key) # None
        /\ plan = Config!Plan("source-conflict-remove", "override", fault.key, Config!RemoveKey(lines, fault.key))
    BY <1>1, <1>4 DEF Config!LivePlan
  <2>2. Config!RemoveKey(lines, fault.key) = Config!Edited(lines, fault.key, FALSE)
    BY <1>4, <2>1 DEF Config!RemoveKey
  <2>3. /\ fault.key \in Config!Conflicts(files) /\ fault.keys = Config!Conflicts(files)
        /\ probe.file = "override" /\ fault.key \in KeyPaths
    <3>1. /\ Config!Conflicts(files) # {} /\ fault.keys = Config!Conflicts(files) /\ probe.file = "override"
          /\ fault.key = Config!SortedFirst(Config!Conflicts(files)) /\ Config!Conflicts(files) \subseteq Config!Range(KeyOrder)
      BY <1>4, ProbeFacts DEF Config!SoundFiles
    <3>2. fault.key \in Config!Conflicts(files)
      <4> HIDE DEF fault
      <4> QED
        BY <3>1, SortedIn
    <3> QED
      BY <3>1, <3>2, ConflictFacts
  <2> HIDE DEF lines, fault, probe
  <2>4. plan.file = "override" /\ plan.key = fault.key /\ plan.next = Config!RemoveKey(lines, fault.key)
    BY <2>1 DEF Config!Plan
  <2> QED
    BY <1>1, <1>4, <1>n, <2>1, <2>2, <2>3, <2>4 DEF PlanSays, lines, fault, probe
<1> QED
  BY <1>1, <1>2, <1>3, <1>4

\* An edit takes out what it names and nothing else, where the document is of
\* the right types before a removal or after the set was emptied.
LEMMA TakenOut ==
  ASSUME NEW P, SoundState(P), NEW Q, SoundState(Q), NEW key \in KeyPaths, NEW emptied \in BOOLEAN,
         EditedAs(P, Q, key, emptied),
         \/ ~emptied /\ (\A p \in DOMAIN P.value : ~Config!WrongType(P, p))
         \/ emptied /\ key = Config!PolicySet /\ (\A p \in DOMAIN Q.value : ~Config!WrongType(Q, p))
  PROVE  /\ \A p : Scalar(Q, p) => Scalar(P, p) /\ Q.value[p] = P.value[p]
         /\ \A p : Scalar(P, p) => Config!IsPrefix(key, p) \/ Config!IsSuffix(key, p) \/ Scalar(Q, p)
<1>0. Config!Table.type = "table"
  BY DEF Config!Table
<1>1. ASSUME NEW p, Scalar(Q, p) PROVE Scalar(P, p) /\ Q.value[p] = P.value[p]
  BY <1>0, <1>1 DEF Scalar, EditedAs
<1>2. ASSUME NEW p, Scalar(P, p), ~Config!IsSuffix(key, p), ~Scalar(Q, p) PROVE Config!IsPrefix(key, p)
  <2>1. p \notin DOMAIN Q.value
    BY <1>2 DEF Scalar, EditedAs
  <2>2. /\ Config!IsSuffix(key, Config!Front(p)) /\ Len(p) > 1 /\ (emptied => Config!Front(p) \in DOMAIN Q.value)
        /\ p \in DOMAIN P.value /\ P.value[p].type # "table"
    BY <1>2, <2>1 DEF Scalar, EditedAs
  <2>3. p \in KeyPaths /\ Config!Front(p) \in KeyPaths /\ Len(Config!Front(p)) = Len(p) - 1
    <3>1. p \in KeyPaths
      BY <2>2 DEF SoundState, Config!Range
    <3>2. Config!Front(p) \in Seq(ConfigWords) /\ Len(Config!Front(p)) = Len(p) - 1 /\ Len(p) \in Nat
      BY <3>1, PathFront
    <3>3. Config!Front(p) # << >>
      BY <2>2, <3>2
    <3> QED
      BY <3>1, <3>2, <3>3 DEF KeyPaths
  <2>4. Config!Front(p) \in DOMAIN P.value /\ P.value[Config!Front(p)].type = "table"
    BY <2>2 DEF SoundState
  <2>5. Len(key) <= Len(Config!Front(p)) /\ (Len(key) = Len(Config!Front(p)) => key = Config!Front(p))
    BY <2>2, <2>3, SuffixWhole
  <2>6. CASE ~emptied
    <3>1. \A q \in DOMAIN P.value : ~Config!WrongType(P, q)
      BY <2>6
    <3>2. Config!Front(p) \in {Config!Policy, << "features" >>, Config!PolicySet} \cup Config!Obsolete
      BY <2>4, <3>1, RightTypes
    <3>3. p[1] = "features"
      <4>1. p \notin Config!Obsolete /\ p # << "notify" >> /\ Len(p) # 1
        <5>1. Len(p) \in Nat
          BY <2>3, PathFront
        <5>2. Len(<< "notify" >>) = 1 /\ \A q \in Config!Obsolete : Len(q) = 1
          BY DEF Config!Obsolete
        <5>3. Len(p) > 1
          BY <2>2
        <5>4. Len(p) # 1
          <6> DEFINE n == Len(p)
          <6> HIDE DEF n
          <6>1. n \in Nat /\ n > 1
            BY <5>1, <5>3 DEF n
          <6>2. n # 1
            BY <6>1
          <6> QED
            BY <6>2 DEF n
        <5> QED
          BY <5>2, <5>4
      <4> QED
        BY <2>2, <3>1, <4>1, RightTypes
    <3>4. Config!Front(p)[1] = "features"
      BY <2>2, <2>3, <3>3, PathFront
    <3>5. Config!Front(p) = << "features" >>
      BY <3>2, <3>4 DEF Config!Policy, Config!PolicySet, Config!Obsolete
    <3>6. Len(key) = 1
      BY <2>5, <3>5 DEF KeyPaths
    <3> QED
      BY <2>3, <2>5, <3>5, <3>6, FrontPrefix
  <2>7. CASE emptied
    <3>1. key = Config!PolicySet /\ \A q \in DOMAIN Q.value : ~Config!WrongType(Q, q)
      BY <2>7
    <3>2. Config!Front(p) \in DOMAIN Q.value /\ Q.value[Config!Front(p)].type = "table"
      <4>1. Config!Front(p) \in DOMAIN Q.value
        BY <2>2, <2>7
      <4> QED
        BY <1>0, <2>4, <4>1 DEF EditedAs
    <3>3. Config!Front(p) \in {Config!Policy, << "features" >>, Config!PolicySet} \cup Config!Obsolete
      BY <3>1, <3>2, RightTypes
    <3>4. Config!Front(p) = Config!PolicySet
      BY <2>5, <3>1, <3>3 DEF Config!Policy, Config!PolicySet, Config!Obsolete
    <3> QED
      BY <2>3, <3>1, <3>4, FrontPrefix
  <2> QED
    BY <2>6, <2>7
<1> QED
  BY <1>1, <1>2

LEMMA ScalarsOf ==
  ASSUME NEW lines, lines # None
  PROVE  /\ \A p : p \in DOMAIN Config!Scalars(lines) <=> Scalar(Config!Parse(lines), p)
         /\ \A p : Scalar(Config!Parse(lines), p) => Config!Scalars(lines)[p] = Config!Parse(lines).value[p]
BY DEF Config!Scalars, Scalar

LEMMA TakesNothingOut ==
  ASSUME NEW values, NEW key PROVE Config!TakesOut(values, values, key, FALSE)
BY DEF Config!TakesOut

\* The document a repair has made: what went is what the plan named.
LEMMA TakesOutExactly ==
  ASSUME NEW lines, lines # None, Config!SoundDocument(lines), NEW next, next # None,
         NEW key \in KeyPaths, NEW emptied \in BOOLEAN, next = Config!Edited(lines, key, emptied),
         Config!Parse(lines).ok, Config!Parse(next).ok, ~Scalar(Config!Parse(next), key),
         \/ ~emptied /\ (\A p \in DOMAIN Config!Parse(lines).value : ~Config!WrongType(Config!Parse(lines), p))
         \/ emptied /\ key = Config!PolicySet /\ (\A p \in DOMAIN Config!Parse(next).value : ~Config!WrongType(Config!Parse(next), p))
  PROVE  Config!TakesOut(Config!Scalars(lines), Config!Scalars(next), key, TRUE)
<1> DEFINE P == Config!Parse(lines)
           Q == Config!Parse(next)
           before == Config!Scalars(lines)
           after == Config!Scalars(next)
<1>1. Config!SoundDocument(next) /\ EditedAs(P, Q, key, emptied)
  BY EditedSound
<1>2. SoundState(P) /\ SoundState(Q)
  BY <1>1, ParseSound
<1>3. /\ \A p : Scalar(Q, p) => Scalar(P, p) /\ Q.value[p] = P.value[p]
      /\ \A p : Scalar(P, p) => Config!IsPrefix(key, p) \/ Config!IsSuffix(key, p) \/ Scalar(Q, p)
  <2> HIDE DEF P, Q
  <2>1. \/ ~emptied /\ (\A p \in DOMAIN P.value : ~Config!WrongType(P, p))
        \/ emptied /\ key = Config!PolicySet /\ (\A p \in DOMAIN Q.value : ~Config!WrongType(Q, p))
    BY DEF P, Q
  <2> QED
    BY <1>1, <1>2, <2>1, TakenOut
<1>4. /\ \A p : p \in DOMAIN before <=> Scalar(P, p)
      /\ \A p : Scalar(P, p) => before[p] = P.value[p]
      /\ \A p : p \in DOMAIN after <=> Scalar(Q, p)
      /\ \A p : Scalar(Q, p) => after[p] = Q.value[p]
  BY ScalarsOf
<1>5. ~Scalar(Q, key)
  OBVIOUS
<1> HIDE DEF P, Q, before, after
<1>6. DOMAIN after \subseteq DOMAIN before /\ key \notin DOMAIN after
  BY <1>3, <1>4, <1>5
<1>7. ASSUME NEW p \in DOMAIN before, ~(Config!IsPrefix(key, p) \/ Config!IsSuffix(key, p))
      PROVE  p \in DOMAIN after /\ after[p] = before[p]
  BY <1>3, <1>4, <1>7
<1>8. Config!TakesOut(before, after, key, TRUE)
  BY <1>6, <1>7 DEF Config!TakesOut
<1> QED
  BY <1>8 DEF before, after

LEMMA ConfigWrittenIs ==
  ASSUME NEW files, Config!SoundFiles(files), NEW file \in {"primary", "override"}, NEW lines
  PROVE  LET w == Config!Write(files, file, lines)
         IN  /\ w[file] = lines /\ w.managed = files.managed
             /\ \A other \in {"primary", "override"} : other # file => w[other] = files[other]
             /\ w = [primary |-> w.primary, override |-> w.override, managed |-> w.managed]
<1> DEFINE w == Config!Write(files, file, lines)
<1>1. DOMAIN files = {"primary", "override", "managed"}
  <2>1. files = [primary |-> files.primary, override |-> files.override, managed |-> files.managed]
    BY DEF Config!SoundFiles
  <2> DEFINE a == files.primary
             b == files.override
             c == files.managed
  <2> HIDE DEF a, b, c
  <2>2. files = [primary |-> a, override |-> b, managed |-> c]
    BY <2>1 DEF a, b, c
  <2> QED
    BY <2>2
<1>2. w = [x \in DOMAIN files |-> IF x = file THEN lines ELSE files[x]]
  BY DEF Config!Write
<1> HIDE DEF w
<1>3. /\ w[file] = lines /\ w.managed = files.managed
      /\ \A other \in {"primary", "override"} : other # file => w[other] = files[other]
      /\ DOMAIN w = {"primary", "override", "managed"}
  BY <1>1, <1>2
<1>4. w = [primary |-> w.primary, override |-> w.override, managed |-> w.managed]
  <2> DEFINE r == [primary |-> w.primary, override |-> w.override, managed |-> w.managed]
  <2>1. w = [x \in {"primary", "override", "managed"} |-> w[x]]
    BY <1>1, <1>2
  <2>2. DOMAIN r = {"primary", "override", "managed"} /\ r = [x \in DOMAIN r |-> r[x]]
    OBVIOUS
  <2>3. r.primary = w.primary /\ r.override = w.override /\ r.managed = w.managed
    OBVIOUS
  <2>4. \A x \in {"primary", "override", "managed"} : r[x] = w[x]
    BY <2>3
  <2> HIDE DEF r
  <2> QED
    BY <2>1, <2>2, <2>4 DEF r
<1> QED
  BY <1>3, <1>4 DEF w

LEMMA FaultlessIs ==
  ASSUME NEW lines, lines # None, Config!SoundDocument(lines), Config!FaultOf(lines) = Config!NoFault
  PROVE  /\ Config!Parse(lines).ok /\ Config!Obsolete \cap DOMAIN Config!Parse(lines).value = {}
         /\ \A p \in DOMAIN Config!Parse(lines).value : ~Config!WrongType(Config!Parse(lines), p)
<1>1. SoundState(Config!Parse(lines)) /\ Config!FaultIn(Config!Parse(lines)) = Config!NoFault
  BY ParseSound DEF Config!FaultOf, Config!Validate
<1>2. Config!FaultIn(Config!Parse(lines)).class = "none"
  BY <1>1 DEF Config!NoFault, Config!Fault
<1> QED
  BY <1>1, <1>2, FaultFacts

\* A repair that passes its verification is exact.
LEMMA RepairExactly ==
  ASSUME KeyOrder \in Seq(Config!Range(KeyOrder)), NEW files, Config!SoundFiles(files),
         NEW plan, NEW file \in {"primary", "override"}, plan = Config!LivePlan(files[file], Config!Probe(files)),
         plan # None, plan.file = file,
         NEW written, written = Config!Write(files, file, plan.next), Config!Probe(written).fault = Config!NoFault
  PROVE  /\ Config!TakesOut(Config!Scalars(files[file]), Config!Scalars(written[file]), plan.key, TRUE)
         /\ Config!SoundFiles(written)
<1> DEFINE probe == Config!Probe(files)
           lines == files[file]
           next == plan.next
<1>p. probe = Config!Probe(files) /\ lines = files[file] /\ next = plan.next
  OBVIOUS
<1>1. /\ lines # None /\ next # None /\ plan.key \in KeyPaths
      /\ \/ /\ probe.fault.class = "type" /\ plan.file = "primary" /\ plan.key = Config!PolicySet
            /\ Config!Validate(next) = Config!NoFault /\ next = Config!Edited(lines, plan.key, TRUE)
         \/ /\ probe.fault.class = "obsolete" /\ plan.file = probe.file
            /\ plan.key = probe.fault.key /\ plan.key \in Config!Obsolete
            /\ next = Config!Edited(lines, plan.key, FALSE)
         \/ /\ probe.fault.class = "conflict" /\ plan.file = "override" /\ probe.file = "override"
            /\ plan.key = probe.fault.key /\ plan.key \in Config!Conflicts(files)
            /\ next = Config!Edited(lines, plan.key, FALSE)
  <2>1. PlanSays(files, lines, probe, plan)
    BY PlanFacts
  <2> HIDE DEF probe, lines
  <2> QED
    BY <2>1 DEF PlanSays
<1>0. probe = Config!Probe(files) /\ Config!NoFault.class = "none" /\ Config!SoundDocument(lines)
  BY <1>1 DEF Config!NoFault, Config!Fault, Config!SoundFiles
<1>2. written[file] = next /\ written.managed = files.managed
      /\ (\A other \in {"primary", "override"} : other # file => written[other] = files[other])
      /\ written = [primary |-> written.primary, override |-> written.override, managed |-> written.managed]
  BY ConfigWrittenIs
<1>3. Config!SoundDocument(next)
  <2> HIDE DEF lines, next
  <2> QED
    BY <1>0, <1>1, EditedSound
<1>4. Config!FaultOf(written.primary) = Config!NoFault /\ Config!FaultOf(written.override) = Config!NoFault /\ Config!Conflicts(written) = {}
  <2>1. Config!Probe(written).fault = Config!Reported(Config!FaultOf(written.primary), Config!FaultOf(written.override), Config!Conflicts(written)).fault
    BY DEF Config!Probe
  <2>2. Config!Fault("conflict", Config!SortedFirst(Config!Conflicts(written)), Config!Conflicts(written)) # Config!NoFault
    BY DEF Config!Fault, Config!NoFault
  <2> QED
    BY <2>1, <2>2 DEF Config!Reported
<1>5. Config!SoundFiles(written)
  <2>1. \A other \in {"primary", "override"} : written[other] = None \/ Config!SoundDocument(written[other])
    BY <1>2, <1>3 DEF Config!SoundFiles
  <2> QED
    BY <1>2, <1>4, <2>1 DEF Config!SoundFiles
<1>6. Config!FaultOf(next) = Config!NoFault
  BY <1>2, <1>4
<1>7. /\ Config!Parse(next).ok /\ Config!Obsolete \cap DOMAIN Config!Parse(next).value = {}
      /\ \A p \in DOMAIN Config!Parse(next).value : ~Config!WrongType(Config!Parse(next), p)
  <2> HIDE DEF next
  <2> QED
    BY <1>1, <1>3, <1>6, FaultlessIs
<1>8. CASE probe.fault.class = "type"
  <2>1. next = Config!Edited(lines, Config!PolicySet, TRUE) /\ plan.key = Config!PolicySet /\ file = "primary"
    BY <1>1, <1>8
  <2>2. Config!Parse(lines).ok
    <3>1. Config!FaultOf(lines).class # "syntax"
      <4>1. CASE probe.file = "primary"
        BY <1>0, <1>8, <2>1, <4>1, ProbeFacts
      <4>2. CASE probe.file = "override"
        BY <1>0, <2>1, <4>2, ProbeFacts
      <4> QED
        BY <1>0, <4>1, <4>2, ProbeFacts
    <3>2. Config!FaultOf(lines) = Config!FaultIn(Config!Parse(lines)) /\ SoundState(Config!Parse(lines))
      BY <1>0, <1>1, ParseSound DEF Config!FaultOf, Config!Validate
    <3> QED
      BY <3>1, <3>2, FaultFacts
  <2>3. ~Scalar(Config!Parse(next), Config!PolicySet)
    BY <1>7 DEF Scalar, Config!WrongType, Config!Obsolete, Config!PolicySet, Config!Policy
  <2>4. Config!TakesOut(Config!Scalars(lines), Config!Scalars(next), Config!PolicySet, TRUE)
    <3> HIDE DEF lines, next
    <3> QED
      BY <1>0, <1>1, <1>7, <2>1, <2>2, <2>3, TakesOutExactly
  <2> QED
    BY <1>2, <1>5, <2>1, <2>4
<1>9. CASE probe.fault.class = "obsolete"
  <2>1. next = Config!Edited(lines, plan.key, FALSE) /\ plan.key \in Config!Obsolete /\ probe.file = file
    BY <1>1, <1>9
  <2>2. Config!Parse(lines).ok /\ \A p \in DOMAIN Config!Parse(lines).value : ~Config!WrongType(Config!Parse(lines), p)
    <3>1. Config!FaultOf(lines) = probe.fault
      BY <1>0, <1>9, <2>1, ProbeFacts
    <3>2. Config!FaultOf(lines) = Config!FaultIn(Config!Parse(lines)) /\ SoundState(Config!Parse(lines))
      BY <1>0, <1>1, ParseSound DEF Config!FaultOf, Config!Validate
    <3> QED
      BY <1>9, <3>1, <3>2, FaultFacts
  <2>3. ~Scalar(Config!Parse(next), plan.key)
    BY <1>7, <2>1 DEF Scalar
  <2>4. Config!TakesOut(Config!Scalars(lines), Config!Scalars(next), plan.key, TRUE)
    <3> HIDE DEF lines, next
    <3> QED
      BY <1>0, <1>1, <1>7, <2>1, <2>2, <2>3, TakesOutExactly
  <2> QED
    BY <1>2, <1>5, <2>4
<1>10. CASE probe.fault.class = "conflict"
  <2>1. next = Config!Edited(lines, plan.key, FALSE) /\ plan.key \in Config!Conflicts(files) /\ file = "override"
    BY <1>1, <1>10
  <2>2. Config!Parse(lines).ok /\ \A p \in DOMAIN Config!Parse(lines).value : ~Config!WrongType(Config!Parse(lines), p)
    <3>1. Config!FaultOf(lines) = Config!NoFault
      BY <1>0, <1>10, <2>1, ProbeFacts
    <3> HIDE DEF lines
    <3> QED
      BY <1>0, <1>1, <3>1, FaultlessIs
  <2>3. ~Scalar(Config!Parse(next), plan.key)
    <3> SUFFICES ASSUME Scalar(Config!Parse(next), plan.key) PROVE FALSE
      OBVIOUS
    <3>1. EditedAs(Config!Parse(lines), Config!Parse(next), plan.key, FALSE)
      <4> HIDE DEF lines, next
      <4> QED
        BY <1>0, <1>1, <1>7, <2>1, <2>2, EditedSound
    <3>2. plan.key \in DOMAIN Config!Parse(next).value /\ Config!Parse(next).value[plan.key] = Config!Parse(lines).value[plan.key]
      BY <3>1 DEF EditedAs, Scalar
    <3>3. /\ files.primary # None /\ Scalar(Config!Parse(files.primary), plan.key)
          /\ Config!Parse(files.primary).value[plan.key] # Config!Parse(lines).value[plan.key]
      BY <2>1, ConflictFacts
    <3>4. written.primary = files.primary /\ written.override = next
      BY <1>2, <2>1
    <3>5. plan.key \in Config!Differing(Config!Parse(written.primary).value, Config!Parse(written.override).value)
      BY <3>2, <3>3, <3>4 DEF Config!Differing, Scalar
    <3> QED
      BY <1>1, <1>4, <3>3, <3>4, <3>5 DEF Config!Conflicts
  <2>4. Config!TakesOut(Config!Scalars(lines), Config!Scalars(next), plan.key, TRUE)
    <3> HIDE DEF lines, next
    <3> QED
      BY <1>0, <1>1, <1>7, <2>1, <2>2, <2>3, TakesOutExactly
  <2> QED
    BY <1>2, <1>5, <2>4
<1> QED
  BY <1>1, <1>8, <1>9, <1>10

LEMMA NoResult ==
  ASSUME result = None PROVE SoundResult
BY DEF SoundResult, Config!RepairByName, Config!ResolvedStarts, Config!CapsuleIsBound, Config!Resolved, Config!Applied

LEMMA NothingApplied ==
  ASSUME result.op # "apply", result.after = result.before PROVE SoundResult
BY DEF SoundResult, Config!RepairByName, Config!ResolvedStarts, Config!CapsuleIsBound, Config!Resolved, Config!Applied

LEMMA ConfigInit == ASSUME Config!SoundRepairs, Config!Init PROVE ConfigInv
<1>1. request \in ConfigRequests /\ Config!SoundFiles(request.files) /\ result = None
  BY DEF Config!SoundRepairs, Config!Init
<1>2. run = [files |-> request.files, capsules |-> << >>, consumed |-> None, moved |-> FALSE]
  BY DEF Config!Init
<1>3. /\ run = [files |-> run.files, capsules |-> run.capsules, consumed |-> run.consumed, moved |-> run.moved]
      /\ run.files = request.files /\ run.capsules = << >> /\ run.moved = FALSE
  BY <1>2
<1>4. Len(<< >>) = 0 /\ DOMAIN << >> = 1..0 /\ << >> \in Seq(Config!Range(<< >>))
  OBVIOUS
<1>5. SoundRun(run)
  <2>1. /\ Len(run.capsules) = 0 /\ DOMAIN run.capsules = 1..0
        /\ run.capsules \in Seq(Config!Range(run.capsules))
    BY <1>3, <1>4
  <2>2. 0 \in Nat /\ ~(0 > 0) /\ 1..0 = {}
    OBVIOUS
  <2>3. Config!SoundFiles(run.files) /\ run.moved \in BOOLEAN
    BY <1>1, <1>3
  <2> QED
    BY <1>3, <2>1, <2>2, <2>3 DEF SoundRun
<1> QED
  BY <1>1, <1>5, NoResult DEF ConfigInv

LEMMA ConfigMove == ASSUME Config!SoundRepairs, ConfigInv, Config!Move PROVE ConfigInv'
<1>1. PICK files \in request.later : run' = [run EXCEPT !.files = files, !.moved = TRUE]
  BY DEF Config!Move
<1>2. Config!SoundFiles(files) /\ request' = request /\ result' = None
  BY DEF Config!SoundRepairs, ConfigInv, Config!Move
<1>3. SoundRun(run)
  BY DEF ConfigInv
<1>4. /\ run' = [files |-> run'.files, capsules |-> run'.capsules, consumed |-> run'.consumed, moved |-> run'.moved]
      /\ run'.files = files /\ run'.capsules = run.capsules /\ run'.moved = TRUE
  BY <1>1, <1>3 DEF SoundRun
<1>5. SoundRun(run')
  BY <1>2, <1>3, <1>4 DEF SoundRun
<1>6. SoundResult'
  BY <1>2 DEF SoundResult, Config!RepairByName, Config!ResolvedStarts, Config!CapsuleIsBound, Config!Resolved, Config!Applied
<1> QED
  BY <1>2, <1>5, <1>6 DEF ConfigInv

LEMMA AppendOne ==
  ASSUME NEW s, s \in Seq(Config!Range(s)), NEW x
  PROVE  LET t == Append(s, x)
         IN  /\ t \in Seq(Config!Range(t)) /\ Len(t) = Len(s) + 1 /\ DOMAIN t = 1..Len(t)
             /\ t[Len(s) + 1] = x /\ \A n \in 1..Len(s) : t[n] = s[n]
<1> DEFINE S == Config!Range(s) \cup {x}
           t == Append(s, x)
<1>1. s \in Seq(S) /\ x \in S
  <2>1. ASSUME NEW W, NEW V, W \subseteq V, NEW q \in Seq(W) PROVE q \in Seq(V)
    BY <2>1
  <2>2. Config!Range(s) \subseteq S
    OBVIOUS
  <2> HIDE DEF S
  <2> QED
    BY <2>1, <2>2 DEF S
<1> HIDE DEF S
<1>2. /\ t \in Seq(S) /\ Len(t) = Len(s) + 1 /\ DOMAIN t = 1..Len(t)
      /\ t[Len(s) + 1] = x /\ \A n \in 1..Len(s) : t[n] = s[n]
  BY <1>1
<1> HIDE DEF t
<1>3. t \in Seq(Config!Range(t))
  BY <1>2 DEF Config!Range
<1> QED
  BY <1>2, <1>3 DEF t

LEMMA ConfigPreview == ASSUME Config!SoundRepairs, ConfigInv, Config!Preview PROVE ConfigInv'
<1> DEFINE capsule == Config!Capsule(Config!Probe(run.files))
<1>0. SoundRun(run) /\ request \in ConfigRequests /\ request' = request
  BY DEF ConfigInv, Config!Preview
<1>1. CASE run.files.managed \/ capsule.plan = None
  <2>1. run' = run
    BY <1>1 DEF Config!Preview
  <2>2. \E code : result' = Config!Result("preview", code, None, run.files)
    BY <1>1 DEF Config!Preview
  <2>3. result'.op = "preview" /\ result'.after = result'.before
    BY <2>2 DEF Config!Result
  <2>4. SoundResult'
    BY <2>3 DEF SoundResult, Config!RepairByName, Config!ResolvedStarts, Config!CapsuleIsBound, Config!Resolved, Config!Applied
  <2> QED
    BY <1>0, <2>1, <2>4 DEF ConfigInv
<1>2. CASE ~(run.files.managed \/ capsule.plan = None)
  <2>1. /\ run' = [run EXCEPT !.capsules = Append(@, capsule), !.moved = FALSE]
        /\ result' = Config!Result("preview", "REPAIR_PREVIEWED", capsule, run.files)
    BY <1>2 DEF Config!Preview
  <2>2. result'.op = "preview" /\ result'.after = result'.before
    BY <2>1 DEF Config!Result
  <2>3. SoundResult'
    BY <2>2 DEF SoundResult, Config!RepairByName, Config!ResolvedStarts, Config!CapsuleIsBound, Config!Resolved, Config!Applied
  <2>4. /\ capsule.number = Len(run.capsules) + 1 /\ capsule.reported = Config!Probe(run.files)
        /\ capsule.original = run.files[capsule.reported.file]
        /\ capsule.plan = Config!LivePlan(capsule.original, capsule.reported) /\ capsule.plan # None
    BY <1>2 DEF Config!Capsule
  <2>5. capsule.reported.file \in {"primary", "override"}
    BY <1>0, <2>4, ProbeFacts DEF SoundRun
  <2>6. capsule.plan.file \in {"primary", "override"}
    <3> HIDE DEF capsule
    <3>1. PlanSays(run.files, run.files[capsule.reported.file], Config!Probe(run.files), capsule.plan)
      BY <1>0, <2>4, <2>5, PlanFacts DEF SoundRun, Config!SoundRepairs
    <3> QED
      BY <2>4, <2>5, <3>1 DEF PlanSays
  <2> HIDE DEF capsule
  <2>7. /\ run' = [files |-> run'.files, capsules |-> run'.capsules, consumed |-> run'.consumed, moved |-> run'.moved]
        /\ run'.files = run.files /\ run'.capsules = Append(run.capsules, capsule) /\ run'.moved = FALSE
    BY <1>0, <2>1 DEF SoundRun
  <2>8. /\ run'.capsules \in Seq(Config!Range(run'.capsules)) /\ Len(run'.capsules) = Len(run.capsules) + 1
        /\ DOMAIN run'.capsules = 1..Len(run'.capsules) /\ run'.capsules[Len(run.capsules) + 1] = capsule
        /\ \A n \in 1..Len(run.capsules) : run'.capsules[n] = run.capsules[n]
    BY <1>0, <2>7, AppendOne DEF SoundRun
  <2>9. Current(capsule, run'.files)
    BY <2>4, <2>7 DEF Current
  <2> DEFINE N == Len(run.capsules)
  <2>10. N \in Nat /\ Len(run'.capsules) = N + 1 /\ capsule.number = N + 1
    BY <1>0, <2>4, <2>8 DEF SoundRun
  <2>11. ASSUME NEW n \in 1..(N + 1)
         PROVE  /\ run'.capsules[n].number = n /\ run'.capsules[n].plan # None
                /\ run'.capsules[n].plan.file \in {"primary", "override"}
                /\ run'.capsules[n].reported.file \in {"primary", "override"}
    <3>1. CASE n = N + 1
      BY <2>4, <2>5, <2>6, <2>8, <2>10, <3>1
    <3>2. CASE n # N + 1
      <4>1. n \in 1..N
        BY <2>10, <3>2
      <4>2. run'.capsules[n] = run.capsules[n]
        BY <2>8, <4>1
      <4> QED
        BY <1>0, <4>1, <4>2 DEF SoundRun
    <3> QED
      BY <3>1, <3>2
  <2> HIDE DEF N
  <2>12. run'.capsules[Len(run'.capsules)] = capsule
    BY <2>8, <2>10 DEF N
  <2>13. SoundRun(run')
    <3>1. Config!SoundFiles(run'.files) /\ run'.moved \in BOOLEAN
      BY <1>0, <2>7 DEF SoundRun
    <3>2. Len(run'.capsules) \in Nat
      BY <2>10
    <3> QED
      BY <2>7, <2>8, <2>9, <2>10, <2>11, <2>12, <3>1, <3>2 DEF SoundRun
  <2> QED
    BY <1>0, <2>3, <2>13 DEF ConfigInv
<1> QED
  BY <1>1, <1>2

LEMMA BindingSays ==
  ASSUME NEW c
  PROVE  \/ Config!Binding(c) \in {"AUTH_REPLAY", "CANDIDATE_NOT_FOUND", "AUTH_INVALID", "ADMIN_ACTION_REQUIRED"}
         \/ /\ Config!Binding(c) = "ok" /\ run.files[c.plan.file] = c.original /\ ~run.files.managed
            /\ c.plan = Config!LivePlan(run.files[c.plan.file], Config!Probe(run.files))
BY DEF Config!Binding

LEMMA Applying ==
  ASSUME SoundRun(run), NEW c, NEW w, Config!ApplyAs(c, Config!Binding(c), w)
  PROVE  \E code, files : ApplyFacts(c, code, files, w)
<1>1. run' = [run EXCEPT !.files = result'.after, !.consumed = run'.consumed]
  <2>1. \E consumed : run' = [run EXCEPT !.files = result'.after, !.consumed = consumed]
    BY DEF Config!ApplyAs
  <2>2. ASSUME NEW consumed, run' = [run EXCEPT !.files = result'.after, !.consumed = consumed]
        PROVE  run'.consumed = consumed
    BY <2>2 DEF SoundRun
  <2> QED
    BY <2>1, <2>2
<1>2. run' = [files |-> result'.after, capsules |-> run.capsules, consumed |-> run'.consumed, moved |-> run.moved]
  BY <1>1 DEF SoundRun
<1>3. CASE Config!Binding(c) # "ok"
  <2>1. result' = Config!Result("apply", Config!Binding(c), c, run.files)
    BY <1>3 DEF Config!ApplyAs
  <2>2. /\ result' = [op |-> "apply", code |-> Config!Binding(c), capsule |-> c, before |-> run.files, after |-> run.files]
        /\ result'.after = run.files
    BY <2>1 DEF Config!Result
  <2>3. ApplyFacts(c, Config!Binding(c), run.files, w)
    BY <1>2, <1>3, <2>2, BindingSays DEF ApplyFacts
  <2> QED
    BY <2>3
<1>4. CASE Config!Binding(c) = "ok" /\ Config!Verified(w, c.plan, c.original)
  <2>1. result' = Config!Result("apply", "RESOLVED_VERIFIED", c, w)
    BY <1>4 DEF Config!ApplyAs
  <2>2. /\ result' = [op |-> "apply", code |-> "RESOLVED_VERIFIED", capsule |-> c, before |-> run.files, after |-> w]
        /\ result'.after = w
    BY <2>1 DEF Config!Result
  <2>3. ApplyFacts(c, "RESOLVED_VERIFIED", w, w)
    BY <1>2, <1>4, <2>2, BindingSays DEF ApplyFacts
  <2> QED
    BY <2>3
<1>5. CASE Config!Binding(c) = "ok" /\ ~Config!Verified(w, c.plan, c.original)
  <2>1. result' = Config!Result("apply", "VERIFY_FAILED", c, run.files)
    BY <1>5 DEF Config!ApplyAs
  <2>2. /\ result' = [op |-> "apply", code |-> "VERIFY_FAILED", capsule |-> c, before |-> run.files, after |-> run.files]
        /\ result'.after = run.files
    BY <2>1 DEF Config!Result
  <2>3. ApplyFacts(c, "VERIFY_FAILED", run.files, w)
    BY <1>2, <1>5, <2>2, BindingSays DEF ApplyFacts
  <2> QED
    BY <2>3
<1> QED
  BY <1>3, <1>4, <1>5

LEMMA StartsWhen ==
  ASSUME NEW files, Config!SoundFiles(files), Config!Probe(files).fault = Config!NoFault
  PROVE  Config!Starts(files)
<1>1. Config!Conflicts(files) = {} /\ Config!FaultOf(files.primary) = Config!NoFault /\ Config!FaultOf(files.override) = Config!NoFault
  BY ProbeFacts
<1>2. ASSUME NEW file \in {"primary", "override"}, files[file] # None
      PROVE  Config!Parse(files[file]).ok /\ Config!WellTyped(Config!Scalars(files[file]))
  <2> DEFINE lines == files[file]
             doc == Config!Parse(lines)
             values == Config!Scalars(lines)
  <2>1. Config!SoundDocument(lines) /\ Config!FaultOf(lines) = Config!NoFault /\ lines # None
    BY <1>1, <1>2 DEF Config!SoundFiles
  <2> HIDE DEF lines
  <2>2. /\ doc.ok /\ SoundState(doc) /\ Config!Obsolete \cap DOMAIN doc.value = {}
        /\ \A p \in DOMAIN doc.value : ~Config!WrongType(doc, p)
    BY <2>1, FaultlessIs, ParseSound
  <2>3. /\ \A p : p \in DOMAIN values <=> Scalar(doc, p)
        /\ \A p : Scalar(doc, p) => values[p] = doc.value[p]
    BY <2>1, ScalarsOf
  <2> HIDE DEF doc, values
  <2>4. ASSUME NEW p \in DOMAIN values
        PROVE  \/ Len(p) = 1 /\ p[1] \in {"model", "model_provider"} /\ values[p].type = "string"
               \/ p = << "notify" >> /\ values[p].type = "boolean"
               \/ Len(p) > 1 /\ p[1] = "features" /\ values[p].type = "boolean"
    <3>1. p \in DOMAIN doc.value /\ doc.value[p].type # "table" /\ values[p] = doc.value[p] /\ p \notin Config!Obsolete
      BY <2>2, <2>3 DEF Scalar
    <3> QED
      BY <2>2, <3>1, RightTypes
  <2>5. Config!WellTyped(values)
    BY <2>4 DEF Config!WellTyped
  <2> QED
    BY <2>2, <2>5 DEF lines, doc, values
<1>3. Config!Agree(Config!Scalars(files.primary), Config!Scalars(files.override))
  <2>0. DOMAIN << >> = {}
    OBVIOUS
  <2>1. CASE files.primary = None \/ files.override = None
    <3>1. DOMAIN Config!Scalars(files.primary) = {} \/ DOMAIN Config!Scalars(files.override) = {}
      BY <2>0, <2>1 DEF Config!Scalars
    <3> QED
      BY <3>1 DEF Config!Agree
  <2>2. CASE files.primary # None /\ files.override # None
    <3>1. Config!Differing(Config!Parse(files.primary).value, Config!Parse(files.override).value) = {}
      BY <1>1, <2>2 DEF Config!Conflicts
    <3>2. ASSUME NEW p, Scalar(Config!Parse(files.primary), p), Scalar(Config!Parse(files.override), p)
          PROVE  Config!Parse(files.primary).value[p] = Config!Parse(files.override).value[p]
      BY <3>1, <3>2 DEF Config!Differing, Scalar
    <3> QED
      BY <2>2, <3>2, ScalarsOf DEF Config!Agree
  <2> QED
    BY <2>1, <2>2
<1> QED
  BY <1>2, <1>3 DEF Config!Starts

\* What is said of the result of an application.
LEMMA ApplyResult ==
  ASSUME NEW c, NEW code, NEW files, NEW w, ApplyFacts(c, code, files, w)
  PROVE  /\ result'.op = "apply" /\ result'.code = code /\ result'.capsule = c
         /\ result'.before = run.files /\ result'.after = files
         /\ run'.files = files /\ run'.capsules = run.capsules /\ run'.moved = run.moved
BY DEF ApplyFacts

LEMMA RepairsSay ==
  ASSUME KeyOrder \in Seq(Config!Range(KeyOrder)), NEW files, Config!SoundFiles(files), NEW c, NEW w, Repairs(files, c, w)
  PROVE  Repaired(files, c, w)
<1> DEFINE plan == c.plan
           file == c.plan.file
<1>1. /\ file \in {"primary", "override"} /\ plan # None /\ plan.file = file
      /\ plan = Config!LivePlan(files[file], Config!Probe(files)) /\ w = Config!Write(files, file, plan.next)
      /\ Config!Probe(w).fault = Config!NoFault /\ w[file] # files[file]
  BY DEF Repairs, Config!Verified
<1> HIDE DEF plan, file
<1>2. PlanSays(files, files[file], Config!Probe(files), plan)
  BY <1>1, PlanFacts
<1>3. /\ Config!TakesOut(Config!Scalars(files[file]), Config!Scalars(w[file]), plan.key, TRUE)
      /\ Config!SoundFiles(w)
  BY <1>1, RepairExactly
<1>4. \A other \in {"primary", "override"} : other # file => w[other] = files[other]
  BY <1>1, ConfigWrittenIs
<1> QED
  BY <1>1, <1>2, <1>3, <1>4 DEF Repaired, plan, file

LEMMA RepairsKeep ==
  ASSUME KeyOrder \in Seq(Config!Range(KeyOrder)), NEW files, Config!SoundFiles(files), NEW c, NEW w, Repairs(files, c, w)
  PROVE  /\ Config!SoundFiles(w) /\ Config!Starts(w)
         /\ \A file \in {"primary", "override"} :
              Config!TakesOut(Config!Scalars(files[file]), Config!Scalars(w[file]), c.plan.key, file = c.plan.file)
         /\ \A d : Current(d, files) => Current(d, w)
<1>1. /\ PlanSays(files, files[c.plan.file], Config!Probe(files), c.plan)
      /\ Config!TakesOut(Config!Scalars(files[c.plan.file]), Config!Scalars(w[c.plan.file]), c.plan.key, TRUE)
      /\ Config!SoundFiles(w) /\ Config!Probe(w).fault = Config!NoFault /\ w[c.plan.file] # files[c.plan.file]
      /\ \A file \in {"primary", "override"} : file # c.plan.file => w[file] = files[file]
  <2>1. Repaired(files, c, w)
    BY RepairsSay
  <2> QED
    BY <2>1 DEF Repaired
<1>2. Config!Starts(w)
  BY <1>1, StartsWhen
<1>3. ASSUME NEW file \in {"primary", "override"}
      PROVE  Config!TakesOut(Config!Scalars(files[file]), Config!Scalars(w[file]), c.plan.key, file = c.plan.file)
  <2>1. CASE file = c.plan.file
    <3>1. (file = c.plan.file) = TRUE
      BY <2>1
    <3> QED
      BY <1>1, <2>1, <3>1
  <2>2. CASE file # c.plan.file
    <3>1. w[file] = files[file]
      BY <1>1, <2>2
    <3>2. (file = c.plan.file) = FALSE
      BY <2>2
    <3>3. Config!TakesOut(Config!Scalars(files[file]), Config!Scalars(files[file]), c.plan.key, FALSE)
      BY TakesNothingOut
    <3> QED
      BY <3>1, <3>2, <3>3
  <2> QED
    BY <2>1, <2>2
<1>4. ASSUME NEW d, Current(d, files) PROVE Current(d, w)
  <2>1. CASE d.reported.fault.class = "type" /\ d.reported.file = "override"
    BY <2>1 DEF Current
  <2>2. CASE /\ d.reported = Config!Probe(files) /\ files[d.reported.file] = d.original
             /\ ~(d.reported.fault.class = "type" /\ d.reported.file = "override")
    <3>1. d.reported.file \in {"primary", "override"}
      BY <2>2, ProbeFacts
    <3>2. d.reported.file = c.plan.file
      BY <1>1, <2>2, <3>1 DEF PlanSays
    <3>3. w[d.reported.file] # d.original
      BY <1>1, <2>2, <3>2
    <3> QED
      BY <1>1, <3>3 DEF Current
  <2>3. Config!Probe(files).fault # Config!NoFault
    BY <1>1 DEF PlanSays
  <2> QED
    BY <1>4, <2>1, <2>2, <2>3 DEF Current
<1> QED
  BY <1>1, <1>2, <1>3, <1>4

\* What nothing overtook is not refused.
LEMMA Refusal ==
  ASSUME Config!SoundRepairs, SoundRun(run), ~run.moved, Len(run.capsules) > 0,
         NEW c, c = run.capsules[Len(run.capsules)],
         run.files = [run.files EXCEPT ![c.reported.file] = c.original],
         Config!Binding(c) \in {"AUTH_INVALID", "CANDIDATE_NOT_FOUND"}
  PROVE  c.reported.fault.class = "type" /\ c.reported.file = "override"
<1> SUFFICES ASSUME ~(c.reported.fault.class = "type" /\ c.reported.file = "override") PROVE FALSE
  OBVIOUS
<1>1. /\ Current(c, run.files) /\ Config!SoundFiles(run.files) /\ KeyOrder \in Seq(Config!Range(KeyOrder))
      /\ c.reported.file \in {"primary", "override"} /\ c.plan # None
  BY DEF SoundRun, Config!SoundRepairs
<1>2. run.files[c.reported.file] = c.original
  <2>1. c.reported.file \in DOMAIN run.files
    <3>1. \A file \in {"primary", "override"} : file \in DOMAIN Config!Write(run.files, file, run.files[file])
      BY <1>1 DEF Config!Write, Config!SoundFiles
    <3> QED
      BY <1>1, <3>1 DEF Config!Write
  <2> QED
    BY <2>1
<1>3. c.reported = Config!Probe(run.files) /\ c.plan = Config!LivePlan(c.original, c.reported)
  BY <1>1, <1>2 DEF Current
<1>4. PlanSays(run.files, run.files[c.reported.file], Config!Probe(run.files), c.plan)
  BY <1>1, <1>2, <1>3, PlanFacts
<1>5. c.plan.file = c.reported.file
  BY <1>1, <1>3, <1>4 DEF PlanSays
<1>6. run.files[c.plan.file] # None
  BY <1>4, <1>5 DEF PlanSays
<1>7. Config!Binding(c) \notin {"AUTH_INVALID", "CANDIDATE_NOT_FOUND"}
  BY <1>2, <1>3, <1>5, <1>6 DEF Config!Binding
<1> QED
  BY <1>7

LEMMA ConfigApply == ASSUME Config!SoundRepairs, ConfigInv, Config!Apply PROVE ConfigInv'
<1>1. SoundRun(run) /\ request \in ConfigRequests
  BY DEF ConfigInv
<1> DEFINE N == Len(run.capsules)
<1>2. PICK n \in 1..N : LET c == run.capsules[n]
                        IN  Config!ApplyAs(c, Config!Binding(c), Config!Write(run.files, c.plan.file, c.plan.next))
  BY <1>1 DEF Config!Apply, SoundRun
<1> DEFINE c == run.capsules[n]
           w == Config!Write(run.files, c.plan.file, c.plan.next)
<1>3. PICK code, files : ApplyFacts(c, code, files, w)
  BY <1>1, <1>2, Applying
<1>4. /\ result'.op = "apply" /\ result'.code = code /\ result'.capsule = c
      /\ result'.before = run.files /\ result'.after = files
      /\ run'.files = files /\ run'.capsules = run.capsules /\ run'.moved = run.moved
  BY <1>3, ApplyResult
<1>5. request' = request
  BY <1>2 DEF Config!ApplyAs
<1>6. run' = [files |-> run'.files, capsules |-> run'.capsules, consumed |-> run'.consumed, moved |-> run'.moved]
  BY <1>3 DEF ApplyFacts
<1>7. /\ c.number = n /\ c.plan # None /\ c.plan.file \in {"primary", "override"} /\ N \in Nat
      /\ KeyOrder \in Seq(Config!Range(KeyOrder)) /\ Config!SoundFiles(run.files)
  BY <1>1 DEF SoundRun, Config!SoundRepairs
<1>p. c = run.capsules[n] /\ w = Config!Write(run.files, c.plan.file, c.plan.next)
  OBVIOUS
<1> HIDE DEF c, w, N
<1>8. code = "RESOLVED_VERIFIED" =>
         /\ Config!SoundFiles(files) /\ Config!Starts(files) /\ ~run.files.managed
         /\ \A file \in {"primary", "override"} :
              Config!TakesOut(Config!Scalars(run.files[file]), Config!Scalars(files[file]), c.plan.key, file = c.plan.file)
         /\ \A d : Current(d, run.files) => Current(d, files)
  <2> SUFFICES ASSUME code = "RESOLVED_VERIFIED"
               PROVE  /\ Config!SoundFiles(files) /\ Config!Starts(files) /\ ~run.files.managed
                      /\ \A file \in {"primary", "override"} :
                           Config!TakesOut(Config!Scalars(run.files[file]), Config!Scalars(files[file]), c.plan.key, file = c.plan.file)
                      /\ \A d : Current(d, run.files) => Current(d, files)
    OBVIOUS
  <2>1. Repairs(run.files, c, files) /\ ~run.files.managed
    BY <1>3, <1>7, <1>p DEF ApplyFacts, Repairs
  <2> QED
    BY <1>7, <2>1, RepairsKeep
<1>9. code # "RESOLVED_VERIFIED" => files = run.files
  BY <1>3 DEF ApplyFacts
<1>10. SoundRun(run')
  <2>1. Config!SoundFiles(files) /\ \A d : Current(d, run.files) => Current(d, files)
    BY <1>7, <1>8, <1>9
  <2> QED
    BY <1>1, <1>4, <1>6, <2>1 DEF SoundRun
<1>11. Config!RepairByName'
  BY <1>4, <1>8 DEF Config!RepairByName, Config!Resolved, Config!Applied
<1>12. Config!ResolvedStarts'
  BY <1>4, <1>8, <1>9 DEF Config!ResolvedStarts, Config!Resolved, Config!Applied
<1>13. Config!CapsuleIsBound'
  <2>1. ASSUME code \in {"RESOLVED_VERIFIED", "VERIFY_FAILED"}
        PROVE  /\ run.files[c.plan.file] = c.original
               /\ Config!Probe(run.files).fault # Config!NoFault /\ c.plan.key \in Config!Probe(run.files).fault.keys
    <3>1. run.files[c.plan.file] = c.original /\ c.plan = Config!LivePlan(run.files[c.plan.file], Config!Probe(run.files))
      BY <1>3, <2>1 DEF ApplyFacts
    <3>2. PlanSays(run.files, run.files[c.plan.file], Config!Probe(run.files), c.plan)
      BY <1>7, <3>1, PlanFacts
    <3> QED
      BY <3>1, <3>2 DEF PlanSays
  <2>2. ASSUME ~run.moved, \A m \in DOMAIN run.capsules : run.capsules[m].number <= c.number,
               run.files = [run.files EXCEPT ![c.reported.file] = c.original],
               code \in {"AUTH_INVALID", "CANDIDATE_NOT_FOUND"}
        PROVE  c.reported.fault.class = "type" /\ c.reported.file = "override"
    <3>1. N > 0 /\ N \in DOMAIN run.capsules /\ run.capsules[N].number = N
      BY <1>1, <1>7 DEF SoundRun, N
    <3>2. n = N
      BY <1>7, <2>2, <3>1
    <3>3. Config!Binding(c) = code
      BY <1>3, <2>2 DEF ApplyFacts
    <3> QED
      BY <1>1, <1>p, <2>2, <3>1, <3>2, <3>3, Refusal DEF N
  <2> QED
    BY <1>4, <2>1, <2>2 DEF Config!CapsuleIsBound, Config!Applied
<1> QED
  BY <1>1, <1>5, <1>10, <1>11, <1>12, <1>13 DEF ConfigInv, SoundResult

LEMMA ConfigStep == ASSUME Config!SoundRepairs, ConfigInv, Config!Next PROVE ConfigInv'
BY ConfigPreview, ConfigMove, ConfigApply DEF Config!Next

LEMMA ConfigStutter ==
  ASSUME ConfigInv, UNCHANGED << request, run, result >> PROVE ConfigInv'
BY DEF ConfigInv, SoundResult, Config!RepairByName, Config!ResolvedStarts, Config!CapsuleIsBound, Config!Resolved, Config!Applied

LEMMA ConfigHolds == ASSUME ConfigInv PROVE Config!RepairByName /\ Config!ResolvedStarts /\ Config!CapsuleIsBound
BY DEF ConfigInv, SoundResult

-----------------------------------------------------------------------------
(***************************************************************************)
(* PlatformGate.  Where a path leads is a sequence of names; a directory   *)
(* leads to itself, and so does whatever it stands in.                     *)
(***************************************************************************)
LEMMA HopType ==
  ASSUME NEW w, Gate!FileSystem(w), NEW p \in Seq(PathNames)
  PROVE  Gate!Hop(w, p) \in Seq(PathNames)
<1> DEFINE through == {n \in 1..Len(p) : SubSeq(p, 1, n) \in DOMAIN w.links}
           n == CHOOSE m \in through : \A k \in through : m <= k
<1>1. CASE through = {}
  BY <1>1 DEF Gate!Hop
<1>2. CASE through # {}
  <2>1. n \in through
    <3>1. through \in SUBSET Nat
      OBVIOUS
    <3>2. \E m \in through : \A k \in through : m <= k
      BY <1>2, <3>1, LeastExists
    <3> QED
      BY <3>2
  <2>2. n \in 1..Len(p) /\ SubSeq(p, 1, n) \in DOMAIN w.links
    BY <2>1
  <2> HIDE DEF n
  <2>3. w.links[SubSeq(p, 1, n)] \in Seq(PathNames) /\ SubSeq(p, n + 1, Len(p)) \in Seq(PathNames)
    BY <2>2 DEF Gate!FileSystem
  <2>4. w.links[SubSeq(p, 1, n)] \o SubSeq(p, n + 1, Len(p)) \in Seq(PathNames)
    BY <2>3
  <2>5. Gate!Hop(w, p) = w.links[SubSeq(p, 1, n)] \o SubSeq(p, n + 1, Len(p))
    BY <1>2 DEF Gate!Hop, n
  <2> QED
    BY <2>4, <2>5
<1> QED
  BY <1>1, <1>2

LEMMA CanonicalType ==
  ASSUME NEW w, Gate!FileSystem(w), NEW p \in Seq(PathNames)
  PROVE  Gate!Canonical(w, p) \in Seq(PathNames)
BY HopType DEF Gate!Canonical

\* What is above a directory is a directory.
LEMMA Above ==
  ASSUME NEW w, Gate!FileSystem(w), NEW d \in w.dirs,
         NEW p \in Seq(PathNames), Gate!IsPrefix(p, d)
  PROVE  p \in w.dirs
<1>1. d \in Seq(PathNames) /\ Len(p) \in 0..Len(d) /\ SubSeq(p, 1, Len(p)) = SubSeq(d, 1, Len(p))
  BY DEF Gate!IsPrefix, Gate!FileSystem
<1>2. SubSeq(p, 1, Len(p)) = p
  OBVIOUS
<1> QED
  BY <1>1, <1>2 DEF Gate!FileSystem

LEMMA DirectoryStays ==
  ASSUME NEW w, Gate!FileSystem(w), NEW d \in w.dirs
  PROVE  Gate!Canonical(w, d) = d
<1>1. {n \in 1..Len(d) : SubSeq(d, 1, n) \in DOMAIN w.links} = {}
  BY DEF Gate!FileSystem
<1>2. Gate!Hop(w, d) = d
  BY <1>1 DEF Gate!Hop
<1> QED
  BY <1>2 DEF Gate!Canonical

\* Where a path leads, if that is a directory; a denied zone too is one then.
LEMMA LeadsTo ==
  ASSUME NEW w, Gate!FileSystem(w), NEW d \in w.dirs,
         NEW p \in Seq(PathNames), Gate!IsPrefix(Gate!Canonical(w, p), d)
  PROVE  Gate!Realpath(w, p) = Gate!Canonical(w, p) /\ Gate!Realpath(w, p) # None
<1>1. Gate!Canonical(w, p) \in w.dirs
  BY CanonicalType, Above
<1> QED
  BY <1>1 DEF Gate!Realpath, Gate!FileSystem

(***************************************************************************)
(* A target that is proved is a directory of the user's own, strictly      *)
(* beneath a temporary root, and in no zone that is denied.                *)
(***************************************************************************)
LEMMA ProvedIsDisposable ==
  ASSUME Gate!SoundRequests, NEW w, Gate!FileSystem(w), NEW p \in Seq(PathNames), Gate!Proved(w, p)
  PROVE  LET real == Gate!Canonical(w, p)
         IN  /\ real \in w.dirs \ w.foreign
             /\ \E root \in {Gate!Canonical(w, << "tmp" >>), Gate!Canonical(w, w.tmpdir)} :
                  Gate!IsPrefix(root, real) /\ root # real
             /\ ~Gate!IsPrefix(Gate!Canonical(w, Gate!Codex(w.home)), real)
             /\ real # Gate!Canonical(w, w.home)
             /\ \A zone \in {<< "usr" >>, << "mnt", "c" >>} : ~Gate!IsPrefix(zone, real)
<1> DEFINE real == Gate!Canonical(w, p)
<1>1. Gate!Lstat(w, p) = "dir"
  BY DEF Gate!Proved, Gate!TargetDirectory, Gate!Lstat
<1>2. /\ Gate!Disposable(w, p) = "ok" /\ Gate!Location(w, p) = Gate!Realpath(w, p)
      /\ Gate!Realpath(w, p) \notin Gate!TrustedRoots(w)
      /\ ~Gate!HostMount(w, Gate!Realpath(w, p))
  BY DEF Gate!Proved
<1>3. Gate!Realpath(w, p) # None
  BY <1>2 DEF Gate!Disposable, Gate!Denied
<1>4. Gate!Realpath(w, p) = real /\ real \in w.dirs /\ real \in Seq(PathNames)
  BY <1>3, CanonicalType DEF Gate!Realpath
<1>5. \A q : Gate!Denied(w, q) # "ok" \/ Gate!Denied(w, q) = None
  BY DEF Gate!Denied
<1>6. /\ Gate!Denied(w, real) = None /\ real \notin w.foreign
      /\ \E root \in Gate!TrustedRoots(w) : Gate!IsPrefix(root, real)
  BY <1>1, <1>2, <1>3, <1>4, <1>5 DEF Gate!Disposable
<1>7. ASSUME NEW q \in {<< "tmp" >>, w.tmpdir},
             Gate!IsPrefix(IF Gate!Realpath(w, q) = None THEN q ELSE Gate!Realpath(w, q), real)
      PROVE  Gate!IsPrefix(Gate!Canonical(w, q), real) /\ Gate!Canonical(w, q) # real
  <2>1. q \in Seq(PathNames)
    <3>1. << "tmp" >> \in Seq(PathNames) /\ w.tmpdir \in Seq(PathNames)
      BY DEF Gate!FileSystem, Gate!SoundRequests
    <3> QED
      BY <3>1
  <2>2. Gate!Realpath(w, q) # None
    <3>1. CASE Gate!Realpath(w, q) = None
      <4>1. q \in w.dirs
        BY <1>4, <1>7, <2>1, <3>1, Above
      <4> QED
        BY <4>1, DirectoryStays DEF Gate!Realpath, Gate!FileSystem
    <3> QED
      BY <3>1
  <2>3. Gate!Realpath(w, q) = Gate!Canonical(w, q)
    BY <2>2 DEF Gate!Realpath
  <2> QED
    BY <1>2, <1>4, <1>7, <2>2, <2>3 DEF Gate!TrustedRoots
<1>8. \E root \in {Gate!Canonical(w, << "tmp" >>), Gate!Canonical(w, w.tmpdir)} :
        Gate!IsPrefix(root, real) /\ root # real
  BY <1>6, <1>7 DEF Gate!TrustedRoots
<1>9. /\ \A root \in Gate!ActiveDenyRoots(w) : ~Gate!IsPrefix(root, real)
      /\ real \notin {w.home} \cup Gate!Reals(w, {w.home}) /\ ~Gate!Protected(real)
  BY <1>6 DEF Gate!Denied, Gate!SoundRequests
<1>10. ~Gate!IsPrefix(Gate!Canonical(w, Gate!Codex(w.home)), real)
  <2>1. Gate!Codex(w.home) \in Seq(PathNames)
    BY DEF Gate!Codex, Gate!FileSystem, Gate!SoundRequests
  <2>2. ASSUME Gate!IsPrefix(Gate!Canonical(w, Gate!Codex(w.home)), real) PROVE FALSE
    <3>1. /\ Gate!Realpath(w, Gate!Codex(w.home)) = Gate!Canonical(w, Gate!Codex(w.home))
          /\ Gate!Realpath(w, Gate!Codex(w.home)) # None
      BY <1>4, <2>1, <2>2, LeadsTo
    <3>2. Gate!Canonical(w, Gate!Codex(w.home)) \in Gate!ActiveDenyRoots(w)
      BY <3>1 DEF Gate!ActiveDenyRoots, Gate!Reals
    <3> QED
      BY <1>9, <2>2, <3>2
  <2> QED
    BY <2>2
<1>11. real # Gate!Canonical(w, w.home)
  <2>1. ASSUME real = Gate!Canonical(w, w.home) PROVE FALSE
    <3>1. Gate!Realpath(w, w.home) = real /\ real # None
      BY <1>3, <1>4, <2>1 DEF Gate!Realpath
    <3> QED
      BY <1>9, <3>1 DEF Gate!Reals
  <2> QED
    BY <2>1
<1>12. \A zone \in {<< "usr" >>, << "mnt", "c" >>} : ~Gate!IsPrefix(zone, real)
  BY <1>2, <1>4, <1>9 DEF Gate!Protected, Gate!HostMount
<1> QED
  BY <1>4, <1>6, <1>8, <1>10, <1>11, <1>12

\* The answer of an apply that may write.
LEMMA AppliedIsAllowed ==
  ASSUME Gate!ApplyAnswer = "APPLIED"
  PROVE  /\ Gate!Gate = "ALLOWED"
         /\ ~Gate!WindowsBlocks(request.host, {request.markers[1], request.markers[2]},
                                request.known_managed)
<1>1. Gate!Gate = "ALLOWED"
  BY DEF Gate!ApplyAnswer
<1>2. Gate!TargetDirectory(run, request.target) # "APPLIED"
  BY DEF Gate!TargetDirectory
<1> QED
  BY <1>1, <1>2 DEF Gate!ApplyAnswer

LEMMA AllowedIsGranted ==
  ASSUME Gate!Gate = "ALLOWED"
  PROVE  /\ request.caller # "omitted" /\ request.seam
         /\ request.caller = "public" => Gate!Proved(run, request.target)
<1> USE DEF Gate!Gate, Gate!Given, Gate!WriteGate, Gate!Capability, Gate!Isolated
<1>1. CASE request.caller = "public"
  BY <1>1 DEF Gate!PublicCapability, Gate!Production
<1>2. CASE request.caller = "omitted"
  BY <1>2 DEF Gate!Omitted
<1>3. CASE request.caller \notin {"public", "omitted"}
  BY <1>3
<1> QED
  BY <1>1, <1>2, <1>3

LEMMA WindowsIsTheUsers ==
  ASSUME NEW markers, NEW managed, Gate!WriteScope(markers, managed) = "user_owned"
  PROVE  /\ ~managed /\ markers \cap {"alias", "system", "binary"} = {}
         /\ markers \cap {"registered", "profile"} # {}
<1>1. /\ ~managed /\ markers \cap {"alias", "system"} = {} /\ "binary" \notin markers
      /\ markers \cap {"registered", "profile"} # {}
  BY DEF Gate!WriteScope
<1> QED
  BY <1>1

LEMMA GateStep ==
  ASSUME Gate!SoundRequests, GateInv, [Gate!Next]_(Gate!vars)
  PROVE  GateInv'
<1>1. CASE Gate!PreviewRepair
  <2>1. /\ UNCHANGED << request, run >> /\ ~result'.wrote
        /\ result' = [apply |-> result'.apply, wrote |-> result'.wrote, preview |-> result'.preview]
    BY <1>1 DEF Gate!PreviewRepair
  <2>2. Gate!PolicyGoesToTheAdministrator'
    BY <1>1 DEF Gate!PreviewRepair, Gate!PolicyGoesToTheAdministrator, Gate!ConfigPreview,
                Gate!TargetDirectory
  <2> QED
    BY <2>1, <2>2 DEF GateInv
<1>2. CASE Gate!Swap
  <2>1. UNCHANGED << request, result >> /\ run' = request.later /\ result # None /\ result.apply = None
    BY <1>2 DEF Gate!Swap
  <2>2. result.apply # "APPLIED"
    BY <2>1 DEF Gate!SoundRequests
  <2> QED
    BY <2>1, <2>2 DEF GateInv, Gate!PolicyGoesToTheAdministrator
<1>3. CASE Gate!ApplyRepair
  <2>1. UNCHANGED << request, run >> /\ result # None
    BY <1>3 DEF Gate!ApplyRepair
  <2>2. result' = [apply |-> Gate!ApplyAnswer, wrote |-> Gate!ApplyAnswer = "APPLIED",
                   preview |-> result.preview]
    BY <1>3 DEF Gate!ApplyRepair, GateInv
  <2>3. Gate!ApplyAnswer' = Gate!ApplyAnswer
    BY <2>1 DEF Gate!ApplyAnswer, Gate!Gate, Gate!Given
  <2>4. Gate!PolicyGoesToTheAdministrator'
    BY <2>1, <2>2 DEF GateInv, Gate!PolicyGoesToTheAdministrator
  <2> QED
    BY <2>1, <2>2, <2>3, <2>4 DEF GateInv
<1>4. CASE UNCHANGED Gate!vars
  BY <1>4 DEF Gate!vars, GateInv, Gate!PolicyGoesToTheAdministrator, Gate!ApplyAnswer,
              Gate!Gate, Gate!Given
<1> QED
  BY <1>1, <1>2, <1>3, <1>4 DEF Gate!Next

LEMMA GateInvGates ==
  ASSUME Gate!SoundRequests, GateInv
  PROVE  Gate!WritesAreGated
<1>1. ASSUME result # None, result.wrote
      PROVE  /\ Gate!Gate = "ALLOWED"
             /\ ~Gate!WindowsBlocks(request.host, {request.markers[1], request.markers[2]},
                                    request.known_managed)
  BY <1>1, AppliedIsAllowed DEF GateInv
<1>2. Gate!FileSystem(run) /\ request.target \in Seq(PathNames)
  BY DEF GateInv, Gate!SoundRequests
<1>3. Gate!PublicWritesAreDisposable
  BY <1>1, <1>2, AllowedIsGranted, ProvedIsDisposable DEF Gate!PublicWritesAreDisposable
<1>4. Gate!NothingByDefault
  BY <1>1, AllowedIsGranted DEF Gate!NothingByDefault
<1>5. Gate!WindowsWritesAreTheUsers
  <2> SUFFICES ASSUME result # None, result.wrote,
                      request.host.platform = "win32" \/ Gate!TrustedPlatform(request.host) = "win32"
               PROVE  /\ ~request.known_managed
                      /\ \A n \in {1, 2} :
                           /\ request.markers[n] \cap {"alias", "system", "binary"} = {}
                           /\ request.markers[n] \cap {"registered", "profile"} # {}
    BY DEF Gate!WindowsWritesAreTheUsers
  <2>1. Gate!TrustedPlatform(request.host) = "win32"
    BY DEF Gate!TrustedPlatform
  <2>2. \A n \in {1, 2} : Gate!WriteScope(request.markers[n], request.known_managed) = "user_owned"
    BY <1>1, <2>1 DEF Gate!WindowsBlocks
  <2> QED
    BY <2>2, WindowsIsTheUsers
<1> QED
  BY <1>3, <1>4, <1>5 DEF GateInv, Gate!WritesAreGated

-----------------------------------------------------------------------------
(***************************************************************************)
(* OfficialEvidence.  What an item and a snapshot are: an item that is     *)
(* sealed is all that its hash covers.                                     *)
(***************************************************************************)

LEMMA SealedIsItself ==
  ASSUME NEW x, Item(x)
  PROVE  Item(Evidence!Seal(x)) /\ Evidence!Sealed(Evidence!Seal(x)) /\ Evidence!Seal(x).state = x.state
<1>1. Evidence!Seal(x) =
        [kind |-> x.kind, url |-> x.url, structured |-> x.structured, to |-> x.to,
         status |-> x.status, quarantined |-> x.quarantined, state |-> x.state,
         hash |-> Evidence!Material(x)]
  BY DEF Item, Evidence!Seal
<1> QED
  BY <1>1 DEF Item, Evidence!Sealed, Evidence!Material

LEMMA SealedAreEqual ==
  ASSUME NEW x, NEW y, Item(x), Item(y), Evidence!Sealed(x), Evidence!Sealed(y), x.hash = y.hash
  PROVE  x = y
BY DEF Item, Evidence!Sealed, Evidence!Material

\* A sequence is a function from its places.
LEMMA ListOf ==
  ASSUME NEW S, NEW s \in Seq(S)
  PROVE  Len(s) \in Nat /\ s = [n \in 1..Len(s) |-> s[n]] /\ DOMAIN s = 1..Len(s)
<1>1. PICK k \in Nat : s \in [1..k -> S]
  OBVIOUS
<1>2. Len(s) = k
  BY <1>1
<1> QED
  BY <1>1, <1>2

LEMMA NormalizedIn ==
  ASSUME Evidence!SoundEvidence, NEW list \in Lists, NEW state, NEW at \in Int
  PROVE  LET s == Evidence!Snapshot(Evidence!Normalized(list, state), at)
         IN  /\ SnapshotIn(s, {state}) /\ s.at = at
             /\ Evidence!Acceptable(list) => Evidence!Verifies(s)
<1> DEFINE items == Evidence!Normalized(list, state)
<1>1. Len(list) \in Nat /\ DOMAIN list = 1..Len(list)
  BY DEF Evidence!SoundEvidence
<1>2. items = [n \in 1..Len(list) |-> Evidence!Normalize(list[n], state)]
  BY <1>1 DEF Evidence!Normalized
<1>3. /\ Len(items) = Len(list) /\ DOMAIN items = 1..Len(list)
      /\ items = [n \in 1..Len(items) |-> items[n]]
  BY <1>1, <1>2
<1>4. ASSUME NEW n \in DOMAIN items
      PROVE  Item(items[n]) /\ items[n].state = state /\ Evidence!Sealed(items[n])
  <2> DEFINE x == [kind |-> list[n].kind, url |-> list[n].url, structured |-> list[n].structured,
                   to |-> list[n].to, status |-> Evidence!DefaultStatus(list[n]),
                   quarantined |-> list[n].prose = "instruction", state |-> state, hash |-> None]
  <2>1. items[n] = Evidence!Seal(x)
    BY <1>2, <1>3 DEF Evidence!Normalize
  <2>2. Item(x) /\ x.state = state
    BY DEF Item
  <2> QED
    BY <2>1, <2>2, SealedIsItself
<1> HIDE DEF items
<1> DEFINE s == Evidence!Snapshot(items, at)
<1>5. s = [at |-> at, items |-> items, hash |-> << at, items >>]
  BY DEF Evidence!Snapshot
<1>6. SnapshotIn(s, {state})
  BY <1>1, <1>3, <1>4, <1>5 DEF SnapshotIn
<1>7. Evidence!Acceptable(list) => Evidence!Verifies(s)
  BY <1>3, <1>4, <1>5 DEF Evidence!Verifies, Evidence!Acceptable
<1> QED
  BY <1>5, <1>6, <1>7 DEF items

\* A bundle is one of the items it was packaged with, or fewer, or edited ones.
LEMMA BundleIn ==
  ASSUME Evidence!SoundEvidence,
         NEW b \in Evidence!Packaged \cup Evidence!Edited
  PROVE  SnapshotIn(b, {"snapshot"})
<1>1. ASSUME NEW p \in Evidence!Packaged PROVE SnapshotIn(p, {"snapshot"})
  <2>1. PICK l \in Lists, t \in {0, Clock - 1, Clock + Skew + 1} :
          p = Evidence!Snapshot(Evidence!Normalized(l, "snapshot"), t)
    BY DEF Evidence!Packaged
  <2>2. t \in Int
    BY DEF Evidence!SoundEvidence
  <2> QED
    BY <2>1, <2>2, NormalizedIn
<1>2. ASSUME NEW p \in Evidence!Packaged, p.items # << >>, b = [p EXCEPT !.items = Tail(@)]
      PROVE  SnapshotIn(b, {"snapshot"})
  <2>1. SnapshotIn(p, {"snapshot"})
    BY <1>1
  <2> DEFINE S == {p.items[n] : n \in 1..Len(p.items)}
  <2>2. p.items \in Seq(S)
    <3>1. Len(p.items) \in Nat /\ p.items = [n \in 1..Len(p.items) |-> p.items[n]]
      BY <2>1 DEF SnapshotIn
    <3>2. p.items \in [1..Len(p.items) -> S]
      BY <3>1
    <3> QED
      BY <3>1, <3>2
  <2>3. Tail(p.items) \in Seq(S) /\ DOMAIN Tail(p.items) = 1..Len(Tail(p.items))
        /\ \A n \in DOMAIN Tail(p.items) : Tail(p.items)[n] = p.items[n + 1] /\ n + 1 \in DOMAIN p.items
    BY <1>2, <2>2
  <2>4. b = [at |-> p.at, items |-> Tail(p.items), hash |-> p.hash]
    BY <1>2, <2>1 DEF SnapshotIn
  <2>5. Tail(p.items) = [n \in 1..Len(Tail(p.items)) |-> Tail(p.items)[n]] /\ Len(Tail(p.items)) \in Nat
    BY <2>3, ListOf
  <2> HIDE DEF S
  <2> QED
    BY <2>1, <2>3, <2>4, <2>5 DEF SnapshotIn
<1>3. ASSUME NEW p \in Evidence!Packaged, p.items # << >>,
             b = Evidence!Snapshot([p.items EXCEPT ![1].quarantined = ~@], p.at)
      PROVE  SnapshotIn(b, {"snapshot"})
  <2> DEFINE items == [p.items EXCEPT ![1].quarantined = ~@]
  <2>1. SnapshotIn(p, {"snapshot"})
    BY <1>1
  <2>2. items = [n \in 1..Len(p.items) |-> items[n]] /\ DOMAIN items = DOMAIN p.items
    BY <2>1 DEF SnapshotIn
  <2>3. Len(items) \in Nat /\ DOMAIN items = 1..Len(items)
    BY <2>1, <2>2 DEF SnapshotIn
  <2>4. ASSUME NEW n \in DOMAIN items
        PROVE  Item(items[n]) /\ items[n].state = "snapshot"
    <3>1. Item(p.items[n]) /\ p.items[n].state = "snapshot"
      BY <2>1, <2>2, <2>4 DEF SnapshotIn
    <3>2. CASE n = 1
      <4>1. items[n] = [p.items[1] EXCEPT !.quarantined = ~@]
        BY <2>2, <2>4, <3>2
      <4> QED
        BY <3>1, <3>2, <4>1 DEF Item
    <3>3. CASE n # 1
      BY <2>2, <2>4, <3>1, <3>3
    <3> QED
      BY <3>2, <3>3
  <2> QED
    BY <1>3, <2>1, <2>3, <2>4 DEF SnapshotIn, Evidence!Snapshot
<1> QED
  BY <1>1, <1>2, <1>3 DEF Evidence!Edited

LEMMA RelabelledIn ==
  ASSUME NEW s, NEW states, SnapshotIn(s, states), NEW state
  PROVE  LET r == Evidence!Relabel(s, state)
         IN  /\ SnapshotIn(r, {state})
             /\ Len(s.items) <= MaxItems => Evidence!Verifies(r)
<1> DEFINE items == [n \in DOMAIN s.items |-> Evidence!Seal([s.items[n] EXCEPT !.state = state])]
           r     == Evidence!Relabel(s, state)
<1>1. Len(s.items) \in Nat /\ DOMAIN s.items = 1..Len(s.items) /\ s.at \in Int
  BY DEF SnapshotIn
<1>2. /\ Len(items) = Len(s.items) /\ DOMAIN items = 1..Len(s.items)
      /\ items = [n \in 1..Len(items) |-> items[n]]
  BY <1>1
<1>3. ASSUME NEW n \in DOMAIN items
      PROVE  Item(items[n]) /\ items[n].state = state /\ Evidence!Sealed(items[n])
  <2>1. Item(s.items[n])
    BY <1>1, <1>2, <1>3 DEF SnapshotIn
  <2>2. Item([s.items[n] EXCEPT !.state = state]) /\ [s.items[n] EXCEPT !.state = state].state = state
    BY <2>1 DEF Item
  <2> QED
    BY <1>1, <1>2, <1>3, <2>2, SealedIsItself
<1>4. r = [at |-> s.at, items |-> items, hash |-> << s.at, items >>]
  BY DEF Evidence!Relabel, Evidence!Snapshot
<1> HIDE DEF items, r
<1>5. SnapshotIn(r, {state})
  BY <1>1, <1>2, <1>3, <1>4 DEF SnapshotIn
<1>6. Len(s.items) <= MaxItems => Evidence!Verifies(r)
  BY <1>2, <1>3, <1>4 DEF Evidence!Verifies
<1> QED
  BY <1>5, <1>6 DEF r

(***************************************************************************)
(* What every answer is: it tells of the requests it made and of what they *)
(* carried, and what it shows verifies and has the label of its origin.    *)
(***************************************************************************)

LEMMA FallbackAnswers ==
  ASSUME Evidence!SoundEvidence, BundleSound,
         NEW state \in {"snapshot", "stale"}, NEW least \in {"low", "medium"}, NEW calls \in {0, 1},
         calls > 0 => request.decision = "approved"
  PROVE  LET r == Evidence!Fallback(state, least, calls)
         IN  /\ Shaped(r) /\ Asked(r) /\ Shows(r) /\ Bound(r)
             /\ Evidence!Loads(request.bundle) => r.ok
<1> DEFINE r == Evidence!Fallback(state, least, calls)
           s == Evidence!Relabel(request.bundle, state)
           mode == IF state = "stale" THEN "stale_snapshot" ELSE "bundled_snapshot"
           risk == Evidence!AtLeast(Evidence!Risk(s.at), least)
<1>1. CASE Evidence!Loads(request.bundle)
  <2>1. SnapshotIn(request.bundle, {"snapshot"}) /\ Len(request.bundle.items) <= MaxItems
    BY <1>1 DEF BundleSound, Evidence!Loads, Evidence!Verifies
  <2>2. SnapshotIn(s, {state}) /\ Evidence!Verifies(s)
    BY <2>1, RelabelledIn
  <2>3. r = Evidence!Answer(TRUE, mode, calls, s, risk)
    BY <1>1, <2>2 DEF Evidence!Fallback
  <2>4. risk # "none"
    BY DEF Evidence!AtLeast
  <2> HIDE DEF r, s, risk
  <2> HIDE DEF mode
  <2>5. /\ Shaped(r) /\ Asked(r) /\ Bound(r)
        /\ r.ok = TRUE /\ r.mode = mode /\ r.snapshot = s /\ r.risk = risk
    BY <2>3 DEF Evidence!Answer, Shaped, Asked, Bound, Evidence!TransportRequest
  <2>6. Shows(r)
    BY <2>2, <2>4, <2>5 DEF Shows, mode
  <2> QED
    BY <2>5, <2>6 DEF r
<1>2. CASE ~Evidence!Loads(request.bundle)
  <2>1. r = Evidence!Answer(FALSE, "unavailable_snapshot", calls, None, "unavailable")
    BY <1>2 DEF Evidence!Fallback
  <2> HIDE DEF r
  <2>2. Shaped(r) /\ Asked(r) /\ Bound(r) /\ r.ok = FALSE
    BY <2>1 DEF Evidence!Answer, Shaped, Asked, Bound, Evidence!TransportRequest
  <2> QED
    BY <1>2, <2>2 DEF Shows, r
<1> QED
  BY <1>1, <1>2

LEMMA LiveIsYoung ==
  ASSUME Evidence!SoundEvidence, NEW at \in Nat, Evidence!Risk(at) # "high"
  PROVE  Clock < at + High
<1>1. Clock \in Nat /\ High \in Nat
  BY DEF Evidence!SoundEvidence
<1>2. CASE at > Clock
  BY <1>1, <1>2
<1>3. CASE ~(at > Clock)
  BY <1>1, <1>3 DEF Evidence!Risk
<1> QED
  BY <1>2, <1>3

LEMMA FetchedAnswers ==
  ASSUME Evidence!SoundEvidence, BundleSound, NEW response \in Evidence!Responses,
         request.decision = "approved"
  PROVE  LET r == Evidence!Fetched(response)
         IN  /\ Shaped(r) /\ Asked(r) /\ Shows(r) /\ Bound(r)
             /\ Evidence!Loads(request.bundle) => r.ok
<1> DEFINE r == Evidence!Fetched(response)
           s == Evidence!Snapshot(Evidence!Normalized(response.items, "fresh"), response.at)
<1>1. CASE Evidence!Live(response)
  <2>1. response.items \in Lists /\ response.at \in Nat
    BY DEF Evidence!Responses, Evidence!SoundEvidence
  <2>2. SnapshotIn(s, {"fresh"}) /\ s.at = response.at /\ Evidence!Verifies(s)
    <3>1. response.at \in Int
      BY <2>1
    <3> QED
      BY <1>1, <2>1, <3>1, NormalizedIn DEF Evidence!Live
  <2>3. r = Evidence!Answer(TRUE, "live_refresh", 1, s, Evidence!Risk(response.at))
    BY <1>1 DEF Evidence!Fetched
  <2>4. response.at <= Clock + Skew /\ Clock < response.at + High
    BY <1>1, <2>1, LiveIsYoung DEF Evidence!Live
  <2> HIDE DEF r, s
  <2>5. /\ Shaped(r) /\ Asked(r) /\ Bound(r)
        /\ r.ok = TRUE /\ r.mode = "live_refresh" /\ r.calls = 1 /\ r.snapshot = s
    BY <2>3 DEF Evidence!Answer, Shaped, Asked, Bound, Evidence!TransportRequest
  <2>6. Shows(r)
    BY <2>2, <2>4, <2>5 DEF Shows, Live
  <2> QED
    BY <2>5, <2>6 DEF r
<1>2. CASE ~Evidence!Live(response)
  <2>1. r = Evidence!Fallback("stale", "medium", 1)
    BY <1>2 DEF Evidence!Fetched
  <2> QED
    BY <2>1, FallbackAnswers
<1> QED
  BY <1>1, <1>2

LEMMA EvidenceInit ==
  ASSUME Evidence!SoundEvidence, Evidence!Init PROVE EvidenceInv
BY BundleIn DEF Evidence!Init, EvidenceInv, BundleSound

LEMMA EvidenceStep ==
  ASSUME Evidence!SoundEvidence, EvidenceInv, [Evidence!Next]_(Evidence!vars)
  PROVE  EvidenceInv'
<1>1. ASSUME NEW r, result' = r, UNCHANGED request,
             Shaped(r), Asked(r), Shows(r), Bound(r), Evidence!Loads(request.bundle) => r.ok
      PROVE  EvidenceInv'
  <2>1. BundleSound'
    BY <1>1 DEF EvidenceInv, BundleSound, SnapshotIn, Item
  <2>2. Shaped(r)' /\ Shows(r)' /\ (Evidence!Loads(request.bundle) => r.ok)'
    BY <1>1 DEF Shaped, Shows, Live, SnapshotIn, Item, Evidence!Loads, Evidence!Verifies
  <2>3. Asked(r)'
    BY <1>1 DEF Asked, Evidence!Sendable
  <2>4. Bound(r)'
    <3>1. ASSUME NEW x, NEW v PROVE Evidence!Bind(x, v)' = Evidence!Bind(x, v)
      <4>1. Evidence!Matching(x)' = Evidence!Matching(x)
        BY <1>1 DEF Evidence!Matching
      <4>2. Evidence!Loads(request.bundle)' = Evidence!Loads(request.bundle)
        BY <1>1 DEF Evidence!Loads, Evidence!Verifies, Evidence!Sealed, Evidence!Material
      <4>3. Evidence!FixItem(x)' = Evidence!FixItem(x) /\ Evidence!Linked(x)' = Evidence!Linked(x)
        BY DEF Evidence!FixItem, Evidence!Linked, Evidence!FixKinds
      <4> QED
        BY <1>1, <4>1, <4>2, <4>3 DEF Evidence!Bind
    <3> QED
      BY <1>1, <3>1 DEF Bound
  <2> QED
    BY <1>1, <2>1, <2>2, <2>3, <2>4 DEF EvidenceInv
<1>2. CASE Evidence!Local
  BY <1>1, <1>2, FallbackAnswers DEF Evidence!Local, EvidenceInv
<1>3. CASE Evidence!NotInjected
  BY <1>1, <1>3, FallbackAnswers DEF Evidence!NotInjected, EvidenceInv
<1>4. CASE Evidence!Refresh
  BY <1>1, <1>4, FetchedAnswers DEF Evidence!Refresh, EvidenceInv
<1>5. CASE Evidence!BindShown
  <2>1. PICK n \in DOMAIN result.snapshot.items, v \in Wanted :
          result' = [result EXCEPT !.bind =
            [item |-> result.snapshot.items[n], version |-> v,
             answer |-> Evidence!Bind(result.snapshot.items[n], v)]]
    BY <1>5 DEF Evidence!BindShown
  <2>2. result # None /\ result.ok /\ UNCHANGED request
    BY <1>5 DEF Evidence!BindShown
  <2>3. result' = [ok |-> result.ok, mode |-> result.mode, calls |-> result.calls,
                   snapshot |-> result.snapshot, risk |-> result.risk, sent |-> result.sent,
                   bind |-> [item |-> result.snapshot.items[n], version |-> v,
                             answer |-> Evidence!Bind(result.snapshot.items[n], v)]]
    BY <2>1, <2>2 DEF EvidenceInv, Shaped
  <2>4. Shaped(result') /\ Asked(result') /\ Shows(result') /\ Bound(result') /\ result'.ok
    BY <2>2, <2>3 DEF EvidenceInv, Shaped, Asked, Shows, Live, Bound
  <2> QED
    BY <1>1, <2>2, <2>4
<1>6. CASE UNCHANGED Evidence!vars
  <2>1. UNCHANGED << request, result >>
    BY <1>6 DEF Evidence!vars
  <2>2. CASE result = None
    BY <2>1, <2>2 DEF EvidenceInv, BundleSound, SnapshotIn, Item
  <2>3. CASE result # None
    BY <1>1, <2>1, <2>3 DEF EvidenceInv
  <2> QED
    BY <2>2, <2>3
<1> QED
  BY <1>2, <1>3, <1>4, <1>5, <1>6 DEF Evidence!Next

\* What is shown binds only if it is the bundle's own item, and stands once.
LEMMA BoundIsBundled ==
  ASSUME Evidence!SoundEvidence, EvidenceInv, result # None, result.bind # None,
         result.bind.answer = "bound"
  PROVE  /\ result.mode = "bundled_snapshot"
         /\ \E n \in DOMAIN request.bundle.items :
              /\ request.bundle.items[n] = result.bind.item
              /\ \A m \in DOMAIN request.bundle.items \ {n} :
                   request.bundle.items[m] # result.bind.item
         /\ result.bind.item.status # "user_reported" /\ ~result.bind.item.quarantined
<1> DEFINE item == result.bind.item
           b    == request.bundle.items
<1>1. PICK n \in DOMAIN result.snapshot.items, v \in Wanted :
        item = result.snapshot.items[n] /\ Evidence!Bind(item, v) = "bound"
  <2>1. \E n \in DOMAIN result.snapshot.items, v \in Wanted :
          result.bind = [item |-> result.snapshot.items[n], version |-> v,
                         answer |-> Evidence!Bind(result.snapshot.items[n], v)]
    BY DEF EvidenceInv, Bound
  <2> QED
    BY <2>1
<1>2. PICK state \in {"snapshot", "stale", "fresh"} :
        /\ SnapshotIn(result.snapshot, {state}) /\ Evidence!Verifies(result.snapshot)
        /\ state = "snapshot" => result.mode = "bundled_snapshot"
  BY DEF EvidenceInv, Bound, Shows
<1>3. Item(item) /\ Evidence!Sealed(item) /\ item.state = state
  BY <1>1, <1>2 DEF SnapshotIn, Evidence!Verifies
<1>4. /\ Evidence!Loads(request.bundle) /\ Evidence!Matching(item) # {}
      /\ \A k, m \in Evidence!Matching(item) : k = m
      /\ Evidence!FixItem(item)
  BY <1>1 DEF Evidence!Bind
<1>5. SnapshotIn(request.bundle, {"snapshot"}) /\ Evidence!Verifies(request.bundle)
  BY <1>4 DEF EvidenceInv, BundleSound, Evidence!Loads
<1>6. PICK k \in DOMAIN b : k \in Evidence!Matching(item)
  BY <1>4 DEF Evidence!Matching
<1>7. /\ b[k].hash = item.hash /\ Item(b[k]) /\ Evidence!Sealed(b[k]) /\ b[k].state = "snapshot"
  BY <1>5, <1>6 DEF Evidence!Matching, SnapshotIn, Evidence!Verifies
<1>8. b[k] = item
  BY <1>3, <1>7, SealedAreEqual
<1>9. \A m \in DOMAIN b \ {k} : b[m] # item
  BY <1>4, <1>6 DEF Evidence!Matching
<1>10. item.status # "user_reported" /\ ~item.quarantined
  BY <1>4 DEF Evidence!FixItem
<1> QED
  BY <1>2, <1>3, <1>6, <1>7, <1>8, <1>9, <1>10

LEMMA EvidenceInvSound ==
  ASSUME Evidence!SoundEvidence, EvidenceInv
  PROVE  Evidence!EvidenceIsSound
<1>1. Evidence!OnlyWhatWasDisclosed
  <2> SUFFICES ASSUME result # None
               PROVE  /\ result.calls > 0 => (request.decision = "approved" /\ result.calls = 1)
                      /\ result.sent \subseteq Evidence!Manifest(request.context) \ Evidence!DeviceOnly
                      /\ \A f \in result.sent \cap LocalFields : request.context[f] = "token"
    BY DEF Evidence!OnlyWhatWasDisclosed
  <2>1. Asked(result)
    BY DEF EvidenceInv
  <2>2. /\ Evidence!Allowlists \cap Evidence!DeviceOnly = {}
        /\ Evidence!Sendable(request.context) \subseteq LocalFields
        /\ LocalFields \cap (Evidence!Allowlists \cup Evidence!DeviceOnly) = {}
        /\ \A f \in Evidence!Sendable(request.context) : request.context[f] = "token"
    BY DEF Evidence!Allowlists, Evidence!DeviceOnly, Evidence!Sendable, Evidence!SoundEvidence
  <2>3. result.calls > 0 => (request.decision = "approved" /\ result.calls = 1)
    BY <2>1 DEF Asked
  <2>4. result.sent \subseteq Evidence!Manifest(request.context) \ Evidence!DeviceOnly
    BY <2>1, <2>2 DEF Asked, Evidence!Manifest
  <2>5. \A f \in result.sent \cap LocalFields : request.context[f] = "token"
    BY <2>1, <2>2 DEF Asked
  <2> QED
    BY <2>3, <2>4, <2>5
<1>2. Evidence!EvidenceIsAvailable
  BY DEF EvidenceInv, Evidence!EvidenceIsAvailable
<1>3. Evidence!FreshIsLive
  <2> SUFFICES ASSUME result # None, result.ok
               PROVE  /\ Evidence!Verifies(result.snapshot)
                      /\ (\/ result.risk = "none"
                          \/ \E n \in DOMAIN result.snapshot.items :
                               result.snapshot.items[n].state = "fresh") => Live(result)
    BY DEF Evidence!FreshIsLive, Live
  <2>1. PICK state \in {"snapshot", "stale", "fresh"} :
          /\ SnapshotIn(result.snapshot, {state}) /\ Evidence!Verifies(result.snapshot)
          /\ (state = "fresh" \/ result.risk = "none") => Live(result)
    BY DEF EvidenceInv, Shows
  <2> QED
    BY <2>1 DEF SnapshotIn
<1>4. Evidence!AuthorityIsBundled
  BY BoundIsBundled DEF Evidence!AuthorityIsBundled
<1> QED
  BY <1>1, <1>2, <1>3, <1>4 DEF Evidence!EvidenceIsSound

-----------------------------------------------------------------------------
(***************************************************************************)
(* SupportReceipts.  What a verdict of full demands, and of which receipt. *)
(***************************************************************************)
LEMMA FullDemands ==
  ASSUME NEW r, NEW witness, Receipts!Level(r, witness) = "full"
  PROVE  /\ witness \notin {None, Receipts!Forged} /\ Receipts!Attests(witness, r)
         /\ r.isolation = Receipts!IsolationDigest(r)
<1>1. Receipts!Derived(r.scenarios, r.gaps) \in {"full", "preview"}
  BY DEF Receipts!Derived
<1>2. Receipts!Errors(r, witness) = {} /\ r.claimed = "full"
  BY <1>1 DEF Receipts!Level
<1>3. /\ "full_requires_live_attestation" \notin Receipts!Errors(r, witness)
      /\ "live_attestation_mismatch" \notin Receipts!Errors(r, witness)
      /\ "isolation_digest_mismatch" \notin Receipts!Errors(r, witness)
  BY <1>2
<1>4. witness \notin {None, Receipts!Forged}
  BY <1>2, <1>3 DEF Receipts!Errors
<1> QED
  BY <1>3, <1>4 DEF Receipts!Errors

LEMMA FullIsOriginal ==
  ASSUME NEW o, Original(o), o.isolated, NEW r \in Receipts!Receipt,
         Receipts!Level(r, Receipts!Attestation(o)) = "full"
  PROVE  r = o /\ \A id \in Scenarios : r.scenarios[id] = "pass"
<1>1. /\ Receipts!Attestation(o) = Receipts!Attestation(r)
      /\ Receipts!Derived(r.scenarios, r.gaps) = "full" /\ r.claimed = "full" /\ r.isolated
      /\ r.isolation = Receipts!IsolationDigest(r)
  BY FullDemands DEF Receipts!Attests
<1>2. /\ r.scenarios = o.scenarios /\ r.isolation = o.isolation /\ r.id = o.id
      /\ r.commit = o.commit /\ r.host = o.host /\ r.started_at = o.started_at
  BY <1>1 DEF Receipts!Attestation
<1>3. r.home_witness = o.home_witness
  BY <1>1, <1>2 DEF Original, Receipts!IsolationDigest
<1>4. r.gaps = {} /\ Receipts!Gaps(r.scenarios, {}) = {}
  BY <1>1 DEF Receipts!Derived, Receipts!Gaps
<1>5. o.gaps = {} /\ o.claimed = "full"
  BY <1>2, <1>4 DEF Original, Receipts!Derived
<1>6. r = o
  BY <1>1, <1>2, <1>3, <1>4, <1>5 DEF Original, Receipts!Receipt
<1>7. \A id \in Scenarios : r.scenarios[id] = "pass"
  BY <1>2, <1>4 DEF Original, Receipts!Gaps
<1> QED
  BY <1>6, <1>7

LEMMA LessTravels ==
  ASSUME NEW o, Original(o), o.claimed # "full"
  PROVE  Receipts!Verdict(o, None) = [ok |-> TRUE, level |-> o.claimed]
<1>1. Receipts!Errors(o, None) = {}
  BY DEF Receipts!Errors, Original
<1> QED
  BY <1>1 DEF Receipts!Verdict, Receipts!Level

\* The instance's counting is counting.
LEMMA SameCount ==
  \A S : Receipts!Cardinality(S) = Cardinality(S) /\ (Receipts!IsFiniteSet(S) <=> IsFiniteSet(S))
BY Zenon DEF Cardinality, IsFiniteSet, Receipts!Cardinality, Receipts!IsFiniteSet

LEMMA ResealedType ==
  ASSUME Receipts!SoundSupport, NEW r, Unsealed(r)
  PROVE  /\ Receipts!Resealed(r) \in Receipts!Receipt
         /\ Receipts!Resealed(r) =
              [id |-> Receipts!ReceiptId(r), isolation |-> Receipts!IsolationDigest(r),
               scenarios |-> r.scenarios, isolated |-> r.isolated,
               home_witness |-> r.home_witness, started_at |-> r.started_at,
               commit |-> r.commit, host |-> r.host, claimed |-> r.claimed, gaps |-> r.gaps]
<1>1. PICK S \in SUBSET Scenarios : r.scenarios \in [S -> {"pass", "fail", "skipped"}]
  BY DEF Unsealed, Receipts!Reached
<1>2. IsFiniteSet(DOMAIN r.scenarios)
  BY <1>1, FS_Subset, SameCount DEF Receipts!SoundSupport
<1>3. Cardinality(DOMAIN r.scenarios) \in Nat
  BY <1>2, FS_CardinalityType
<1>4. /\ Receipts!ReceiptId(r) \in {"start", "later"} \X Receipts!Reached
      /\ Receipts!IsolationDigest(r) \in Nat \X SUBSET {0}
  BY <1>3, SameCount DEF Receipts!ReceiptId, Receipts!IsolationDigest, Unsealed
<1>5. Receipts!Resealed(r) =
        [id |-> Receipts!ReceiptId(r), isolation |-> Receipts!IsolationDigest(r),
         scenarios |-> r.scenarios, isolated |-> r.isolated,
         home_witness |-> r.home_witness, started_at |-> r.started_at,
         commit |-> r.commit, host |-> r.host, claimed |-> r.claimed, gaps |-> r.gaps]
  <2> DEFINE i == Receipts!ReceiptId(r)
             j == Receipts!IsolationDigest(r)
  <2>1. Receipts!Resealed(r) = [[r EXCEPT !.id = i] EXCEPT !.isolation = j]
    BY DEF Receipts!Resealed
  <2> HIDE DEF i, j
  <2>2. PICK a, b, c, d, e, f, g, h, k, l :
          r = [id |-> a, isolation |-> b, scenarios |-> c, isolated |-> d, home_witness |-> e,
               started_at |-> f, commit |-> g, host |-> h, claimed |-> k, gaps |-> l]
    BY Zenon DEF Unsealed
  <2> DEFINE q == [r EXCEPT !.id = i]
  <2>3. q = [id |-> i, isolation |-> b, scenarios |-> c, isolated |-> d, home_witness |-> e,
             started_at |-> f, commit |-> g, host |-> h, claimed |-> k, gaps |-> l]
    BY <2>2
  <2> HIDE DEF q
  <2>4. [q EXCEPT !.isolation = j] =
          [id |-> i, isolation |-> j, scenarios |-> c, isolated |-> d, home_witness |-> e,
           started_at |-> f, commit |-> g, host |-> h, claimed |-> k, gaps |-> l]
    BY <2>3
  <2>5. /\ r.scenarios = c /\ r.isolated = d /\ r.home_witness = e /\ r.started_at = f
        /\ r.commit = g /\ r.host = h /\ r.claimed = k /\ r.gaps = l
    BY <2>2
  <2> QED
    BY <2>1, <2>4, <2>5, Zenon DEF i, j, q
<1> QED
  BY <1>4, <1>5 DEF Receipts!Receipt, Unsealed

(***************************************************************************)
(* The harness: what it wrote, that nobody touched a profile it found the  *)
(* same, and that a witness is of this receipt.                            *)
(***************************************************************************)

LEMMA ReceiptInit ==
  ASSUME Receipts!Init PROVE ReceiptInv
<1>1. CASE request \in [kind : {"macos"}, requirePackage : BOOLEAN]
           /\ run \in {[outcomes |-> << >>, profile |-> p, before |-> Receipts!Capture(p),
                        touched |-> FALSE, receipt |-> None, original |-> None, witness |-> None] :
                         p \in [version : {0}, link : BOOLEAN]}
  <2>1. PICK p \in [version : {0}, link : BOOLEAN] :
          run = [outcomes |-> << >>, profile |-> p, before |-> Receipts!Capture(p),
                 touched |-> FALSE, receipt |-> None, original |-> None, witness |-> None]
    BY <1>1
  <2>2. << >> \in Receipts!Reached
    <3>1. << >> \in [{} -> {"pass", "fail", "skipped"}]
      OBVIOUS
    <3> QED
      BY <3>1 DEF Receipts!Reached
  <2>3. Receipts!Capture(p) \in {[digest |-> {}, provable |-> FALSE], [digest |-> {0}, provable |-> TRUE]}
    BY DEF Receipts!Capture
  <2>4. Harness
    BY <2>1, <2>2, <2>3 DEF Harness
  <2>5. result = None
    BY DEF Receipts!Init
  <2> QED
    BY <1>1, <2>1, <2>4, <2>5 DEF ReceiptInv, MacInv, Written, Receipts!FullIsEarned
<1>2. CASE \E r \in Receipts!WindowsReceipts :
             request \in [kind : {"windows"}, receipt : {r},
                          witness : {None, [r EXCEPT !.by = "run"]}]
  BY <1>2 DEF Receipts!Init, ReceiptInv, WindowsInv
<1>3. CASE request \in [kind : {"capability"}, adapter : Receipts!Adapters,
                        receipt : Receipts!SupportReceipt \cup {None}]
  BY <1>3 DEF Receipts!Init, ReceiptInv, CapabilityInv
<1> QED
  BY <1>1, <1>2, <1>3 DEF Receipts!Init

LEMMA FinishKeeps ==
  ASSUME Receipts!SoundSupport, MacInv, Receipts!Finish
  PROVE  MacInv'
<1> DEFINE after   == Receipts!Capture(run.profile)
           proved  == Receipts!IsolationProved(run.before, after)
           receipt == Receipts!Built(run.before, after)
           witness == IF proved THEN Receipts!Attestation(receipt) ELSE None
           verdict == Receipts!Verdict(receipt, witness)
<1>1. /\ run.receipt = None /\ DOMAIN run.outcomes = Scenarios /\ UNCHANGED request
      /\ run' = [run EXCEPT !.receipt = receipt, !.original = receipt, !.witness = witness]
      /\ result' = [of |-> receipt, ok |-> verdict.ok, level |-> verdict.level,
                    exit |-> IF verdict.ok /\ verdict.level = "full" THEN 0 ELSE 1]
  BY DEF Receipts!Finish
<1>2. Harness /\ Written
  BY DEF MacInv
<1>3. Original(receipt) /\ receipt.isolated = proved
  <2> DEFINE extra == IF proved THEN {} ELSE {"isolation"}
             r == [id |-> None, isolation |-> None,
                   scenarios |-> run.outcomes, isolated |-> proved,
                   home_witness |-> run.before.digest,
                   started_at |-> "start", commit |-> "head", host |-> "here",
                   claimed |-> Receipts!Derived(run.outcomes, extra),
                   gaps |-> Receipts!Gaps(run.outcomes, extra)]
  <2>1. receipt = Receipts!Resealed(r)
    BY DEF Receipts!Built
  <2>2. /\ run.before.digest \in SUBSET {0} /\ proved \in BOOLEAN /\ run.outcomes \in Receipts!Reached
        /\ Receipts!Derived(run.outcomes, extra) \in {"full", "preview", "limited"}
        /\ Receipts!Gaps(run.outcomes, extra) \in SUBSET (Scenarios \cup {"isolation"})
    BY <1>1, <1>2 DEF Harness, Receipts!Derived, Receipts!Gaps, Receipts!IsolationProved
  <2> HIDE DEF proved, extra
  <2>3. Unsealed(r)
    BY <2>2 DEF Unsealed
  <2>4. /\ receipt \in Receipts!Receipt
        /\ receipt = [id |-> Receipts!ReceiptId(r), isolation |-> Receipts!IsolationDigest(r),
                      scenarios |-> run.outcomes, isolated |-> proved,
                      home_witness |-> run.before.digest,
                      started_at |-> "start", commit |-> "head", host |-> "here",
                      claimed |-> Receipts!Derived(run.outcomes, extra),
                      gaps |-> Receipts!Gaps(run.outcomes, extra)]
    BY <2>1, <2>3, ResealedType
  <2>6. /\ receipt.scenarios = run.outcomes /\ receipt.isolated = proved
        /\ receipt.gaps = Receipts!Gaps(run.outcomes, extra)
        /\ receipt.claimed = Receipts!Derived(run.outcomes, extra)
        /\ receipt.id = Receipts!ReceiptId(receipt)
        /\ receipt.isolation = Receipts!IsolationDigest(receipt)
    BY <2>4 DEF Receipts!ReceiptId, Receipts!IsolationDigest
  <2> HIDE DEF receipt
  <2> QED
    BY <1>1, <2>4, <2>6 DEF Original, extra
<1>4. proved => ~run.touched
  BY <1>1, <1>2 DEF Harness, Written, Receipts!IsolationProved, Receipts!Capture
<1> HIDE DEF receipt, proved
<1>5. receipt \in Receipts!Receipt /\ receipt # None
  BY <1>3 DEF Original, Receipts!SoundSupport
<1> HIDE DEF witness, verdict
<1>6. run' = [outcomes |-> run.outcomes, profile |-> run.profile, before |-> run.before,
              touched |-> run.touched, receipt |-> receipt, original |-> receipt, witness |-> witness]
  BY <1>1, <1>2 DEF Harness
<1>7. Harness'
  BY <1>2, <1>6 DEF Harness, Receipts!Reached
<1>8. witness # None => receipt.isolated /\ witness = Receipts!Attestation(receipt)
  BY <1>3 DEF witness
<1>9. Written'
  BY <1>3, <1>4, <1>5, <1>6, <1>8 DEF Written, Original
<1>10. Receipts!FullIsEarned'
  <2>1. result'.of = receipt /\ result'.level = verdict.level
        /\ (result'.exit = 0 => verdict.level = "full")
    BY <1>1
  <2>2. ASSUME verdict.level = "full"
        PROVE  /\ \A id \in Scenarios : receipt.scenarios[id] = "pass"
               /\ ~run.touched /\ witness # None
    <3>1. Receipts!Level(receipt, witness) = "full"
      BY <2>2 DEF verdict, Receipts!Verdict
    <3>2. witness # None
      BY <3>1, FullDemands
    <3>3. receipt.isolated /\ witness = Receipts!Attestation(receipt)
      BY <1>8, <3>2
    <3>4. Receipts!Level(receipt, Receipts!Attestation(receipt)) = "full"
      BY <3>1, <3>3
    <3>5. \A id \in Scenarios : receipt.scenarios[id] = "pass"
      BY <1>3, <1>5, <3>3, <3>4, FullIsOriginal
    <3> QED
      BY <1>3, <1>4, <3>2, <3>3, <3>5
  <2> QED
    BY <1>1, <1>6, <2>1, <2>2 DEF Receipts!FullIsEarned
<1> QED
  BY <1>7, <1>9, <1>10 DEF MacInv

\* A scenario, a change of the profile and the end of the process.
LEMMA RunScenarioKeeps ==
  ASSUME MacInv, Receipts!RunScenario PROVE MacInv'
<1>1. PICK id \in Scenarios, status \in {"pass", "fail", "skipped"} :
        run' = [run EXCEPT !.outcomes =
                  [i \in DOMAIN run.outcomes \cup {id} |->
                     IF i = id THEN status ELSE run.outcomes[i]]]
  <2>1. \A id : Receipts!Outcomes(id) \subseteq {"pass", "fail", "skipped"}
    BY DEF Receipts!Outcomes, Receipts!SmokeOutcomes
  <2> QED
    BY <2>1 DEF Receipts!RunScenario
<1>2. run.receipt = None /\ UNCHANGED << request, result >>
  BY DEF Receipts!RunScenario
<1> DEFINE outcomes == [i \in DOMAIN run.outcomes \cup {id} |->
                          IF i = id THEN status ELSE run.outcomes[i]]
<1>3. outcomes \in Receipts!Reached
  <2>2. PICK S \in SUBSET Scenarios : run.outcomes \in [S -> {"pass", "fail", "skipped"}]
    BY DEF MacInv, Harness, Receipts!Reached
  <2>3. outcomes \in [S \cup {id} -> {"pass", "fail", "skipped"}] /\ S \cup {id} \in SUBSET Scenarios
    BY <2>2
  <2> QED
    BY <2>3 DEF Receipts!Reached
<1> HIDE DEF outcomes
<1>4. run' = [outcomes |-> outcomes, profile |-> run.profile, before |-> run.before,
              touched |-> run.touched, receipt |-> run.receipt, original |-> run.original,
              witness |-> run.witness]
  BY <1>1 DEF MacInv, Harness, outcomes
<1>5. Harness'
  BY <1>3, <1>4 DEF MacInv, Harness, Receipts!Reached
<1>6. Written'
  BY <1>2, <1>4 DEF MacInv, Written
<1>7. Receipts!FullIsEarned'
  BY <1>2, <1>4 DEF MacInv, Written, Receipts!FullIsEarned
<1> QED
  BY <1>5, <1>6, <1>7 DEF MacInv

LEMMA TouchKeeps ==
  ASSUME MacInv, Receipts!Touch PROVE MacInv'
<1>1. PICK link \in BOOLEAN :
        run' = [run EXCEPT !.profile = [version |-> @.version + 1, link |-> link],
                           !.touched = @ \/ run.receipt = None]
  BY DEF Receipts!Touch
<1>2. UNCHANGED << request, result >>
  BY DEF Receipts!Touch
<1> DEFINE profile == [version |-> run.profile.version + 1, link |-> link]
           touched == run.touched \/ run.receipt = None
<1>3. profile \in [version : Nat, link : BOOLEAN] /\ profile.version > 0 /\ touched \in BOOLEAN
  BY DEF MacInv, Harness
<1>4. run' = [outcomes |-> run.outcomes, profile |-> profile, before |-> run.before,
              touched |-> touched, receipt |-> run.receipt, original |-> run.original,
              witness |-> run.witness]
  BY <1>1 DEF MacInv, Harness
<1>5. run.receipt # None => touched = run.touched
  BY DEF MacInv, Harness
<1> HIDE DEF profile, touched
<1>6. Harness'
  BY <1>3, <1>4 DEF MacInv, Harness, Receipts!Reached
<1>7. Written'
  BY <1>2, <1>3, <1>4, <1>5 DEF MacInv, Written, Original, Receipts!Receipt, Receipts!Reached
<1>8. Receipts!FullIsEarned'
  BY <1>2, <1>4, <1>5 DEF MacInv, Written, Receipts!FullIsEarned
<1> QED
  BY <1>6, <1>7, <1>8 DEF MacInv

LEMMA RestartKeeps ==
  ASSUME MacInv, Receipts!Restart PROVE MacInv'
<1>1. /\ run' = [run EXCEPT !.witness = None] /\ result' = None /\ UNCHANGED request
      /\ run.witness # None
  BY DEF Receipts!Restart
<1>2. run' = [outcomes |-> run.outcomes, profile |-> run.profile, before |-> run.before,
              touched |-> run.touched, receipt |-> run.receipt, original |-> run.original,
              witness |-> None]
  BY <1>1 DEF MacInv, Harness
<1>3. Harness'
  BY <1>2 DEF MacInv, Harness, Receipts!Reached
<1>4. Written'
  BY <1>1, <1>2 DEF MacInv, Written, Original, Receipts!Receipt, Receipts!Reached
<1>5. Receipts!FullIsEarned'
  BY <1>1 DEF Receipts!FullIsEarned
<1> QED
  BY <1>3, <1>4, <1>5 DEF MacInv

\* Whatever witness is presented, full is what the live one attests.
LEMMA ValidateKeeps ==
  ASSUME Receipts!SoundSupport, MacInv, Receipts!Validate PROVE MacInv'
<1>1. PICK witness \in {None, Receipts!Forged, run.witness} :
        result' = [of |-> run.receipt, ok |-> Receipts!Verdict(run.receipt, witness).ok,
                   level |-> Receipts!Verdict(run.receipt, witness).level, exit |-> None]
  BY DEF Receipts!Validate
<1>2. run.receipt # None /\ UNCHANGED << request, run >>
  BY DEF Receipts!Validate
<1>3. ASSUME Receipts!Level(run.receipt, witness) = "full"
      PROVE  /\ \A id \in Scenarios : run.receipt.scenarios[id] = "pass"
             /\ run.receipt = run.original /\ ~run.touched /\ run.witness # None
  <2>1. witness = run.witness /\ run.witness # None
    BY <1>3, FullDemands
  <2>2. run.original.isolated /\ witness = Receipts!Attestation(run.original)
    BY <1>2, <2>1 DEF MacInv, Written
  <2>3. Original(run.original) /\ run.receipt \in Receipts!Receipt /\ ~run.touched
    BY <1>2, <2>2 DEF MacInv, Written
  <2>4. Receipts!Level(run.receipt, Receipts!Attestation(run.original)) = "full"
    BY <1>3, <2>2
  <2> QED
    BY <2>1, <2>2, <2>3, <2>4, FullIsOriginal
<1>4. Harness' /\ Written'
  BY <1>2 DEF MacInv, Harness, Written, Original, Receipts!Receipt, Receipts!Reached
<1>5. /\ result'.of = run.receipt /\ result'.exit = None
      /\ result'.level = Receipts!Level(run.receipt, witness)
  BY <1>1 DEF Receipts!Verdict
<1>6. Receipts!FullIsEarned'
  BY <1>2, <1>3, <1>5 DEF Receipts!FullIsEarned, Receipts!SoundSupport
<1> QED
  BY <1>4, <1>6 DEF MacInv

LEMMA ReceiptIsUnsealed ==
  ASSUME NEW r \in Receipts!Receipt PROVE Unsealed(r)
BY DEF Receipts!Receipt, Unsealed

\* An edit leaves a receipt, sealed anew or not.
LEMMA EditKeeps ==
  ASSUME Receipts!SoundSupport, MacInv, Receipts!Edit PROVE MacInv'
<1> DEFINE o == run.receipt
<1>1. o \in Receipts!Receipt /\ run.receipt # None /\ UNCHANGED << request, result >>
  BY DEF Receipts!Edit, MacInv, Written
<1>2. PICK r \in {[o EXCEPT !.claimed = "full"], [o EXCEPT !.claimed = "limited"],
                  [o EXCEPT !.claimed = "full", !.gaps = {}],
                  [o EXCEPT !.claimed = "full", !.gaps = {}, !.isolated = TRUE],
                  [o EXCEPT !.commit = "other"], [o EXCEPT !.host = "there"],
                  [o EXCEPT !.home_witness = {}],
                  [o EXCEPT !.started_at = "later"],
                  [o EXCEPT !.claimed = "full", !.gaps = {}, !.isolated = TRUE,
                            !.scenarios = [id \in Scenarios |-> "pass"]]} :
        \E sealed \in BOOLEAN :
          run' = [run EXCEPT !.receipt = IF sealed THEN Receipts!Resealed(r) ELSE r]
  BY Zenon DEF Receipts!Edit
<1>3. PICK sealed \in BOOLEAN :
        run' = [run EXCEPT !.receipt = IF sealed THEN Receipts!Resealed(r) ELSE r]
  BY <1>2
<1> HIDE DEF o
<1>4. r \in Receipts!Receipt
  <2>1. /\ [o EXCEPT !.claimed = "limited"] \in Receipts!Receipt
        /\ [o EXCEPT !.commit = "other"] \in Receipts!Receipt
        /\ [o EXCEPT !.host = "there"] \in Receipts!Receipt
        /\ [o EXCEPT !.started_at = "later"] \in Receipts!Receipt
        /\ [o EXCEPT !.home_witness = {}] \in Receipts!Receipt
    BY <1>1 DEF Receipts!Receipt
  <2> DEFINE a == [o EXCEPT !.claimed = "full"]
             b == [a EXCEPT !.gaps = {}]
             c == [b EXCEPT !.isolated = TRUE]
             d == [c EXCEPT !.scenarios = [id \in Scenarios |-> "pass"]]
  <2>2. a \in Receipts!Receipt
    BY <1>1 DEF Receipts!Receipt
  <2> HIDE DEF a
  <2>3. b \in Receipts!Receipt
    BY <2>2 DEF Receipts!Receipt
  <2> HIDE DEF b
  <2>4. c \in Receipts!Receipt
    BY <2>3 DEF Receipts!Receipt
  <2> HIDE DEF c
  <2>5. [id \in Scenarios |-> "pass"] \in Receipts!Reached
    <3>1. [id \in Scenarios |-> "pass"] \in [Scenarios -> {"pass", "fail", "skipped"}]
      OBVIOUS
    <3> QED
      BY <3>1 DEF Receipts!Reached
  <2>6. d \in Receipts!Receipt
    BY <2>4, <2>5 DEF Receipts!Receipt
  <2> QED
    BY <1>2, <2>1, <2>2, <2>3, <2>4, <2>6, Zenon DEF a, b, c, o
<1> DEFINE edited == IF sealed THEN Receipts!Resealed(r) ELSE r
<1>5. edited \in Receipts!Receipt /\ edited # None
  BY <1>4, ReceiptIsUnsealed, ResealedType DEF Receipts!SoundSupport
<1> HIDE DEF edited
<1>6. run' = [outcomes |-> run.outcomes, profile |-> run.profile, before |-> run.before,
              touched |-> run.touched, receipt |-> edited, original |-> run.original,
              witness |-> run.witness]
  BY <1>3 DEF MacInv, Harness, edited
<1>7. Harness'
  BY <1>6 DEF MacInv, Harness, Receipts!Reached
<1>8. Written'
  <2>1. Original(run.original)'
    BY <1>1, <1>5, <1>6 DEF MacInv, Written, Original, Receipts!Receipt, Receipts!Reached
  <2> QED
    BY <1>1, <1>5, <1>6 DEF MacInv, Written
<1>9. Receipts!FullIsEarned'
  BY <1>1, <1>6 DEF MacInv, Receipts!FullIsEarned
<1> QED
  BY <1>7, <1>8, <1>9 DEF MacInv

LEMMA EvaluateKeeps ==
  ASSUME WindowsInv, Receipts!EvaluateWindows PROVE WindowsInv'
<1>1. PICK witness \in {None, Receipts!Forged, request.witness} :
        result' = [level |-> Receipts!WindowsLevel(request.receipt, witness), witness |-> witness]
  BY DEF Receipts!EvaluateWindows
<1>2. UNCHANGED request
  BY DEF Receipts!EvaluateWindows
<1> QED
  BY <1>1, <1>2 DEF WindowsInv

LEMMA ReceiptStep ==
  ASSUME Receipts!SoundSupport, ReceiptInv, [Receipts!Next]_(Receipts!vars) PROVE ReceiptInv'
<1>1. request' = request
  BY DEF Receipts!Next, Receipts!vars, Receipts!RunScenario, Receipts!Touch, Receipts!Finish,
         Receipts!Edit, Receipts!Restart, Receipts!Validate, Receipts!EvaluateWindows,
         Receipts!ReportCapability
<1>2. CASE request.kind = "macos"
  <2>1. MacInv
    BY <1>2 DEF ReceiptInv
  <2>2. ASSUME UNCHANGED Receipts!vars PROVE MacInv'
    <3>1. run' = run /\ result' = result
      BY <2>2 DEF Receipts!vars
    <3>2. Harness'
      BY <2>1, <3>1 DEF MacInv, Harness, Receipts!Reached
    <3>3. Written'
      BY <2>1, <3>1 DEF MacInv, Written, Original, Receipts!Receipt, Receipts!Reached
    <3>4. Receipts!FullIsEarned'
      BY <1>1, <2>1, <3>1 DEF MacInv, Receipts!FullIsEarned
    <3> QED
      BY <3>2, <3>3, <3>4 DEF MacInv
  <2>3. \/ Receipts!RunScenario \/ Receipts!Touch \/ Receipts!Finish \/ Receipts!Edit
        \/ Receipts!Restart \/ Receipts!Validate \/ UNCHANGED Receipts!vars
    BY <1>2, Zenon DEF Receipts!Next, Receipts!EvaluateWindows, Receipts!ReportCapability
  <2>4. MacInv'
    BY <2>1, <2>2, <2>3, Zenon, RunScenarioKeeps, TouchKeeps, FinishKeeps, EditKeeps,
       RestartKeeps, ValidateKeeps
  <2> QED
    BY <1>1, <1>2, <2>4 DEF ReceiptInv
<1>3. CASE request.kind = "windows"
  <2>1. WindowsInv
    BY <1>3 DEF ReceiptInv
  <2>2. Receipts!EvaluateWindows \/ UNCHANGED Receipts!vars
    BY <1>3 DEF Receipts!Next, Receipts!RunScenario, Receipts!Touch, Receipts!Finish,
                Receipts!Edit, Receipts!Restart, Receipts!Validate, Receipts!ReportCapability
  <2>3. WindowsInv'
    BY <2>1, <2>2, EvaluateKeeps DEF Receipts!vars, WindowsInv
  <2> QED
    BY <1>1, <1>3, <2>3 DEF ReceiptInv
<1>4. CASE request.kind = "capability"
  <2>1. CapabilityInv
    BY <1>4 DEF ReceiptInv
  <2>2. Receipts!ReportCapability \/ UNCHANGED Receipts!vars
    BY <1>4 DEF Receipts!Next, Receipts!RunScenario, Receipts!Touch, Receipts!Finish,
                Receipts!Edit, Receipts!Restart, Receipts!Validate, Receipts!EvaluateWindows
  <2>3. CapabilityInv'
    BY <2>1, <2>2 DEF Receipts!vars, Receipts!ReportCapability, CapabilityInv
  <2> QED
    BY <1>1, <1>4, <2>3 DEF ReceiptInv
<1> QED
  BY <1>1, <1>2, <1>3, <1>4 DEF ReceiptInv

LEMMA WindowsIsEarned ==
  ASSUME WindowsInv PROVE Receipts!WindowsFullIsEarned
<1> SUFFICES ASSUME result # None, result.level = "full"
             PROVE  /\ request.receipt.by = "run" /\ result.witness = request.receipt
                    /\ request.receipt.host_kind = "real_machine"
                    /\ request.receipt.platform = "windows"
                    /\ request.receipt.w11 /\ request.receipt.attested = "both"
                    /\ \A id \in Critical : request.receipt.rows[id] = "passed"
  BY DEF Receipts!WindowsFullIsEarned
<1> DEFINE r == request.receipt
<1>1. PICK witness \in {None, Receipts!Forged, request.witness} :
        result = [level |-> Receipts!WindowsLevel(r, witness), witness |-> witness]
  BY DEF WindowsInv
<1>2. Receipts!WindowsGaps(r) = {} /\ Receipts!WitnessMatches(r, witness)
  BY <1>1 DEF Receipts!WindowsLevel
<1>3. witness = r /\ result.witness = r /\ witness = [r EXCEPT !.by = "run"]
  BY <1>1, <1>2 DEF Receipts!WitnessMatches, WindowsInv
<1>4. r \in Receipts!WindowsReceipts
  BY DEF WindowsInv
<1>5. r.by = "run"
  BY <1>3, <1>4 DEF Receipts!WindowsReceipts
<1>6. /\ r.host_kind = "real_machine" /\ r.platform = "windows" /\ r.w11 /\ r.attested = "both"
      /\ \A id \in Critical : r.rows[id] = "passed"
  BY <1>2, <1>4 DEF Receipts!WindowsGaps, Receipts!WindowsReceipts
<1> QED
  BY <1>3, <1>5, <1>6

LEMMA Ranks ==
  /\ Receipts!Place("READ_ONLY") = 1 /\ Receipts!Place("LIMITED") = 2
  /\ Receipts!Place("PREVIEW") = 3 /\ Receipts!Place("FULL") = 4
BY DEF Receipts!Place, Receipts!Statuses

LEMMA StatusIsEarned ==
  ASSUME CapabilityInv PROVE Receipts!CapabilityIsEarned
<1> SUFFICES ASSUME result # None
             PROVE  /\ Receipts!Place(result.status) >= Receipts!Place(Receipts!Default(request.adapter))
                    /\ result.status # Receipts!Default(request.adapter) =>
                         (request.receipt # None /\ request.receipt.adapter = request.adapter)
                    /\ result.status = "FULL" => request.receipt.real_machine
                    /\ ~result.writes_enabled
  BY DEF Receipts!CapabilityIsEarned
<1> DEFINE default == Receipts!Default(request.adapter)
           status  == Receipts!EffectiveStatus(request.adapter, request.receipt)
<1>1. result.status = status /\ ~result.writes_enabled
  BY DEF CapabilityInv, Receipts!WritesEnabled
<1>2. default \in {"READ_ONLY", "PREVIEW", "LIMITED"}
  BY DEF Receipts!Default, CapabilityInv, Receipts!Adapters
<1>3. CASE status = default
  BY <1>1, <1>2, <1>3, Ranks
<1>4. CASE status # default
  <2>1. /\ request.receipt # None /\ Receipts!Supported(request.receipt, request.adapter)
        /\ ~(Receipts!Place(request.receipt.claimed) <= Receipts!Place(default))
        /\ status = request.receipt.claimed
    BY <1>4 DEF Receipts!EffectiveStatus
  <2>2. request.receipt.claimed \in {"READ_ONLY", "LIMITED", "PREVIEW", "FULL"}
    BY <2>1 DEF CapabilityInv, Receipts!SupportReceipt
  <2> HIDE DEF default, status
  <2>3. Receipts!Place(status) >= Receipts!Place(default)
    BY <1>2, <2>1, <2>2, Ranks
  <2> QED
    BY <1>1, <2>1, <2>3 DEF Receipts!Supported, default
<1> QED
  BY <1>3, <1>4

LEMMA SupportFollows ==
  ASSUME ReceiptInv PROVE Receipts!SupportIsEarned
<1>1. Receipts!FullIsEarned
  BY DEF ReceiptInv, MacInv, Receipts!FullIsEarned
<1>2. Receipts!ReceiptsTravel
  <2> SUFFICES ASSUME request.kind = "macos", run.original # None, run.original.claimed # "full"
               PROVE  Receipts!Verdict(run.original, None) = [ok |-> TRUE, level |-> run.original.claimed]
    BY DEF Receipts!ReceiptsTravel
  <2>1. Original(run.original)
    BY DEF ReceiptInv, MacInv, Written
  <2> QED
    BY <2>1, LessTravels
<1>3. Receipts!WindowsFullIsEarned
  BY WindowsIsEarned DEF ReceiptInv, Receipts!WindowsFullIsEarned
<1>4. Receipts!CapabilityIsEarned
  BY StatusIsEarned DEF ReceiptInv, Receipts!CapabilityIsEarned
<1> QED
  BY <1>1, <1>2, <1>3, <1>4 DEF Receipts!SupportIsEarned

-----------------------------------------------------------------------------
(***************************************************************************)
(* InstanceScan, for any instances, artifacts, contents and numbers of     *)
(* changes and crashes.                                                    *)
(***************************************************************************)

LEMMA TargetsOf ==
  ASSUME NEW S \in SUBSET Instances
  PROVE  /\ Scan!Targets(S) \subseteq Scan!Targets(Instances)
         /\ \A k \in Scan!Targets(S) : k[1] \in S
BY DEF Scan!Targets

LEMMA IdentitiesType ==
  ASSUME ScanTypeOK
  PROVE  /\ Scan!Identities \in Idents /\ DOMAIN Scan!Identities = DOMAIN installed
         /\ DOMAIN installed \in SUBSET Instances
<1>1. PICK S \in SUBSET Instances : installed \in [S -> Scan!Versions]
  BY DEF ScanTypeOK
<1>2. order \in [Instances -> 1..Scan!Cardinality(Instances)]
  BY DEF ScanTypeOK, Scan!Orders
<1>3. Scan!Identities \in [S -> [version : Scan!Versions, precedence : 1..Scan!Cardinality(Instances)]]
  BY <1>1, <1>2 DEF Scan!Identities
<1> QED
  BY <1>1, <1>3 DEF Idents, Scan!Identities

LEMMA IdentDomain ==
  ASSUME NEW x \in Idents
  PROVE  /\ DOMAIN x \in SUBSET Instances
         /\ \A i \in DOMAIN x : x[i].version \in Int
BY DEF Idents, Scan!Versions

LEMMA ReadingsShape ==
  /\ << >> \in Readings /\ << >> \in Idents /\ DOMAIN << >> = {}
  /\ \A e \in Readings : /\ DOMAIN e \in SUBSET Scan!Targets(Instances)
                         /\ \A k \in DOMAIN e : e[k] \in Contents \cup Scan!Gaps
<1>1. << >> = [k \in {} |-> k]
  OBVIOUS
<1>2. << >> \in Readings
  BY <1>1 DEF Readings
<1>3. << >> \in Idents
  BY <1>1 DEF Idents
<1> QED
  BY <1>1, <1>2, <1>3 DEF Readings

LEMMA NoJobType == Scan!NoJob \in Job /\ Scan!NoJob.entries = << >>
BY ReadingsShape DEF Scan!NoJob, Job, ScanModes

(* Equal identities are no transition. *)
LEMMA NoTransition ==
  ASSUME NEW x \in Idents
  PROVE  Scan!Primary(Scan!Transitions(x, x)) = "unchanged"
<1>1. \A i \in DOMAIN x : ~(x[i].version < x[i].version) /\ ~(x[i].version > x[i].version)
  BY IdentDomain
<1>2. Scan!Transitions(x, x) = {}
  BY <1>1 DEF Scan!Transitions
<1> QED
  BY <1>2 DEF Scan!Primary

LEMMA VersionClaim ==
  ASSUME ScanTypeOK, Scan!Readable
  PROVE  Scan!VersionChanged <=> (stored # NoState /\ stored.ident # job.ident)
<1>1. CASE stored = NoState
  BY <1>1 DEF Scan!VersionChanged, Scan!First
<1>2. CASE stored # NoState
  <2>1. stored \in States /\ stored.ident \in Idents
    BY <1>2 DEF ScanTypeOK, Scan!Readable, States
  <2>2. stored.ident = job.ident
          => Scan!Primary(Scan!Transitions(stored.ident, job.ident)) = "unchanged"
    BY <2>1, NoTransition
  <2> QED
    BY <1>2, <2>2 DEF Scan!VersionChanged, Scan!First
<1> QED
  BY <1>1, <1>2

(* What the status of a comparison says of the two measurements. *)
LEMMA StatusMeans ==
  ASSUME NEW old \in Readings, NEW new \in Readings
  PROVE  /\ Scan!DiffStatus(old, new) = "content_changed" => Scan!Differ(old, new)
         /\ Scan!HashChanged(old, new) \cup Scan!Members(old, new) # {} => Scan!Differ(old, new)
         /\ Scan!DiffStatus(old, new) = "unchanged" => old = new /\ ~Scan!TimedOut(new)
         /\ Scan!TimedOut(new) => Scan!DiffStatus(old, new) \in {"partial", "unavailable"}
         /\ Scan!DiffStatus(old, new) # "first_baseline"
<1>1. Scan!HashChanged(old, new) \cup Scan!Members(old, new) # {} => Scan!Differ(old, new)
  <2>1. ASSUME NEW k \in Scan!HashChanged(old, new) PROVE Scan!Differ(old, new)
    <3>1. /\ k \in DOMAIN old \cap DOMAIN new /\ old[k] # new[k]
          /\ old[k] \notin Scan!Gaps /\ new[k] \notin Scan!Gaps
      BY <2>1 DEF Scan!HashChanged, Scan!ReadOk
    <3>2. {old[k], new[k]} \subseteq Contents
      BY <3>1, ReadingsShape
    <3> QED
      BY <3>1, <3>2 DEF Scan!Differ
  <2>2. ASSUME NEW k \in Scan!Members(old, new) PROVE Scan!Differ(old, new)
    BY <2>2 DEF Scan!Members, Scan!Differ
  <2> QED
    BY <2>1, <2>2
<1>2. Scan!DiffStatus(old, new) = "content_changed"
        => Scan!HashChanged(old, new) \cup Scan!Members(old, new) # {}
  BY DEF Scan!DiffStatus
<1> QED
  BY <1>1, <1>2 DEF Scan!DiffStatus

-----------------------------------------------------------------------------
(* One more artifact read, or all the others given up. *)
LEMMA MeasureKeeps ==
  ASSUME ScanTypeOK, Faithful, Scan!Measure
  PROVE  /\ job' \in Job /\ Faithful'
         /\ UNCHANGED << installed, order, content, stored, pc, owed, crashes, changes >>
<1> DEFINE rest == Scan!Targets(DOMAIN job.ident) \ DOMAIN job.entries
           next == CHOOSE k \in rest : TRUE
<1>1. /\ pc = "measure" /\ rest # {} /\ job \in Job
      /\ UNCHANGED << pc, Scan!world, stored, owed, crashes >>
  BY DEF Scan!Measure, ScanTypeOK
<1>2. next \in rest /\ next \in Scan!Targets(DOMAIN job.ident) /\ next \notin DOMAIN job.entries
  <2>1. \E k \in rest : TRUE
    BY <1>1
  <2>2. next \in rest
    BY <2>1, Zenon
  <2> QED
    BY <2>2
<1>3. /\ job.ident \in Idents /\ job.entries \in Readings
      /\ DOMAIN job.ident \in SUBSET Instances
      /\ DOMAIN job.entries \in SUBSET Scan!Targets(Instances)
      /\ \A k \in DOMAIN job.entries : job.entries[k] \in Contents \cup Scan!Gaps
  <2>1. job.ident \in Idents /\ job.entries \in Readings
    BY <1>1 DEF Job
  <2> QED
    BY <2>1, IdentDomain, ReadingsShape
<1>4. next \in Scan!Targets(Instances) /\ rest \subseteq Scan!Targets(Instances)
  BY <1>2, <1>3, TargetsOf
<1>5. Scan!ReadNow(next) \in Contents \cup Scan!Gaps
  BY <1>4 DEF Scan!ReadNow, ScanTypeOK, Scan!Gaps
<1> DEFINE one == Scan!Filled(job.entries, {next}, Scan!ReadNow(next))
           all == Scan!Filled(job.entries, rest, "time_budget_exceeded")
<1>6. /\ DOMAIN one = {next} \cup DOMAIN job.entries
      /\ one[next] = Scan!ReadNow(next)
      /\ \A k \in DOMAIN job.entries : one[k] = job.entries[k]
      /\ one = [k \in {next} \cup DOMAIN job.entries |-> one[k]]
  <2> HIDE DEF next
  <2> QED
    BY <1>2 DEF Scan!Filled
<1>7. /\ DOMAIN all = rest \cup DOMAIN job.entries
      /\ \A k \in rest : all[k] = "time_budget_exceeded"
      /\ \A k \in DOMAIN job.entries : all[k] = job.entries[k]
      /\ all = [k \in rest \cup DOMAIN job.entries |-> all[k]]
  BY DEF Scan!Filled
<1>8. job' = [job EXCEPT !.entries = one] \/ job' = [job EXCEPT !.entries = all]
  BY DEF Scan!Measure
<1> HIDE DEF one, all, rest, next
<1>9. one \in Readings /\ all \in Readings
  <2>1. one \in [{next} \cup DOMAIN job.entries -> Contents \cup Scan!Gaps]
    BY <1>3, <1>5, <1>6
  <2>2. all \in [rest \cup DOMAIN job.entries -> Contents \cup Scan!Gaps]
    BY <1>3, <1>7 DEF Scan!Gaps
  <2> QED
    BY <1>3, <1>4, <2>1, <2>2 DEF Readings
<1>10. job' \in Job /\ job'.ident = job.ident /\ job'.quiet = job.quiet
       /\ (job'.entries = one \/ job'.entries = all)
  BY <1>1, <1>8, <1>9 DEF Job
<1>11. Faithful'
  <2>1. Scan!Readable'
    BY <1>1 DEF Faithful, Scan!Readable
  <2>2. ASSUME job'.quiet
        PROVE  /\ job'.ident = Scan!Identities'
               /\ DOMAIN job'.entries \subseteq Scan!Targets(DOMAIN job'.ident)
               /\ \A k \in DOMAIN job'.entries :
                    job'.entries[k] \in {content'[k], "time_budget_exceeded"}
    <3>1. /\ job.ident = Scan!Identities
          /\ DOMAIN job.entries \subseteq Scan!Targets(DOMAIN job.ident)
          /\ \A k \in DOMAIN job.entries :
               job.entries[k] \in {content[k], "time_budget_exceeded"}
      BY <1>1, <1>10, <2>2 DEF Faithful
    <3>2. Scan!Identities' = Scan!Identities /\ content' = content
      BY <1>1 DEF Scan!world, Scan!Identities
    <3>3. Scan!ReadNow(next) = content[next]
      BY <1>2, <1>3, <3>1, TargetsOf, IdentitiesType DEF Scan!ReadNow
    <3>4. rest \subseteq Scan!Targets(DOMAIN job.ident)
      BY DEF rest
    <3>5. CASE job'.entries = one
      BY <1>2, <1>6, <1>10, <3>1, <3>2, <3>3, <3>5
    <3>6. CASE job'.entries = all
      BY <1>7, <1>10, <3>1, <3>2, <3>4, <3>6
    <3> QED
      BY <1>10, <3>5, <3>6
  <2> QED
    BY <2>1, <2>2 DEF Faithful
<1> QED
  BY <1>1, <1>10, <1>11 DEF Scan!world

-----------------------------------------------------------------------------
(* What the headline claims of a changed scan is what was compared. *)
LEMMA HeadlineTells ==
  ASSUME ScanTypeOK, Scan!Readable, Scan!Changed
  PROVE  LET compared == stored # NoState /\ stored.schema = 2
         IN  /\ Scan!Headline \in SUBSET Claims
             /\ "version_changed" \in Scan!Headline
                  <=> (stored # NoState /\ stored.ident # job.ident)
             /\ "artifacts_changed" \in Scan!Headline
                  => compared /\ Scan!Differ(stored.entries, job.entries)
             /\ compared /\ Scan!TimedOut(job.entries)
                  => Scan!Headline \cap {"incomplete", "unavailable"} # {}
<1> DEFINE st == Scan!ArtifactStatus
<1>1. Scan!Headline \in SUBSET Claims
  BY DEF Scan!Headline, Claims
<1>2. "version_changed" \in Scan!Headline <=> Scan!VersionChanged
  BY DEF Scan!Headline
<1>3. /\ "artifacts_changed" \in Scan!Headline
           <=> \/ st = "content_changed"
               \/ st = "partial" /\ Scan!DiffContent
               \/ st = "unchanged" /\ ~Scan!First /\ ~Scan!VersionChanged
      /\ st = "unavailable" => "unavailable" \in Scan!Headline
      /\ st = "partial" => "incomplete" \in Scan!Headline
  BY DEF Scan!Headline
<1>4. /\ job.entries \in Readings
      /\ Scan!Prior => /\ stored.entries \in Readings
                  /\ st = Scan!DiffStatus(stored.entries, job.entries)
      /\ ~Scan!Prior => st \in {"unavailable", "first_baseline"}
  <2>1. job.entries \in Readings
    BY DEF ScanTypeOK, Job
  <2>2. Scan!Prior => stored \in States
    BY DEF Scan!Prior, Scan!First, ScanTypeOK, Scan!Readable
  <2> QED
    BY <2>1, <2>2 DEF Scan!ArtifactStatus, Scan!FirstStatus, States
<1> HIDE DEF st
<1>5. Scan!Prior <=> stored # NoState /\ stored.schema = 2
  BY DEF Scan!Prior, Scan!First
<1>6. ASSUME "artifacts_changed" \in Scan!Headline
      PROVE  Scan!Prior /\ Scan!Differ(stored.entries, job.entries)
  <2>1. CASE st = "content_changed"
    BY <1>4, <2>1, StatusMeans
  <2>2. CASE st = "partial" /\ Scan!DiffContent
    BY <1>4, <2>2, StatusMeans DEF Scan!DiffContent
  <2>3. CASE st = "unchanged" /\ ~Scan!First /\ ~Scan!VersionChanged
    <3>1. Scan!Prior
      BY <1>4, <2>3
    <3>2. stored.entries = job.entries /\ ~Scan!TimedOut(job.entries)
      BY <1>4, <2>3, <3>1, StatusMeans
    <3>3. stored.ident = job.ident
      BY <2>3, VersionClaim DEF Scan!First
    <3>4. ~Scan!IdentityChanged /\ ~Scan!ArtifactChanged
      BY <2>3, <3>1, <3>2, <3>3 DEF Scan!IdentityChanged, Scan!ArtifactChanged
    <3>5. Scan!IdentityChanged = FALSE /\ Scan!ArtifactChanged = FALSE
      BY <3>4 DEF Scan!IdentityChanged, Scan!ArtifactChanged
    <3> QED
      BY <3>5 DEF Scan!Changed
  <2> QED
    BY <1>3, <1>6, <2>1, <2>2, <2>3
<1>7. ASSUME Scan!Prior, Scan!TimedOut(job.entries)
      PROVE  Scan!Headline \cap {"incomplete", "unavailable"} # {}
  <2>1. st \in {"partial", "unavailable"}
    BY <1>4, <1>7, StatusMeans
  <2> QED
    BY <1>3, <2>1
<1> QED
  BY <1>1, <1>2, <1>5, <1>6, <1>7, VersionClaim

(* Saving the baseline, or failing to. *)
LEMMA SaveKeeps ==
  ASSUME ScanInv, Scan!Save
  PROVE  ScanInv'
<1>1. /\ pc = "measure" /\ Scan!Changed /\ UNCHANGED << Scan!world, crashes >>
      /\ job \in Job /\ Scan!Readable
  BY DEF ScanInv, Scan!Save, Scan!Measured, ScanTypeOK, Faithful
<1>2. CASE Scan!End /\ UNCHANGED << stored, owed >>
  <2>1. ScanTypeOK'
    BY <1>1, <1>2, NoJobType DEF ScanInv, ScanTypeOK, Scan!End, Scan!world
  <2> QED
    BY <1>1, <1>2, <2>1 DEF ScanInv, Scan!End, Faithful, Scan!BaselineTold, Scan!HeadlineHonest
<1>3. CASE /\ stored' = Scan!NextState
           /\ owed' = TRUE
           /\ pc' = "notify"
           /\ job' = [job EXCEPT !.said = Scan!Headline, !.prior = stored]
  <2>1. Scan!NextState \in States
    BY <1>1 DEF Scan!NextState, States, Job
  <2>2. Scan!Headline \in SUBSET Claims
    BY <1>1, HeadlineTells DEF ScanInv
  <2> DEFINE h == Scan!Headline
  <2> HIDE DEF h
  <2>3. stored \in States \cup {NoState, Unreadable}
    BY DEF ScanInv, ScanTypeOK
  <2>4. job' = [job EXCEPT !.said = h, !.prior = stored]
    BY <1>3 DEF h
  <2>5. /\ job' \in Job /\ job'.said = h /\ job'.prior = stored
        /\ job'.ident = job.ident /\ job'.entries = job.entries
    BY <1>1, <2>2, <2>3, <2>4 DEF Job, h
  <2>6. ScanTypeOK'
    BY <1>1, <1>3, <2>1, <2>5 DEF ScanInv, ScanTypeOK, Scan!world
  <2>7. Scan!HeadlineHonest'
    BY <1>1, <2>5, HeadlineTells DEF ScanInv, Scan!HeadlineHonest, h
  <2> QED
    BY <1>3, <2>6, <2>7 DEF ScanInv, Faithful, Scan!BaselineTold
<1> QED
  BY <1>2, <1>3, Zenon DEF Scan!Save

(* The steps that end a scan. *)
LEMMA EndKeeps ==
  ASSUME ScanInv, Scan!Quiet \/ Scan!Notify \/ Scan!Crash
  PROVE  ScanInv'
<1>1. /\ pc' = "idle" /\ job' = Scan!NoJob
      /\ UNCHANGED << installed, order, content, stored, changes >>
  BY DEF Scan!Quiet, Scan!Notify, Scan!Crash, Scan!End, Scan!world
<1>2. /\ crashes \in Nat /\ owed \in BOOLEAN /\ Scan!BaselineTold
  BY DEF ScanInv, ScanTypeOK
<1>3. /\ owed' \in BOOLEAN /\ crashes' \in Nat
      /\ crashes' = 0 => ~owed'
  <2>1. CASE Scan!Quiet
    <3>1. UNCHANGED << owed, crashes >> /\ pc = "measure"
      BY <2>1 DEF Scan!Quiet, Scan!Measured
    <3> QED
      BY <1>2, <3>1 DEF Scan!BaselineTold
  <2>2. CASE Scan!Notify
    BY <1>2, <2>2 DEF Scan!Notify
  <2>3. CASE Scan!Crash
    <3>1. owed' = owed /\ crashes' = crashes + 1
      BY <2>3 DEF Scan!Crash
    <3>2. crashes' \in Nat /\ crashes' # 0
      BY <1>2, <3>1
    <3> QED
      BY <1>2, <3>1, <3>2
  <2> QED
    BY <2>1, <2>2, <2>3
<1>4. ScanTypeOK'
  BY <1>1, <1>3, NoJobType DEF ScanInv, ScanTypeOK
<1> QED
  BY <1>1, <1>3, <1>4 DEF ScanInv, Faithful, Scan!HeadlineHonest, Scan!BaselineTold

LEMMA StartKeeps ==
  ASSUME ScanInv, NEW mode \in ScanModes, Scan!Start(mode)
  PROVE  ScanInv'
<1>1. /\ pc = "idle" /\ pc' = "measure" /\ Scan!Readable
      /\ job' = [Scan!NoJob EXCEPT !.mode = mode, !.ident = Scan!Identities]
      /\ UNCHANGED << installed, order, content, changes, stored, owed, crashes >>
  BY DEF Scan!Start, Scan!world
<1>2. Scan!Identities \in Idents
  BY IdentitiesType DEF ScanInv
<1> DEFINE idents == Scan!Identities
<1>3. idents \in Idents /\ job' = [Scan!NoJob EXCEPT !.mode = mode, !.ident = idents]
  BY <1>1, <1>2
<1> HIDE DEF idents
<1>4. /\ job' \in Job /\ job'.ident = idents /\ job'.entries = << >>
  BY <1>3, NoJobType DEF Scan!NoJob, Job
<1>5. ScanTypeOK'
  BY <1>1, <1>4 DEF ScanInv, ScanTypeOK
<1>6. Faithful'
  <2>1. idents = Scan!Identities' /\ Scan!Readable'
    BY <1>1 DEF idents, Scan!Identities, Scan!Readable
  <2>2. DOMAIN job'.entries = {}
    BY <1>4, ReadingsShape
  <2> QED
    BY <1>4, <2>1, <2>2 DEF Faithful
<1> QED
  BY <1>1, <1>5, <1>6 DEF ScanInv, Scan!BaselineTold, Scan!HeadlineHonest

LEMMA DamageKeeps ==
  ASSUME ScanInv, Scan!Damage
  PROVE  ScanInv'
<1>1. /\ pc = "idle" /\ stored \in States
      /\ UNCHANGED << installed, order, content, changes, pc, job, owed, crashes >>
  BY DEF Scan!Damage, Scan!world, ScanInv, ScanTypeOK
<1>2. stored' \in States \cup {NoState, Unreadable}
  BY <1>1, ReadingsShape DEF Scan!Damage, States
<1> QED
  BY <1>1, <1>2 DEF ScanInv, ScanTypeOK, Faithful, Scan!BaselineTold, Scan!HeadlineHonest

LEMMA WorldKeeps ==
  ASSUME ScanInv, Scan!World
  PROVE  ScanInv'
<1>1. /\ UNCHANGED << stored, pc, owed, crashes >> /\ job \in Job
      /\ job' = [job EXCEPT !.quiet = FALSE] /\ changes' \in Nat
  BY DEF Scan!World, ScanInv, ScanTypeOK
<1>2. /\ job' \in Job /\ ~job'.quiet /\ job'.prior = job.prior /\ job'.said = job.said
      /\ job'.ident = job.ident /\ job'.entries = job.entries
  BY <1>1 DEF Job
<1>3. /\ installed' \in UNION {[S -> Scan!Versions] : S \in SUBSET Instances}
      /\ order' \in Scan!Orders
      /\ content' \in [Scan!Targets(Instances) -> Contents \cup {"missing"}]
  BY DEF Scan!World, ScanInv, ScanTypeOK
<1>4. ScanTypeOK'
  BY <1>1, <1>2, <1>3 DEF ScanInv, ScanTypeOK
<1>5. Faithful' /\ Scan!BaselineTold'
  BY <1>1, <1>2 DEF ScanInv, Faithful, Scan!BaselineTold, Scan!Readable
<1>6. Scan!HeadlineHonest'
  BY <1>1, <1>2 DEF ScanInv, Scan!HeadlineHonest
<1> QED
  BY <1>4, <1>5, <1>6 DEF ScanInv

LEMMA ScanInit == Scan!Init => ScanInv
<1> SUFFICES ASSUME Scan!Init PROVE ScanInv
  OBVIOUS
<1>1. ScanTypeOK
  BY NoJobType DEF Scan!Init, ScanTypeOK
<1> QED
  BY <1>1 DEF Scan!Init, ScanInv, Faithful, Scan!BaselineTold, Scan!HeadlineHonest

LEMMA ScanStep == ScanInv /\ [Scan!Next]_(Scan!vars) => ScanInv'
<1> SUFFICES ASSUME ScanInv, [Scan!Next]_(Scan!vars) PROVE ScanInv'
  OBVIOUS
<1>1. CASE Scan!Measure
  <2>1. /\ job' \in Job /\ Faithful' /\ pc = "measure"
        /\ UNCHANGED << installed, order, content, stored, pc, owed, crashes, changes >>
    BY <1>1, MeasureKeeps DEF ScanInv, Scan!Measure
  <2> QED
    BY <2>1 DEF ScanInv, ScanTypeOK, Scan!BaselineTold, Scan!HeadlineHonest
<1>2. CASE UNCHANGED Scan!vars
  <2>1. Scan!Identities' = Scan!Identities
    BY <1>2 DEF Scan!vars, Scan!Identities
  <2>2. ScanTypeOK' /\ Scan!BaselineTold' /\ Scan!HeadlineHonest'
    BY <1>2 DEF Scan!vars, ScanInv, ScanTypeOK, Scan!BaselineTold, Scan!HeadlineHonest
  <2>3. Faithful'
    BY <1>2, <2>1 DEF Scan!vars, ScanInv, Faithful, Scan!Readable
  <2> QED
    BY <2>2, <2>3 DEF ScanInv
<1> QED
  BY <1>1, <1>2, StartKeeps, SaveKeeps, EndKeeps, DamageKeeps, WorldKeeps DEF Scan!Next, ScanModes

\* A quiet scan of an installation at rest leaves what is installed.
LEMMA QuietIsAsStored == ScanInv /\ Scan!Quiet /\ job.quiet => Scan!AsStored
<1> SUFFICES ASSUME ScanInv, Scan!Quiet, job.quiet PROVE Scan!AsStored
  OBVIOUS
<1>1. /\ pc = "measure" /\ DOMAIN job.entries = Scan!Targets(DOMAIN job.ident) /\ ~Scan!Changed
  BY DEF Scan!Quiet, Scan!Measured
<1>2. /\ job.ident = Scan!Identities
      /\ \A k \in DOMAIN job.entries :
           job.entries[k] \in {content[k], "time_budget_exceeded"}
  BY <1>1 DEF ScanInv, Faithful
<1>3. ~Scan!IdentityChanged /\ ~Scan!ArtifactChanged
  BY <1>1 DEF Scan!Changed, Scan!IdentityChanged, Scan!ArtifactChanged
<1>4. stored.ident = job.ident /\ stored.entries = job.entries /\ ~Scan!TimedOut(job.entries)
  BY <1>3 DEF Scan!IdentityChanged, Scan!ArtifactChanged
<1>5. \A k \in DOMAIN job.entries : job.entries[k] = content[k]
  BY <1>2, <1>4 DEF Scan!TimedOut
<1>6. DOMAIN job.entries = Scan!Targets(DOMAIN installed)
  BY <1>1, <1>2, IdentitiesType DEF ScanInv
<1>7. job.entries = [k \in DOMAIN job.entries |-> job.entries[k]]
  BY DEF ScanInv, ScanTypeOK, Job, Readings
<1>8. job.entries = [k \in Scan!Targets(DOMAIN installed) |-> content[k]]
  BY <1>5, <1>6, <1>7
<1> QED
  BY <1>2, <1>4, <1>8 DEF Scan!AsStored

-----------------------------------------------------------------------------
(***************************************************************************)
(* Demo, with or without an induced failure, and whatever fails, throws,   *)
(* exceeds the budget or is swapped.                                       *)
(***************************************************************************)

-----------------------------------------------------------------------------
LEMMA StepsInOrder ==
  /\ DOMAIN DemoRun!StepOrder = 1..10 /\ \A i \in 1..10 : DemoRun!StepOrder[i] \in DemoRun!Steps
  /\ \A i, j \in 1..10 : DemoRun!StepOrder[i] = DemoRun!StepOrder[j] => i = j
  /\ \A id \in DemoRun!Steps : \E i \in 1..10 : DemoRun!StepOrder[i] = id
BY DEF DemoRun!StepOrder, DemoRun!Steps, DemoRun!Range

LEMMA StepPlaces ==
  /\ \A i \in 1..10 : DemoRun!Place(DemoRun!StepOrder[i]) = i
  /\ \A id \in DemoRun!Steps : DemoRun!Place(id) \in 1..10 /\ DemoRun!StepOrder[DemoRun!Place(id)] = id
<1>1. ASSUME NEW i \in 1..10 PROVE DemoRun!Place(DemoRun!StepOrder[i]) = i
  BY StepsInOrder DEF DemoRun!Place
<1> QED
  BY <1>1, StepsInOrder

LEMMA PlaceIs ==
  /\ DemoRun!Place("isolate") = 1 /\ DemoRun!Place("diagnose_main") = 2 /\ DemoRun!Place("explain_main") = 3
  /\ DemoRun!Place("preview_main") = 4 /\ DemoRun!Place("apply_main") = 5 /\ DemoRun!Place("verify_main") = 6
  /\ DemoRun!Place("rollback_main") = 7 /\ DemoRun!Place("model_refuse") = 8 /\ DemoRun!Place("crash_refuse") = 9
  /\ DemoRun!Place("cleanup") = 10
BY StepPlaces DEF DemoRun!StepOrder

LEMMA AfterIs ==
  /\ DemoRun!After("isolate") = "diagnose_main" /\ DemoRun!After("diagnose_main") = "explain_main"
  /\ DemoRun!After("explain_main") = "preview_main" /\ DemoRun!After("preview_main") = "apply_main"
  /\ DemoRun!After("apply_main") = "verify_main" /\ DemoRun!After("verify_main") = "rollback_main"
  /\ DemoRun!After("rollback_main") = "model_refuse" /\ DemoRun!After("model_refuse") = "crash_refuse"
  /\ DemoRun!After("crash_refuse") = "cleanup"
BY PlaceIs DEF DemoRun!After, DemoRun!StepOrder

LEMMA StepsAre ==
  DemoRun!Steps = {"isolate", "diagnose_main", "explain_main", "preview_main", "apply_main",
           "verify_main", "rollback_main", "model_refuse", "crash_refuse", "cleanup"}
BY DEF DemoRun!Steps, DemoRun!Range, DemoRun!StepOrder

LEMMA SoFarType ==
  ASSUME NEW n \in 0..10
  PROVE  StepsSoFar(n) \in Seq(StepEntries) /\ Len(StepsSoFar(n)) = n
<1>1. \A i \in 1..n : DemoRun!Step(DemoRun!StepOrder[i], ExpectedOf(DemoRun!StepOrder[i])) \in StepEntries
  BY StepsInOrder DEF DemoRun!Step, ExpectedOf, StepEntries
<1> QED
  BY <1>1 DEF StepsSoFar

LEMMA OneMore ==
  ASSUME NEW n \in 0..9
  PROVE  Append(StepsSoFar(n), DemoRun!Step(DemoRun!StepOrder[n + 1], ExpectedOf(DemoRun!StepOrder[n + 1]))) = StepsSoFar(n + 1)
<1>1. StepsSoFar(n) \in Seq(StepEntries) /\ Len(StepsSoFar(n)) = n
  <2>1. n \in 0..10
    OBVIOUS
  <2> QED
    BY <2>1, SoFarType
<1>2. Append(StepsSoFar(n), DemoRun!Step(DemoRun!StepOrder[n + 1], ExpectedOf(DemoRun!StepOrder[n + 1])))
        = [i \in 1..(n + 1) |-> IF i <= n THEN StepsSoFar(n)[i] ELSE DemoRun!Step(DemoRun!StepOrder[n + 1], ExpectedOf(DemoRun!StepOrder[n + 1]))]
  BY <1>1
<1>3. \A i \in 1..n : StepsSoFar(n)[i] = DemoRun!Step(DemoRun!StepOrder[i], ExpectedOf(DemoRun!StepOrder[i]))
  BY DEF StepsSoFar
<1> QED
  BY <1>2, <1>3 DEF StepsSoFar

LEMMA NoCleanupYet ==
  ASSUME NEW n \in 0..9
  PROVE  \A k \in DOMAIN StepsSoFar(n) : StepsSoFar(n)[k].id # "cleanup"
<1>1. \A k \in 1..n : DemoRun!StepOrder[k] # "cleanup"
  BY StepsInOrder, PlaceIs, StepPlaces
<1> QED
  BY <1>1 DEF StepsSoFar, DemoRun!Step

LEMMA FoundIn ==
  ASSUME NEW steps \in Seq(StepEntries), NEW k \in DOMAIN steps, NEW i \in 1..10,
         steps[k].id = DemoRun!StepOrder[i], \A j \in DOMAIN steps : steps[j].id = DemoRun!StepOrder[i] => j = k
  PROVE  DemoRun!Ordered(steps)[i] = steps[k]
<1> DEFINE first == CHOOSE n \in DOMAIN steps :
                      steps[n].id = DemoRun!StepOrder[i] /\ \A j \in 1..(n - 1) : steps[j].id # DemoRun!StepOrder[i]
<1>1. DOMAIN steps = 1..Len(steps) /\ k \in 1..Len(steps)
  OBVIOUS
<1>2. \A j \in 1..(k - 1) : steps[j].id # DemoRun!StepOrder[i]
  BY <1>1
<1>3. first \in DOMAIN steps /\ steps[first].id = DemoRun!StepOrder[i]
  BY <1>1, <1>2
<1>4. first = k
  BY <1>3
<1>5. DemoRun!Ordered(steps)[i] = steps[first]
  BY StepsInOrder DEF DemoRun!Ordered
<1> QED
  BY <1>4, <1>5

LEMMA PushedIs ==
  ASSUME NEW r \in DemoRuns, NEW id \in DemoRun!Steps, NEW st \in {"pass", "fail", "skip"}
  PROVE  /\ DemoRun!Pushed(r, id, st) \in DemoRuns
         /\ DemoRun!Pushed(r, id, st).steps = Append(r.steps, DemoRun!Step(id, st))
         /\ Len(DemoRun!Pushed(r, id, st).steps) = Len(r.steps) + 1
         /\ \A k \in DOMAIN DemoRun!Pushed(r, id, st).steps :
              DemoRun!Pushed(r, id, st).steps[k] = IF k <= Len(r.steps) THEN r.steps[k] ELSE DemoRun!Step(id, st)
         /\ DemoRun!Pushed(r, id, st) = [r EXCEPT !.steps = DemoRun!Pushed(r, id, st).steps]
<1>1. r.steps \in Seq(StepEntries) /\ DemoRun!Step(id, st) \in StepEntries
  BY DEF DemoRuns, DemoRun!Step, StepEntries
<1> DEFINE s == Append(r.steps, DemoRun!Step(id, st))
<1>2. /\ s \in Seq(StepEntries) /\ Len(s) = Len(r.steps) + 1
      /\ \A k \in DOMAIN s : s[k] = IF k <= Len(r.steps) THEN r.steps[k] ELSE DemoRun!Step(id, st)
  BY <1>1
<1>3. DemoRun!Pushed(r, id, st) = [r EXCEPT !.steps = s]
  BY DEF DemoRun!Pushed
<1> HIDE DEF s
<1>4. [r EXCEPT !.steps = s] \in DemoRuns /\ [r EXCEPT !.steps = s].steps = s
  BY <1>2 DEF DemoRuns
<1>5. s = Append(r.steps, DemoRun!Step(id, st))
  BY DEF s
<1> QED
  BY <1>2, <1>3, <1>4, <1>5

LEMMA CleanedIs ==
  ASSUME NEW r, MayEnd(r), NEW gone \in BOOLEAN
  PROVE  LET c == DemoRun!Cleaned(r, gone)
             s == Append(r.steps, DemoRun!Step("cleanup", IF c.root = "own" THEN "fail" ELSE "pass"))
         IN  /\ c \in DemoRuns /\ c.steps = s /\ Alike(c, r)
             /\ c.seen = r.seen /\ c.proofs = r.proofs /\ c.localOnly = r.localOnly
             /\ DemoRun!Ordered(s)[10] = DemoRun!Step("cleanup", IF c.root = "own" THEN "fail" ELSE "pass")
<1> DEFINE c == DemoRun!Cleaned(r, gone)
           st == IF c.root = "own" THEN "fail" ELSE "pass"
           p == DemoRun!Pushed(r, "cleanup", st)
<1>1. r \in DemoRuns /\ "cleanup" \in DemoRun!Steps /\ st \in {"pass", "fail", "skip"}
  BY StepsAre DEF MayEnd
<1>2. /\ p \in DemoRuns /\ p.steps = Append(r.steps, DemoRun!Step("cleanup", st)) /\ Len(p.steps) = Len(r.steps) + 1
      /\ \A k \in DOMAIN p.steps : p.steps[k] = IF k <= Len(r.steps) THEN r.steps[k] ELSE DemoRun!Step("cleanup", st)
      /\ p = [r EXCEPT !.steps = p.steps]
  BY <1>1, PushedIs
<1>3. r.root = "own" => st = IF gone THEN "pass" ELSE "fail"
  BY <1>1 DEF DemoRun!Cleaned, DemoRuns, DemoRun!Pushed
<1>4. r.root # "own" => st = "pass"
  BY <1>1 DEF DemoRun!Cleaned, DemoRuns, DemoRun!Pushed
<1> DEFINE x == IF r.root = "own" /\ gone THEN "removed" ELSE r.root
<1>5. c = [p EXCEPT !.root = x] /\ x \in {"none", "own", "caller", "removed", "left"}
  <2>1. x \in {"none", "own", "caller", "removed", "left"}
    BY <1>1 DEF DemoRuns
  <2>2. CASE r.root = "own"
    BY <1>3, <2>1, <2>2 DEF DemoRun!Cleaned
  <2>3. CASE r.root # "own"
    <3>1. c = p /\ p.root = r.root /\ x = r.root
      BY <1>1, <1>4, <2>3 DEF DemoRun!Cleaned, DemoRun!Pushed, DemoRuns
    <3>2. ASSUME NEW q \in DemoRuns PROVE q = [q EXCEPT !.root = q.root]
      BY DEF DemoRuns
    <3> HIDE DEF p, c, x
    <3> QED
      BY <1>2, <2>1, <3>1, <3>2
  <2> QED
    BY <2>2, <2>3
<1>8. Alike(p, r) /\ p.seen = r.seen /\ p.proofs = r.proofs /\ p.localOnly = r.localOnly
  BY <1>1 DEF DemoRun!Pushed, DemoRuns, Alike
<1> HIDE DEF p, st, x, c
<1>6. /\ c \in DemoRuns /\ c.steps = p.steps /\ Alike(c, r)
      /\ c.seen = r.seen /\ c.proofs = r.proofs /\ c.localOnly = r.localOnly
  BY <1>2, <1>5, <1>8 DEF DemoRuns, Alike
<1>7. DemoRun!Ordered(p.steps)[10] = DemoRun!Step("cleanup", st)
  <2>1. p.steps \in Seq(StepEntries) /\ r.steps \in Seq(StepEntries) /\ DemoRun!StepOrder[10] = "cleanup"
    BY <1>1, <1>2 DEF DemoRuns, DemoRun!StepOrder
  <2> DEFINE k == Len(r.steps) + 1
  <2>2. k \in DOMAIN p.steps /\ p.steps[k] = DemoRun!Step("cleanup", st)
    BY <1>2, <2>1
  <2>3. \A j \in DOMAIN p.steps : p.steps[j].id = "cleanup" => j = k
    BY <1>2, <2>1 DEF MayEnd
  <2>4. p.steps[k].id = "cleanup"
    BY <2>2 DEF DemoRun!Step
  <2> HIDE DEF k
  <2> QED
    BY <2>1, <2>2, <2>3, <2>4, FoundIn
<1> QED
  BY <1>2, <1>6, <1>7 DEF st, p, c

LEMMA EndedKeeps ==
  ASSUME NEW r, MayEnd(r), NEW status, status # "completed", request \in DemoRun!Options, request' = request,
         DemoRun!Finish(r, status)
  PROVE  DemoInv'
<1>1. PICK gone \in BOOLEAN : /\ run' = [DemoRun!Cleaned(r, gone) EXCEPT !.at = "done"]
                             /\ result' = DemoRun!Receipt(DemoRun!Cleaned(r, gone), status, DemoRun!Cleaned(r, gone).root # "own")
  BY DEF DemoRun!Finish
<1> DEFINE c == DemoRun!Cleaned(r, gone)
           step == DemoRun!Step("cleanup", IF c.root = "own" THEN "fail" ELSE "pass")
<1>2. c \in DemoRuns /\ Alike(c, r) /\ DemoRun!Ordered(c.steps)[10] = step
  BY CleanedIs
<1>3. run' = [c EXCEPT !.at = "done"] /\ result' = DemoRun!Receipt(c, status, c.root # "own")
  BY <1>1
<1> HIDE DEF c
<1>4. run' \in DemoRuns /\ run'.at = "done" /\ Alike(run', r) /\ run'.root = c.root
  BY <1>2, <1>3 DEF DemoRuns, Alike
<1>5. /\ ~result'.ok /\ result'.status # "completed" /\ result'.cleaned = (c.root # "own")
      /\ result'.steps = DemoRun!Ordered(c.steps)
      /\ result'.restored = c.restored /\ result'.error = c.error
  BY <1>3 DEF DemoRun!Receipt
<1>6. DemoRun!Status("cleanup")' = IF c.root = "own" THEN "fail" ELSE "pass"
  BY <1>2, <1>5, PlaceIs DEF DemoRun!Status, DemoRun!Step
<1>7. DemoRun!CleanupIsHonest'
  BY <1>4, <1>5, <1>6 DEF DemoRun!CleanupIsHonest
<1>8. Straight(run')
  BY <1>4 DEF MayEnd, Straight, Alike
<1>9. DemoRun!NotLeftRepaired'
  BY <1>2, <1>4, <1>5 DEF DemoRun!NotLeftRepaired, MayEnd, Straight, Excused, Alike
<1>10. DemoRun!OkIsTheWholeStory' /\ GoesOn'
  BY <1>4, <1>5 DEF DemoRun!OkIsTheWholeStory, GoesOn
<1> QED
  BY <1>4, <1>7, <1>8, <1>9, <1>10 DEF DemoInv, Straight

LEMMA FailKeeps ==
  ASSUME NEW r, MayEnd(r), NEW id \in DemoRun!Steps \ {"cleanup"}, NEW st \in {"pass", "fail", "skip"}
  PROVE  MayEnd(DemoRun!Pushed(r, id, st))
<1>1. r \in DemoRuns /\ r.steps \in Seq(StepEntries)
  BY DEF MayEnd, DemoRuns
<1>2. Alike(DemoRun!Pushed(r, id, st), r)
  BY <1>1 DEF DemoRun!Pushed, DemoRuns, Alike
<1> DEFINE p == DemoRun!Pushed(r, id, st)
<1>3. /\ p \in DemoRuns /\ Len(p.steps) = Len(r.steps) + 1
      /\ \A k \in DOMAIN p.steps : p.steps[k] = IF k <= Len(r.steps) THEN r.steps[k] ELSE DemoRun!Step(id, st)
  BY <1>1, PushedIs
<1>4. p.steps \in Seq(StepEntries)
  BY <1>3 DEF DemoRuns
<1>6. Alike(p, r)
  BY <1>2
<1> HIDE DEF p
<1>5. \A k \in DOMAIN p.steps : p.steps[k].id # "cleanup"
  BY <1>1, <1>3, <1>4 DEF MayEnd, DemoRun!Step
<1>7. MayEnd(p)
  BY <1>3, <1>5, <1>6 DEF MayEnd, Straight, Excused, Alike
<1> QED
  BY <1>7 DEF p

LEMMA PassKeeps ==
  ASSUME DemoInv, result = None, NEW r \in DemoRuns, NEW n \in 1..9, r.steps = StepsSoFar(n - 1), Straight(r),
         ExpectedOf(DemoRun!StepOrder[n]) = "pass", MayReach(r, DemoRun!StepOrder[n + 1]),
         DemoRun!Pass(r, DemoRun!StepOrder[n]), request' = request
  PROVE  DemoInv'
<1> DEFINE p == DemoRun!Pushed(r, DemoRun!StepOrder[n], "pass")
<1>1. p \in DemoRuns /\ p.steps = Append(StepsSoFar(n - 1), DemoRun!Step(DemoRun!StepOrder[n], ExpectedOf(DemoRun!StepOrder[n])))
  <2>1. DemoRun!StepOrder[n] \in DemoRun!Steps
    BY StepsInOrder
  <2>2. p \in DemoRuns /\ p.steps = Append(r.steps, DemoRun!Step(DemoRun!StepOrder[n], "pass"))
    BY <2>1, PushedIs
  <2> HIDE DEF p
  <2> QED
    BY <2>2
<1>2. p.steps = StepsSoFar(n)
  <2>1. n - 1 \in 0..9 /\ (n - 1) + 1 = n
    OBVIOUS
  <2> HIDE DEF p
  <2>2. Append(StepsSoFar(n - 1), DemoRun!Step(DemoRun!StepOrder[(n - 1) + 1], ExpectedOf(DemoRun!StepOrder[(n - 1) + 1]))) = StepsSoFar((n - 1) + 1)
    BY <2>1, OneMore
  <2> QED
    BY <1>1, <2>1, <2>2
<1>3. Alike(p, r)
  BY DEF DemoRun!Pushed, DemoRuns, Alike
<1>4. n + 1 \in 1..10 /\ DemoRun!After(DemoRun!StepOrder[n]) = DemoRun!StepOrder[n + 1]
  BY StepPlaces DEF DemoRun!After
<1>5. run' = [p EXCEPT !.at = DemoRun!StepOrder[n + 1], !.proved = FALSE] /\ result' = result
  BY <1>4 DEF DemoRun!Pass
<1> HIDE DEF p
<1>6. DemoRun!StepOrder[n + 1] \in DemoRun!Steps /\ DemoRun!Place(DemoRun!StepOrder[n + 1]) - 1 = n
  BY <1>4, StepsInOrder, StepPlaces
<1>7. /\ run' \in DemoRuns /\ run'.at = DemoRun!StepOrder[n + 1] /\ run'.steps = StepsSoFar(n)
      /\ Alike(run', r) /\ ~run'.proved
  BY <1>1, <1>2, <1>3, <1>5, <1>6 DEF DemoRuns, Alike
<1>8. StepsSoFar(DemoRun!Place(run.at) - 1)' = StepsSoFar(n)
  BY <1>6, <1>7 DEF StepsSoFar, ExpectedOf
<1>9. GoesOn'
  BY <1>7, <1>8 DEF GoesOn, MayReach, Alike
<1>10. Straight(run')
  BY <1>7 DEF Straight, Alike
<1> QED
  BY <1>5, <1>7, <1>9, <1>10 DEF DemoInv, Straight, DemoRun!OkIsTheWholeStory, DemoRun!CleanupIsHonest, DemoRun!NotLeftRepaired

LEMMA StepIds ==
  /\ DemoRun!StepOrder[1] = "isolate" /\ DemoRun!StepOrder[2] = "diagnose_main" /\ DemoRun!StepOrder[3] = "explain_main"
  /\ DemoRun!StepOrder[4] = "preview_main" /\ DemoRun!StepOrder[5] = "apply_main" /\ DemoRun!StepOrder[6] = "verify_main"
  /\ DemoRun!StepOrder[7] = "rollback_main" /\ DemoRun!StepOrder[8] = "model_refuse" /\ DemoRun!StepOrder[9] = "crash_refuse"
  /\ DemoRun!StepOrder[10] = "cleanup"
BY DEF DemoRun!StepOrder

LEMMA StepReached ==
  ASSUME DemoInv, NEW n \in 1..10, DemoRun!At(DemoRun!StepOrder[n])
  PROVE  /\ result = None /\ run \in DemoRuns /\ run.steps = StepsSoFar(n - 1) /\ Straight(run)
         /\ MayReach(run, DemoRun!StepOrder[n]) /\ run.at = DemoRun!StepOrder[n]
         /\ run.proved => run.rootIsOurs \/ run.window
<1>1. run.at = DemoRun!StepOrder[n] /\ run.at # "done" /\ DemoRun!Place(run.at) = n
  BY StepsInOrder, StepPlaces, StepsAre DEF DemoRun!At
<1> QED
  BY <1>1 DEF DemoInv, GoesOn, DemoRun!At

LEMMA EndsHere ==
  ASSUME NEW r \in DemoRuns, NEW n \in 1..10, r.steps = StepsSoFar(n - 1), Straight(r),
         r.artifact = "patched" => Excused(r)
  PROVE  MayEnd(r)
<1>1. n - 1 \in 0..9
  OBVIOUS
<1> QED
  BY <1>1, NoCleanupYet DEF MayEnd

LEMMA FailsHere ==
  ASSUME DemoInv, NEW r \in DemoRuns, NEW n \in 1..9, r.steps = StepsSoFar(n - 1), Straight(r),
         r.artifact = "patched" => Excused(r), NEW status, status # "completed",
         DemoRun!Fail(r, DemoRun!StepOrder[n], status), request' = request
  PROVE  DemoInv'
<1>1. MayEnd(r)
  <2>1. n \in 1..10
    OBVIOUS
  <2> QED
    BY <2>1, EndsHere
<1>2. DemoRun!StepOrder[n] \in DemoRun!Steps \ {"cleanup"}
  <2>1. n \in 1..10 /\ 10 \in 1..10 /\ n # 10
    OBVIOUS
  <2> QED
    BY <2>1, StepsInOrder, StepIds
<1>3. MayEnd(DemoRun!Pushed(r, DemoRun!StepOrder[n], "fail"))
  BY <1>1, <1>2, FailKeeps
<1> QED
  BY <1>3, EndedKeeps DEF DemoRun!Fail, DemoInv

LEMMA NotedIs ==
  ASSUME NEW r \in DemoRuns, NEW seam \in DemoRun!Seams, NEW n \in DemoRun!Network
  PROVE  LET m == DemoRun!Noted(r, seam, n)
         IN  m \in DemoRuns /\ m.steps = r.steps /\ Alike(m, r) /\ m.targetIsOurs = r.targetIsOurs
<1> DEFINE s == r.seen \cup {<< seam, n >>}
<1>1. s \in SUBSET (DemoRun!Seams \X DemoRun!Network)
  BY DEF DemoRuns
<1>2. DemoRun!Noted(r, seam, n) = [r EXCEPT !.seen = s]
  BY DEF DemoRun!Noted
<1> HIDE DEF s
<1> QED
  BY <1>1, <1>2 DEF DemoRuns, Alike

\* What a write leaves: the demo's artifact, or a stray.
LEMMA LandedIs ==
  ASSUME NEW r \in DemoRuns, NEW a \in {"original", "patched"}, NEW which \in {"meant", "best_effort"}
  PROVE  LET w == DemoRun!Landed(r, a, which)
         IN  /\ w \in DemoRuns /\ w.steps = r.steps /\ w.window = r.window /\ w.restored = r.restored
             /\ w.resolved = r.resolved /\ w.unrestored = r.unrestored /\ w.error = r.error
             /\ w.targetIsOurs = r.targetIsOurs
             /\ w.artifact = IF r.targetIsOurs THEN a ELSE r.artifact
             /\ w.strayed = IF r.targetIsOurs \/ r.rootIsOurs THEN r.strayed ELSE r.strayed \cup {which}
<1>1. CASE r.targetIsOurs
  <2>1. DemoRun!Landed(r, a, which) = [r EXCEPT !.artifact = a]
    BY <1>1 DEF DemoRun!Landed
  <2> QED
    BY <1>1, <2>1 DEF DemoRuns
<1>2. CASE ~r.targetIsOurs /\ r.rootIsOurs
  BY <1>2 DEF DemoRun!Landed, DemoRun!Followed
<1>3. CASE ~r.targetIsOurs /\ ~r.rootIsOurs
  <2> DEFINE s == r.strayed \cup {which}
  <2>1. s \in SUBSET {"meant", "best_effort"}
    BY DEF DemoRuns
  <2>2. DemoRun!Landed(r, a, which) = [r EXCEPT !.strayed = s]
    BY <1>3 DEF DemoRun!Landed, DemoRun!Followed
  <2> HIDE DEF s
  <2>3. LET w == DemoRun!Landed(r, a, which)
        IN  /\ w \in DemoRuns /\ w.steps = r.steps /\ w.window = r.window /\ w.restored = r.restored
            /\ w.resolved = r.resolved /\ w.unrestored = r.unrestored /\ w.error = r.error
            /\ w.targetIsOurs = r.targetIsOurs /\ w.artifact = r.artifact /\ w.strayed = s
    BY <2>1, <2>2 DEF DemoRuns
  <2> QED
    BY <1>3, <2>3 DEF s
<1> QED
  BY <1>1, <1>2, <1>3

\* A rollback leaves nothing unaccounted for, and strays only where it may.
LEMMA RestoredIs ==
  ASSUME NEW r \in DemoRuns, NEW works \in BOOLEAN, NEW which \in {"meant", "best_effort"}, Straight(r),
         which = "meant" => r.rootIsOurs \/ r.window
  PROVE  LET b == DemoRun!RestoredBy(r, works, which)
         IN  /\ b \in DemoRuns /\ b.steps = r.steps /\ b.window = r.window /\ b.restored = r.restored
             /\ b.targetIsOurs = r.targetIsOurs
             /\ Straight(b) /\ (b.artifact = "patched" => Excused(b) /\ b.unrestored)
<1> DEFINE w == IF works THEN DemoRun!Landed(r, "original", which) ELSE r
           u == w.unrestored \/ w.artifact = "patched"
<1>1. /\ w \in DemoRuns /\ w.steps = r.steps /\ w.window = r.window /\ w.restored = r.restored
      /\ w.targetIsOurs = r.targetIsOurs
      /\ w.artifact = "patched" => r.artifact = "patched"
      /\ "meant" \in w.strayed => "meant" \in r.strayed \/ (which = "meant" /\ ~r.rootIsOurs)
  <2>1. CASE works
    <3>1. w = DemoRun!Landed(r, "original", which)
      BY <2>1
    <3> HIDE DEF w
    <3> QED
      BY <3>1, LandedIs
  <2>2. CASE ~works
    BY <2>2
  <2> QED
    BY <2>1, <2>2
<1>2. DemoRun!RestoredBy(r, works, which) = [w EXCEPT !.unrestored = u]
  BY DEF DemoRun!RestoredBy
<1> HIDE DEF w
<1>3. u \in BOOLEAN /\ (w.artifact = "patched" => u)
  BY <1>1 DEF DemoRuns
<1> HIDE DEF u
<1> DEFINE b == [w EXCEPT !.unrestored = u]
<1>4. /\ b \in DemoRuns /\ b.steps = w.steps /\ b.window = w.window /\ b.restored = w.restored
      /\ b.targetIsOurs = w.targetIsOurs /\ b.artifact = w.artifact /\ b.strayed = w.strayed /\ b.unrestored = u
  BY <1>1, <1>3 DEF DemoRuns
<1> HIDE DEF b
<1>5. Straight(b)
  BY <1>1, <1>4 DEF Straight
<1>6. b.artifact = "patched" => Excused(b) /\ b.unrestored
  BY <1>3, <1>4 DEF Excused
<1>7. DemoRun!RestoredBy(r, works, which) = b
  BY <1>2 DEF b
<1> QED
  BY <1>1, <1>4, <1>5, <1>6, <1>7

LEMMA RolledBackIs ==
  ASSUME NEW r \in DemoRuns, NEW works \in BOOLEAN, Straight(r)
  PROVE  LET b == DemoRun!RolledBack(r, works)
         IN  b \in DemoRuns /\ b.steps = r.steps /\ Straight(b) /\ (b.artifact = "patched" => Excused(b))
BY RestoredIs DEF DemoRun!RolledBack

LEMMA BoundaryKeeps ==
  ASSUME DemoInv, NEW n \in {5, 7}, DemoRun!At(DemoRun!StepOrder[n]), DemoRun!Boundary(DemoRun!StepOrder[n]),
         request' = request
  PROVE  DemoInv'
<1>1. /\ result = None /\ run \in DemoRuns /\ run.steps = StepsSoFar(n - 1) /\ Straight(run)
      /\ MayReach(run, DemoRun!StepOrder[n]) /\ run.at = DemoRun!StepOrder[n] /\ n \in 1..9
  <2>1. n \in 1..10 /\ n \in 1..9
    OBVIOUS
  <2> QED
    BY <2>1, StepReached
<1>2. CASE DemoRun!Refused(run, DemoRun!StepOrder[n])
  <2> DEFINE m == IF run.rootIsOurs THEN run.proofs + 1 ELSE run.proofs
             r == [run EXCEPT !.localOnly = FALSE, !.error = "NOT_DISPOSABLE", !.proofs = m]
  <2>1. m \in Nat
    BY <1>1 DEF DemoRuns
  <2>2. DemoRun!Fail(r, DemoRun!StepOrder[n], "refused")
    BY <1>2 DEF DemoRun!Refused
  <2> HIDE DEF m
  <2>3. /\ r \in DemoRuns /\ r.steps = run.steps /\ r.error = "NOT_DISPOSABLE" /\ r.strayed = run.strayed
        /\ r.window = run.window /\ r.restored = run.restored /\ r.artifact = run.artifact
    BY <1>1, <2>1 DEF DemoRuns, DemoRun!NoRollback
  <2> HIDE DEF r
  <2>4. Straight(r) /\ Excused(r)
    BY <1>1, <2>3 DEF Straight, Excused, DemoRun!NoRollback
  <2> QED
    BY <1>1, <2>2, <2>3, <2>4, FailsHere
<1>3. CASE DemoRun!BoundaryProved(run) /\ run' = [run EXCEPT !.proved = TRUE, !.proofs = @ + 2] /\ UNCHANGED result
  <2> DEFINE m == run.proofs + 2
  <2>1. m \in Nat /\ run' = [run EXCEPT !.proved = TRUE, !.proofs = m]
    BY <1>1, <1>3 DEF DemoRuns
  <2> HIDE DEF m
  <2>2. /\ run' \in DemoRuns /\ run'.at = run.at /\ run'.steps = run.steps /\ Alike(run', run)
        /\ run'.rootIsOurs = run.rootIsOurs
    BY <1>1, <2>1 DEF DemoRuns, Alike
  <2>3. StepsSoFar(DemoRun!Place(run.at) - 1)' = StepsSoFar(DemoRun!Place(run.at) - 1)
    BY <2>2 DEF StepsSoFar, ExpectedOf
  <2>4. run'.rootIsOurs
    BY <1>3, <2>2 DEF DemoRun!BoundaryProved
  <2>5. GoesOn'
    BY <1>1, <2>2, <2>3, <2>4, StepIds DEF DemoInv, GoesOn, MayReach, Alike
  <2>6. Straight(run')
    BY <1>1, <2>2 DEF Straight, Alike
  <2> QED
    BY <1>1, <1>3, <2>2, <2>5, <2>6
    DEF DemoInv, Straight, DemoRun!OkIsTheWholeStory, DemoRun!CleanupIsHonest, DemoRun!NotLeftRepaired
<1> QED
  BY <1>2, <1>3 DEF DemoRun!Boundary

-----------------------------------------------------------------------------
LEMMA IsolateKeeps ==
  ASSUME DemoInv, DemoRun!Isolate PROVE DemoInv'
<1>1. /\ DemoRun!At(DemoRun!StepOrder[1]) /\ request' = request
      /\ \/ DemoRun!Fail(run, "isolate", "budget_exceeded")
         \/ \E outcome \in {"ready", "unprovable", "left", "failed", "live", "elsewhere"} :
              LET r == IF request.owned THEN DemoRun!CreateRoot(outcome) ELSE DemoRun!CallerRoot(outcome)
              IN  IF outcome # "ready"
                  THEN DemoRun!Fail(r, "isolate",
                            IF outcome \in {"live", "elsewhere"} THEN "refused" ELSE "failed")
                  ELSE \E k \in DemoRun!Copies(request) :
                         IF k < DemoRun!Fixtures THEN DemoRun!Fail(r, "isolate", "failed")
                         ELSE DemoRun!Pass([r EXCEPT !.artifact = "original", !.proofs = 2,
                                             !.localOnly = TRUE], "isolate")
  BY StepIds DEF DemoRun!Isolate, DemoRun!OverBudget
<1>2. /\ result = None /\ run \in DemoRuns /\ run.steps = StepsSoFar(1 - 1) /\ Straight(run)
      /\ MayReach(run, DemoRun!StepOrder[1])
  BY <1>1, StepReached
<1>3. run.artifact = "patched" => Excused(run)
  BY <1>2, StepIds DEF MayReach, Excused
<1>4. CASE DemoRun!Fail(run, "isolate", "budget_exceeded")
  BY <1>1, <1>2, <1>3, <1>4, StepIds, FailsHere
<1>5. ASSUME NEW outcome \in {"ready", "unprovable", "left", "failed", "live", "elsewhere"}
      PROVE  LET r == IF request.owned THEN DemoRun!CreateRoot(outcome) ELSE DemoRun!CallerRoot(outcome)
             IN  r \in DemoRuns /\ r.steps = run.steps /\ Alike(r, run)
  <2>1. DemoRun!CreateRoot(outcome) \in DemoRuns /\ DemoRun!CreateRoot(outcome).steps = run.steps
        /\ Alike(DemoRun!CreateRoot(outcome), run)
    BY <1>2 DEF DemoRun!CreateRoot, DemoRuns, Alike
  <2>2. DemoRun!CallerRoot(outcome) \in DemoRuns /\ DemoRun!CallerRoot(outcome).steps = run.steps
        /\ Alike(DemoRun!CallerRoot(outcome), run)
    <3>1. [run EXCEPT !.root = "caller", !.proofs = 1] \in DemoRuns
      BY <1>2 DEF DemoRuns
    <3>2. CASE outcome = "ready"
      BY <1>2, <3>1, <3>2 DEF DemoRun!CallerRoot, DemoRuns, Alike
    <3>3. CASE outcome # "ready"
      BY <1>2, <3>3 DEF DemoRun!CallerRoot, Alike
    <3> QED
      BY <3>2, <3>3
  <2> QED
    BY <2>1, <2>2
<1>6. ASSUME NEW r \in DemoRuns, r.steps = run.steps, Alike(r, run),
             NEW status \in {"refused", "failed"}, DemoRun!Fail(r, "isolate", status)
      PROVE  DemoInv'
  <2>1. Straight(r) /\ (r.artifact = "patched" => Excused(r))
    BY <1>2, <1>3, <1>6 DEF Straight, Excused, Alike
  <2> QED
    BY <1>1, <1>2, <1>6, <2>1, StepIds, FailsHere
<1>7. ASSUME NEW r \in DemoRuns, r.steps = run.steps, Alike(r, run),
             DemoRun!Pass([r EXCEPT !.artifact = "original", !.proofs = 2, !.localOnly = TRUE], "isolate")
      PROVE  DemoInv'
  <2> DEFINE d == [r EXCEPT !.artifact = "original", !.proofs = 2, !.localOnly = TRUE]
  <2>1. /\ d \in DemoRuns /\ d.steps = r.steps /\ d.strayed = r.strayed /\ d.artifact = "original"
        /\ d.window = r.window /\ d.restored = r.restored /\ d.unrestored = r.unrestored
    BY DEF DemoRuns
  <2>2. DemoRun!Pass(d, DemoRun!StepOrder[1])
    BY <1>7, StepIds
  <2> HIDE DEF d
  <2>3. MayReach(d, DemoRun!StepOrder[1 + 1]) /\ ExpectedOf(DemoRun!StepOrder[1]) = "pass"
    BY <1>2, <1>7, <2>1, StepIds DEF MayReach, ExpectedOf, Alike, LateSteps
  <2>4. Straight(d)
    BY <1>2, <1>7, <2>1 DEF Straight, Alike
  <2> QED
    BY <1>1, <1>2, <1>7, <2>1, <2>2, <2>3, <2>4, PassKeeps
<1> QED
  BY <1>1, <1>4, <1>5, <1>6, <1>7

LEMMA DiagnoseKeeps ==
  ASSUME DemoInv, DemoRun!DiagnoseMain PROVE DemoInv'
<1>1. DemoRun!At(DemoRun!StepOrder[2]) /\ request' = request
  BY StepIds DEF DemoRun!DiagnoseMain
<1>2. /\ result = None /\ run \in DemoRuns /\ run.steps = StepsSoFar(2 - 1) /\ Straight(run)
      /\ MayReach(run, DemoRun!StepOrder[2])
  BY <1>1, StepReached
<1>3. run.artifact = "patched" => Excused(run)
  BY <1>2, StepIds DEF MayReach, Excused
<1>4. CASE DemoRun!Finish(run, "failed")
  <2>1. MayEnd(run)
    BY <1>2, <1>3, EndsHere
  <2> QED
    BY <1>1, <1>4, <2>1, EndedKeeps DEF DemoInv
<1>5. CASE DemoRun!OverBudget("diagnose_main")
  BY <1>1, <1>2, <1>3, <1>5, StepIds, FailsHere DEF DemoRun!OverBudget
<1>6. ASSUME NEW n \in DemoRun!Network,
             DemoRun!Pass(DemoRun!Noted(run, "diagnose_main", n), DemoRun!StepOrder[2])
             \/ DemoRun!Fail(DemoRun!Noted(run, "diagnose_main", n), DemoRun!StepOrder[2], "failed")
      PROVE  DemoInv'
  <2> DEFINE r == DemoRun!Noted(run, "diagnose_main", n)
  <2>0. r \in DemoRuns /\ r.steps = run.steps /\ Alike(r, run)
    BY <1>2, NotedIs DEF DemoRun!Seams
  <2>2. DemoRun!Pass(r, DemoRun!StepOrder[2]) \/ DemoRun!Fail(r, DemoRun!StepOrder[2], "failed")
    BY <1>6
  <2> HIDE DEF r
  <2>1. /\ r \in DemoRuns /\ r.steps = run.steps /\ Straight(r) /\ (r.artifact = "patched" => Excused(r))
    BY <1>2, <1>3, <2>0 DEF Straight, Excused, Alike
  <2>3. CASE DemoRun!Pass(r, DemoRun!StepOrder[2])
    <3>1. MayReach(r, DemoRun!StepOrder[2 + 1]) /\ ExpectedOf(DemoRun!StepOrder[2]) = "pass"
      BY <1>2, <2>0, StepIds DEF MayReach, ExpectedOf, Alike, LateSteps
    <3> QED
      BY <1>1, <1>2, <2>1, <2>3, <3>1, PassKeeps
  <2>4. CASE DemoRun!Fail(r, DemoRun!StepOrder[2], "failed")
    BY <1>1, <1>2, <1>3, <2>1, <2>4, FailsHere
  <2> QED
    BY <2>2, <2>3, <2>4
<1> QED
  BY <1>4, <1>5, <1>6, StepIds DEF DemoRun!DiagnoseMain

LEMMA ExplainKeeps ==
  ASSUME DemoInv, DemoRun!ExplainMain PROVE DemoInv'
<1>1. DemoRun!At(DemoRun!StepOrder[3]) /\ request' = request
  BY StepIds DEF DemoRun!ExplainMain
<1>2. /\ result = None /\ run \in DemoRuns /\ run.steps = StepsSoFar(3 - 1) /\ Straight(run)
      /\ MayReach(run, DemoRun!StepOrder[3])
  BY <1>1, StepReached
<1>3. /\ run.artifact = "patched" => Excused(run)
      /\ MayReach(run, DemoRun!StepOrder[3 + 1]) /\ ExpectedOf(DemoRun!StepOrder[3]) = "pass"
  BY <1>2, StepIds DEF MayReach, ExpectedOf, Excused, LateSteps
<1>4. CASE DemoRun!Pass(run, DemoRun!StepOrder[3])
  BY <1>1, <1>2, <1>3, <1>4, PassKeeps
<1>5. CASE DemoRun!Fail(run, DemoRun!StepOrder[3], "failed")
  BY <1>1, <1>2, <1>3, <1>5, FailsHere
<1> QED
  BY <1>4, <1>5, StepIds DEF DemoRun!ExplainMain

LEMMA PreviewKeeps ==
  ASSUME DemoInv, DemoRun!PreviewMain PROVE DemoInv'
<1>1. DemoRun!At(DemoRun!StepOrder[4]) /\ request' = request
  BY StepIds DEF DemoRun!PreviewMain
<1>2. /\ result = None /\ run \in DemoRuns /\ run.steps = StepsSoFar(4 - 1) /\ Straight(run)
      /\ MayReach(run, DemoRun!StepOrder[4])
  BY <1>1, StepReached
<1>3. /\ run.artifact = "patched" => Excused(run)
      /\ MayReach(run, DemoRun!StepOrder[4 + 1]) /\ ExpectedOf(DemoRun!StepOrder[4]) = "pass"
  BY <1>2, StepIds DEF MayReach, ExpectedOf, Excused, LateSteps
<1>4. CASE DemoRun!Pass(run, DemoRun!StepOrder[4])
  BY <1>1, <1>2, <1>3, <1>4, PassKeeps
<1>5. CASE DemoRun!OverBudget(DemoRun!StepOrder[4])
  BY <1>1, <1>2, <1>3, <1>5, FailsHere DEF DemoRun!OverBudget
<1>6. CASE DemoRun!Fail(run, DemoRun!StepOrder[4], "failed")
  BY <1>1, <1>2, <1>3, <1>6, FailsHere
<1>7. CASE DemoRun!Finish(DemoRun!Pushed(run, DemoRun!StepOrder[4], "pass"), "failed")
  <2>1. MayEnd(run)
    BY <1>2, <1>3, EndsHere
  <2>2. MayEnd(DemoRun!Pushed(run, DemoRun!StepOrder[4], "pass"))
    BY <2>1, FailKeeps, StepIds, StepsAre
  <2> QED
    BY <1>1, <1>7, <2>2, EndedKeeps DEF DemoInv
<1> QED
  BY <1>4, <1>5, <1>6, <1>7, StepIds DEF DemoRun!PreviewMain

LEMMA VerifyKeeps ==
  ASSUME DemoInv, DemoRun!VerifyMain PROVE DemoInv'
<1>1. DemoRun!At(DemoRun!StepOrder[6]) /\ request' = request
  BY StepIds DEF DemoRun!VerifyMain
<1>2. /\ result = None /\ run \in DemoRuns /\ run.steps = StepsSoFar(6 - 1) /\ Straight(run)
      /\ MayReach(run, DemoRun!StepOrder[6])
  BY <1>1, StepReached
<1>3. ASSUME NEW works \in BOOLEAN, DemoRun!Fail(DemoRun!RolledBack(run, works), DemoRun!StepOrder[6], "budget_exceeded")
      PROVE  DemoInv'
  <2> DEFINE r == DemoRun!RolledBack(run, works)
  <2>1. r \in DemoRuns /\ r.steps = run.steps /\ Straight(r) /\ (r.artifact = "patched" => Excused(r))
    BY <1>2, RolledBackIs
  <2>2. DemoRun!Fail(r, DemoRun!StepOrder[6], "budget_exceeded")
    BY <1>3
  <2> HIDE DEF r
  <2> QED
    BY <1>1, <1>2, <2>1, <2>2, FailsHere
<1>4. ASSUME NEW works \in BOOLEAN,
             DemoRun!Fail([DemoRun!RolledBack(run, works) EXCEPT !.resolved = FALSE], DemoRun!StepOrder[6], "failed")
      PROVE  DemoInv'
  <2> DEFINE b == DemoRun!RolledBack(run, works)
             r == [b EXCEPT !.resolved = FALSE]
  <2>1. b \in DemoRuns /\ b.steps = run.steps /\ Straight(b) /\ (b.artifact = "patched" => Excused(b))
    BY <1>2, RolledBackIs
  <2>2. DemoRun!Fail(r, DemoRun!StepOrder[6], "failed")
    BY <1>4
  <2> HIDE DEF b
  <2>3. /\ r \in DemoRuns /\ r.steps = b.steps /\ r.artifact = b.artifact /\ r.strayed = b.strayed
        /\ r.window = b.window /\ r.restored = b.restored /\ r.unrestored = b.unrestored /\ r.error = b.error
    BY <2>1 DEF DemoRuns
  <2> HIDE DEF r
  <2>4. Straight(r) /\ (r.artifact = "patched" => Excused(r))
    BY <2>1, <2>3 DEF Straight, Excused
  <2> QED
    BY <1>1, <1>2, <2>1, <2>2, <2>3, <2>4, FailsHere
<1>5. CASE DemoRun!Pass([run EXCEPT !.resolved = TRUE], DemoRun!StepOrder[6])
  <2> DEFINE r == [run EXCEPT !.resolved = TRUE]
  <2>1. /\ r \in DemoRuns /\ r.steps = run.steps /\ r.artifact = run.artifact /\ r.strayed = run.strayed
        /\ r.window = run.window /\ r.restored = run.restored /\ r.unrestored = run.unrestored
    BY <1>2 DEF DemoRuns
  <2>2. DemoRun!Pass(r, DemoRun!StepOrder[6])
    BY <1>5
  <2> HIDE DEF r
  <2>3. /\ MayReach(r, DemoRun!StepOrder[6 + 1]) /\ ExpectedOf(DemoRun!StepOrder[6]) = "pass"
        /\ Straight(r)
    BY <1>2, <2>1, StepIds DEF MayReach, ExpectedOf, Straight, LateSteps
  <2> QED
    BY <1>1, <1>2, <2>1, <2>2, <2>3, PassKeeps
<1> QED
  BY <1>3, <1>4, <1>5, StepIds DEF DemoRun!VerifyMain, DemoRun!VerifyFailed

LEMMA BeforeRollbackKeeps ==
  ASSUME DemoInv, DemoRun!BeforeRollback PROVE DemoInv'
<1>1. DemoRun!At(DemoRun!StepOrder[7]) /\ request' = request
  BY StepIds DEF DemoRun!BeforeRollback
<1>2. /\ result = None /\ run \in DemoRuns /\ run.steps = StepsSoFar(7 - 1) /\ Straight(run)
  BY <1>1, StepReached
<1>3. ASSUME NEW works \in BOOLEAN, DemoRun!Fail(DemoRun!RolledBack(run, works), DemoRun!StepOrder[7], "budget_exceeded")
      PROVE  DemoInv'
  <2> DEFINE r == DemoRun!RolledBack(run, works)
  <2>1. r \in DemoRuns /\ r.steps = run.steps /\ Straight(r) /\ (r.artifact = "patched" => Excused(r))
    BY <1>2, RolledBackIs
  <2>2. DemoRun!Fail(r, DemoRun!StepOrder[7], "budget_exceeded")
    BY <1>3
  <2> HIDE DEF r
  <2> QED
    BY <1>1, <1>2, <2>1, <2>2, FailsHere
<1>4. CASE DemoRun!Boundary(DemoRun!StepOrder[7])
  BY <1>1, <1>4, BoundaryKeeps
<1> QED
  BY <1>3, <1>4, StepIds DEF DemoRun!BeforeRollback

LEMMA RollbackKeeps ==
  ASSUME DemoInv, DemoRun!RollbackMain PROVE DemoInv'
<1>1. DemoRun!At(DemoRun!StepOrder[7]) /\ request' = request /\ run.proved
  BY StepIds DEF DemoRun!RollbackMain
<1>2. /\ result = None /\ run \in DemoRuns /\ run.steps = StepsSoFar(7 - 1) /\ Straight(run)
      /\ MayReach(run, DemoRun!StepOrder[7]) /\ (run.rootIsOurs \/ run.window)
  BY <1>1, StepReached
<1>3. PICK works \in BOOLEAN : \E says \in BOOLEAN, hash \in DemoRun!Hashes(DemoRun!RestoredBy(run, works, "meant")) :
        IF works /\ says /\ DemoRun!Followed(run) /\ hash = "original"
        THEN DemoRun!Pass([DemoRun!RestoredBy(run, works, "meant") EXCEPT !.resolved = FALSE, !.restored = TRUE],
                          DemoRun!StepOrder[7])
        ELSE DemoRun!Fail(DemoRun!RestoredBy(run, works, "meant"), DemoRun!StepOrder[7], "failed")
  BY StepIds DEF DemoRun!RollbackMain
<1> DEFINE b == DemoRun!RestoredBy(run, works, "meant")
<1>4. /\ b \in DemoRuns /\ b.steps = run.steps /\ b.window = run.window /\ b.targetIsOurs = run.targetIsOurs
      /\ Straight(b) /\ (b.artifact = "patched" => Excused(b) /\ b.unrestored)
  BY <1>2, RestoredIs
<1>5. PICK says \in BOOLEAN, hash \in DemoRun!Hashes(b) :
        IF works /\ says /\ DemoRun!Followed(run) /\ hash = "original"
        THEN DemoRun!Pass([b EXCEPT !.resolved = FALSE, !.restored = TRUE], DemoRun!StepOrder[7])
        ELSE DemoRun!Fail(b, DemoRun!StepOrder[7], "failed")
  BY <1>3
<1> HIDE DEF b
<1>6. CASE DemoRun!Fail(b, DemoRun!StepOrder[7], "failed")
  BY <1>1, <1>2, <1>4, <1>6, FailsHere
<1>7. ASSUME DemoRun!Followed(run), hash = "original",
             DemoRun!Pass([b EXCEPT !.resolved = FALSE, !.restored = TRUE], DemoRun!StepOrder[7])
      PROVE  DemoInv'
  <2> DEFINE r == [b EXCEPT !.resolved = FALSE, !.restored = TRUE]
  <2>1. /\ r \in DemoRuns /\ r.steps = b.steps /\ r.artifact = b.artifact /\ r.strayed = b.strayed
        /\ r.window = b.window /\ r.unrestored = b.unrestored /\ ~r.resolved /\ r.restored
    BY <1>4 DEF DemoRuns
  <2>2. DemoRun!Pass(r, DemoRun!StepOrder[7])
    BY <1>7
  <2> HIDE DEF r
  <2>3. b.artifact = "original" \/ b.window
    BY <1>2, <1>4, <1>5, <1>7 DEF DemoRun!Hashes, DemoRun!Followed
  <2>4. Straight(r)
    BY <1>4, <2>1, <2>3 DEF Straight
  <2>5. MayReach(r, DemoRun!StepOrder[7 + 1]) /\ ExpectedOf(DemoRun!StepOrder[7]) = "pass"
    BY <1>2, <1>4, <2>1, <2>3, StepIds DEF MayReach, ExpectedOf, LateSteps
  <2> QED
    BY <1>1, <1>2, <1>4, <2>1, <2>2, <2>4, <2>5, PassKeeps
<1> QED
  BY <1>5, <1>6, <1>7

LEMMA InducedKeeps ==
  ASSUME DemoInv, run \in DemoRuns, request.induced, request' = request, result = None,
         NEW r \in DemoRuns, r.steps = StepsSoFar(4), Straight(r), NEW outcome, NEW hash,
         hash = "original" => r.artifact # "patched" /\ (r.artifact = "original" \/ r.window),
         DemoRun!ApplyInduced(r, outcome, hash)
  PROVE  DemoInv'
<1>1. CASE outcome = "rolled_back" /\ hash = "original"
  <2> DEFINE a == DemoRun!Pushed(r, "apply_main", "pass")
             b == DemoRun!Pushed(a, "verify_main", "skip")
             c == DemoRun!Pushed(b, "rollback_main", "skip")
             d == [c EXCEPT !.at = "model_refuse", !.proved = FALSE, !.restored = TRUE, !.resolved = FALSE]
  <2>1. run' = d /\ result' = result
    BY <1>1 DEF DemoRun!ApplyInduced
  <2>2. /\ a \in DemoRuns /\ a.steps = Append(StepsSoFar(4), DemoRun!Step(DemoRun!StepOrder[5], ExpectedOf(DemoRun!StepOrder[5])))
        /\ Alike(a, r)
    <3>1. a \in DemoRuns /\ a.steps = Append(r.steps, DemoRun!Step("apply_main", "pass"))
      BY PushedIs, StepsAre
    <3>2. Alike(a, r)
      BY DEF DemoRun!Pushed, DemoRuns, Alike
    <3> HIDE DEF a
    <3> QED
      BY <3>1, <3>2, StepIds DEF ExpectedOf, Alike
  <2> HIDE DEF a
  <2>3. a.steps = StepsSoFar(5)
    <3>1. Append(StepsSoFar(4), DemoRun!Step(DemoRun!StepOrder[4 + 1], ExpectedOf(DemoRun!StepOrder[4 + 1]))) = StepsSoFar(4 + 1)
      BY OneMore
    <3> QED
      BY <2>2, <3>1
  <2>4. /\ b \in DemoRuns /\ b.steps = Append(StepsSoFar(5), DemoRun!Step(DemoRun!StepOrder[6], ExpectedOf(DemoRun!StepOrder[6])))
        /\ Alike(b, r)
    <3>1. b \in DemoRuns /\ b.steps = Append(a.steps, DemoRun!Step("verify_main", "skip"))
      BY <2>2, PushedIs, StepsAre
    <3>2. Alike(b, a)
      BY <2>2 DEF DemoRun!Pushed, DemoRuns, Alike
    <3> HIDE DEF b
    <3> QED
      BY <2>2, <2>3, <3>1, <3>2, StepIds DEF ExpectedOf, Alike
  <2> HIDE DEF b
  <2>5. b.steps = StepsSoFar(6)
    <3>1. Append(StepsSoFar(5), DemoRun!Step(DemoRun!StepOrder[5 + 1], ExpectedOf(DemoRun!StepOrder[5 + 1]))) = StepsSoFar(5 + 1)
      BY OneMore
    <3> QED
      BY <2>4, <3>1
  <2>6. /\ c \in DemoRuns /\ c.steps = Append(StepsSoFar(6), DemoRun!Step(DemoRun!StepOrder[7], ExpectedOf(DemoRun!StepOrder[7])))
        /\ Alike(c, r)
    <3>1. c \in DemoRuns /\ c.steps = Append(b.steps, DemoRun!Step("rollback_main", "skip"))
      BY <2>4, PushedIs, StepsAre
    <3>2. Alike(c, b)
      BY <2>4 DEF DemoRun!Pushed, DemoRuns, Alike
    <3> HIDE DEF c
    <3> QED
      BY <2>4, <2>5, <3>1, <3>2, StepIds DEF ExpectedOf, Alike
  <2> HIDE DEF c
  <2>7. c.steps = StepsSoFar(7)
    <3>1. Append(StepsSoFar(6), DemoRun!Step(DemoRun!StepOrder[6 + 1], ExpectedOf(DemoRun!StepOrder[6 + 1]))) = StepsSoFar(6 + 1)
      BY OneMore
    <3> QED
      BY <2>6, <3>1
  <2>8. /\ d \in DemoRuns /\ d.at = "model_refuse" /\ d.steps = StepsSoFar(7) /\ d.artifact = r.artifact
        /\ d.restored /\ ~d.resolved /\ ~d.proved /\ d.strayed = r.strayed /\ d.window = r.window
    <3>1. c \in DemoRuns /\ c.artifact = r.artifact /\ c.strayed = r.strayed /\ c.window = r.window
      BY <2>6 DEF Alike
    <3> DEFINE e == [[c EXCEPT !.restored = TRUE] EXCEPT !.resolved = FALSE]
    <3>2. /\ e \in DemoRuns /\ e.steps = c.steps /\ e.artifact = c.artifact /\ e.strayed = c.strayed
          /\ e.window = c.window /\ e.restored /\ ~e.resolved
      BY <3>1 DEF DemoRuns
    <3>3. d = [[e EXCEPT !.at = "model_refuse"] EXCEPT !.proved = FALSE]
      BY <3>1 DEF DemoRuns
    <3> HIDE DEF d, e
    <3> DEFINE g == [e EXCEPT !.at = "model_refuse"]
    <3>4. "model_refuse" \in DemoRun!Steps
      BY StepsAre
    <3>5. /\ g \in DemoRuns /\ g.at = "model_refuse" /\ g.steps = e.steps /\ g.artifact = e.artifact
          /\ g.strayed = e.strayed /\ g.window = e.window /\ g.restored = e.restored /\ g.resolved = e.resolved
      BY <3>2, <3>4 DEF DemoRuns
    <3>6. d = [g EXCEPT !.proved = FALSE]
      BY <3>3
    <3> HIDE DEF g
    <3>7. /\ d \in DemoRuns /\ d.at = g.at /\ d.steps = g.steps /\ d.artifact = g.artifact /\ ~d.proved
          /\ d.strayed = g.strayed /\ d.window = g.window /\ d.restored = g.restored /\ d.resolved = g.resolved
      BY <3>5, <3>6 DEF DemoRuns
    <3> QED
      BY <2>7, <3>1, <3>2, <3>5, <3>7
  <2> HIDE DEF d
  <2>9. StepsSoFar(DemoRun!Place(run.at) - 1)' = StepsSoFar(7)
    BY <2>1, <2>8, PlaceIs DEF StepsSoFar, ExpectedOf
  <2>10. GoesOn'
    BY <1>1, <2>1, <2>8, <2>9 DEF GoesOn, MayReach, LateSteps
  <2>11. Straight(d)
    BY <1>1, <2>8 DEF Straight
  <2> QED
    BY <2>1, <2>8, <2>10, <2>11
    DEF DemoInv, Straight, DemoRun!OkIsTheWholeStory, DemoRun!CleanupIsHonest, DemoRun!NotLeftRepaired
<1>2. ASSUME NEW works \in BOOLEAN, DemoRun!Fail(DemoRun!RolledBack(r, works), DemoRun!StepOrder[5], "failed")
      PROVE  DemoInv'
  <2> DEFINE b == DemoRun!RolledBack(r, works)
  <2>1. b \in DemoRuns /\ b.steps = r.steps /\ Straight(b) /\ (b.artifact = "patched" => Excused(b))
    BY RolledBackIs
  <2>2. DemoRun!Fail(b, DemoRun!StepOrder[5], "failed")
    BY <1>2
  <2>3. 5 \in 1..9 /\ 5 - 1 = 4
    OBVIOUS
  <2> HIDE DEF b
  <2> QED
    BY <2>1, <2>2, <2>3, FailsHere
<1> QED
  BY <1>1, <1>2, StepIds DEF DemoRun!ApplyInduced

LEMMA MeantKeeps ==
  ASSUME DemoInv, ~request.induced, request' = request, result = None,
         NEW r \in DemoRuns, r.steps = StepsSoFar(4), Straight(r), ~r.restored, ~r.unrestored,
         NEW outcome, NEW hash, NEW n, outcome = "rolled_back" => r.artifact # "patched",
         DemoRun!ApplyMeant(r, outcome, hash, n)
  PROVE  DemoInv'
<1>0. 5 \in 1..9 /\ 5 - 1 = 4
  OBVIOUS
<1>1. CASE DemoRun!Pass(r, DemoRun!StepOrder[5])
  <2>1. MayReach(r, DemoRun!StepOrder[5 + 1]) /\ ExpectedOf(DemoRun!StepOrder[5]) = "pass"
    BY StepIds DEF MayReach, ExpectedOf, LateSteps
  <2> QED
    BY <1>0, <1>1, <2>1, PassKeeps
<1>2. CASE DemoRun!Fail([r EXCEPT !.error = "APPLY_HASH_UNCHANGED"], DemoRun!StepOrder[5], "failed")
  <2> DEFINE x == [r EXCEPT !.error = "APPLY_HASH_UNCHANGED"]
  <2>1. /\ x \in DemoRuns /\ x.steps = r.steps /\ x.artifact = r.artifact /\ x.strayed = r.strayed
        /\ x.window = r.window /\ x.restored = r.restored /\ x.error = "APPLY_HASH_UNCHANGED"
    BY DEF DemoRuns, DemoRun!NoRollback
  <2>2. DemoRun!Fail(x, DemoRun!StepOrder[5], "failed")
    BY <1>2
  <2> HIDE DEF x
  <2>3. Straight(x) /\ Excused(x)
    BY <2>1 DEF Straight, Excused, DemoRun!NoRollback
  <2> QED
    BY <1>0, <2>1, <2>2, <2>3, FailsHere
<1>3. CASE outcome = "rolled_back" /\ DemoRun!Fail(r, DemoRun!StepOrder[5], "failed")
  BY <1>0, <1>3, FailsHere
<1>4. ASSUME NEW works \in BOOLEAN, DemoRun!Fail(DemoRun!RolledBack(r, works), DemoRun!StepOrder[5], "failed")
      PROVE  DemoInv'
  <2> DEFINE b == DemoRun!RolledBack(r, works)
  <2>1. b \in DemoRuns /\ b.steps = r.steps /\ Straight(b) /\ (b.artifact = "patched" => Excused(b))
    BY RolledBackIs
  <2>2. DemoRun!Fail(b, DemoRun!StepOrder[5], "failed")
    BY <1>4
  <2> HIDE DEF b
  <2> QED
    BY <1>0, <2>1, <2>2, FailsHere
<1> QED
  BY <1>1, <1>2, <1>3, <1>4, StepIds DEF DemoRun!ApplyMeant

LEMMA BeforeApplyKeeps ==
  ASSUME DemoInv, DemoRun!BeforeApply PROVE DemoInv'
<1>1. DemoRun!At(DemoRun!StepOrder[5]) /\ request' = request
  BY StepIds DEF DemoRun!BeforeApply
<1>2. /\ result = None /\ run \in DemoRuns /\ run.steps = StepsSoFar(5 - 1) /\ Straight(run)
      /\ MayReach(run, DemoRun!StepOrder[5])
  BY <1>1, StepReached
<1>3. run.artifact = "patched" => Excused(run)
  BY <1>2, StepIds DEF MayReach, Excused
<1>4. CASE DemoRun!OverBudget(DemoRun!StepOrder[5])
  BY <1>1, <1>2, <1>3, <1>4, FailsHere DEF DemoRun!OverBudget
<1>5. CASE DemoRun!Boundary(DemoRun!StepOrder[5])
  BY <1>1, <1>5, BoundaryKeeps
<1> QED
  BY <1>4, <1>5, StepIds DEF DemoRun!BeforeApply

\* What an apply leaves, of the artifact and of what its hash shows.
LEMMA AppliedIs ==
  ASSUME NEW q \in DemoRuns, Straight(q), ~q.restored, q.artifact # "patched", q.rootIsOurs \/ q.window,
         NEW outcome \in {"refused", "resolved", "rolled_back", "broken"}, NEW n \in DemoRun!Network
  PROVE  LET r == [DemoRun!Noted(DemoRun!Applied(q, outcome), "apply_main", n) EXCEPT !.resolved = outcome = "resolved"]
         IN  /\ r \in DemoRuns /\ r.steps = q.steps /\ r.restored = q.restored /\ r.unrestored = q.unrestored
             /\ r.window = q.window /\ Straight(r) /\ r.targetIsOurs = q.targetIsOurs
             /\ outcome = "rolled_back" => r.artifact # "patched"
             /\ ~q.targetIsOurs => r.artifact = q.artifact
<1> DEFINE w == DemoRun!Applied(q, outcome)
           m == DemoRun!Noted(w, "apply_main", n)
           v == outcome = "resolved"
           r == [m EXCEPT !.resolved = v]
<1>1. /\ w \in DemoRuns /\ w.steps = q.steps /\ w.restored = q.restored /\ w.unrestored = q.unrestored
      /\ w.window = q.window /\ w.targetIsOurs = q.targetIsOurs
      /\ outcome = "rolled_back" => w.artifact # "patched"
      /\ ~q.targetIsOurs => w.artifact = q.artifact
      /\ "meant" \in w.strayed => "meant" \in q.strayed \/ ~q.rootIsOurs
  <2>1. CASE outcome = "refused"
    BY <2>1 DEF DemoRun!Applied
  <2>2. CASE outcome # "refused"
    <3> DEFINE a == IF outcome = "rolled_back" THEN "original" ELSE "patched"
    <3>1. w = DemoRun!Landed(q, a, "meant") /\ a \in {"original", "patched"}
      BY <2>2 DEF DemoRun!Applied
    <3>2. outcome = "rolled_back" => a = "original"
      OBVIOUS
    <3> HIDE DEF w, a
    <3> QED
      BY <3>1, <3>2, LandedIs
  <2> QED
    BY <2>1, <2>2
<1> HIDE DEF w
<1>2. v \in BOOLEAN
  OBVIOUS
<1> HIDE DEF v
<1>3. m \in DemoRuns /\ m.steps = w.steps /\ Alike(m, w) /\ m.targetIsOurs = w.targetIsOurs
  BY <1>1, NotedIs DEF DemoRun!Seams
<1> HIDE DEF m
<1>4. /\ r \in DemoRuns /\ r.steps = m.steps /\ r.restored = m.restored /\ r.unrestored = m.unrestored
      /\ r.window = m.window /\ r.strayed = m.strayed /\ r.targetIsOurs = m.targetIsOurs /\ r.artifact = m.artifact
  BY <1>2, <1>3 DEF DemoRuns
<1> HIDE DEF r
<1>5. /\ r \in DemoRuns /\ r.steps = q.steps /\ r.restored = q.restored /\ r.unrestored = q.unrestored
      /\ r.window = q.window /\ Straight(r) /\ r.targetIsOurs = q.targetIsOurs
      /\ outcome = "rolled_back" => r.artifact # "patched"
      /\ ~q.targetIsOurs => r.artifact = q.artifact
  BY <1>1, <1>3, <1>4 DEF Straight, Alike
<1> QED
  BY <1>5 DEF r, m, v, w

LEMMA ApplyKeeps ==
  ASSUME DemoInv, DemoRun!ApplyMain PROVE DemoInv'
<1>1. DemoRun!At(DemoRun!StepOrder[5]) /\ request' = request /\ run.proved
  BY StepIds DEF DemoRun!ApplyMain
<1>2. /\ result = None /\ run \in DemoRuns /\ run.steps = StepsSoFar(5 - 1) /\ Straight(run)
      /\ MayReach(run, DemoRun!StepOrder[5]) /\ (run.rootIsOurs \/ run.window)
  BY <1>1, StepReached
<1>3. /\ run.artifact # "patched" /\ ~run.restored /\ ~run.unrestored /\ 5 - 1 = 4
      /\ request.induced \in BOOLEAN
  BY <1>2, StepIds DEF MayReach, LateSteps, DemoInv, DemoRun!Options
<1>4. PICK n \in DemoRun!Network, outcome \in {"refused", "resolved", "rolled_back", "broken"} :
        /\ outcome # "refused" => DemoRun!Followed(run)
        /\ LET r == [DemoRun!Noted(DemoRun!Applied(run, outcome), "apply_main", n)
                       EXCEPT !.resolved = outcome = "resolved"]
           IN  \E hash \in DemoRun!Hashes(r) :
                 IF request.induced THEN DemoRun!ApplyInduced(r, outcome, hash)
                 ELSE DemoRun!ApplyMeant(r, outcome, hash, n)
  BY DEF DemoRun!ApplyMain
<1> DEFINE r == [DemoRun!Noted(DemoRun!Applied(run, outcome), "apply_main", n) EXCEPT !.resolved = outcome = "resolved"]
<1>5. /\ r \in DemoRuns /\ r.steps = run.steps /\ r.restored = run.restored /\ r.unrestored = run.unrestored
      /\ r.window = run.window /\ Straight(r) /\ r.targetIsOurs = run.targetIsOurs
      /\ outcome = "rolled_back" => r.artifact # "patched"
      /\ ~run.targetIsOurs => r.artifact = run.artifact
  BY <1>2, <1>3, AppliedIs
<1>6. PICK hash \in DemoRun!Hashes(r) : IF request.induced THEN DemoRun!ApplyInduced(r, outcome, hash)
                                        ELSE DemoRun!ApplyMeant(r, outcome, hash, n)
  BY <1>4
<1> HIDE DEF r
<1>7. CASE request.induced /\ outcome = "rolled_back"
  <2>1. hash = "original" => r.artifact # "patched" /\ (r.artifact = "original" \/ r.window)
    BY <1>2, <1>3, <1>4, <1>5, <1>6, <1>7 DEF DemoRun!Hashes, DemoRun!Followed
  <2> QED
    BY <1>1, <1>2, <1>3, <1>5, <1>6, <1>7, <2>1, InducedKeeps
<1>8. CASE request.induced /\ outcome # "rolled_back"
  <2>1. PICK works \in BOOLEAN : DemoRun!Fail(DemoRun!RolledBack(r, works), DemoRun!StepOrder[5], "failed")
    BY <1>6, <1>8, StepIds DEF DemoRun!ApplyInduced
  <2> DEFINE b == DemoRun!RolledBack(r, works)
  <2>2. b \in DemoRuns /\ b.steps = r.steps /\ Straight(b) /\ (b.artifact = "patched" => Excused(b))
    BY <1>5, RolledBackIs
  <2>3. DemoRun!Fail(b, DemoRun!StepOrder[5], "failed") /\ 5 \in 1..9
    BY <2>1
  <2> HIDE DEF b
  <2> QED
    BY <1>1, <1>2, <1>5, <2>2, <2>3, FailsHere
<1>9. CASE ~request.induced
  BY <1>1, <1>2, <1>3, <1>5, <1>6, <1>9, MeantKeeps
<1> QED
  BY <1>3, <1>7, <1>8, <1>9

LEMMA ModelRefuseKeeps ==
  ASSUME DemoInv, DemoRun!ModelRefuse PROVE DemoInv'
<1>1. DemoRun!At(DemoRun!StepOrder[8]) /\ request' = request
  BY StepIds DEF DemoRun!ModelRefuse
<1>2. /\ result = None /\ run \in DemoRuns /\ run.steps = StepsSoFar(8 - 1) /\ Straight(run)
      /\ MayReach(run, DemoRun!StepOrder[8])
  BY <1>1, StepReached
<1>3. run.artifact = "patched" => Excused(run)
  BY <1>2, StepIds DEF MayReach, Excused
<1>4. CASE DemoRun!OverBudget(DemoRun!StepOrder[8])
  BY <1>1, <1>2, <1>3, <1>4, FailsHere DEF DemoRun!OverBudget
<1>5. ASSUME NEW n \in DemoRun!Network, NEW m \in DemoRun!Network,
             DemoRun!Pass(DemoRun!Noted(DemoRun!Noted(run, "impact_baseline", n), "impact_mutated", m), DemoRun!StepOrder[8])
             \/ DemoRun!Fail(DemoRun!Noted(DemoRun!Noted(run, "impact_baseline", n), "impact_mutated", m), DemoRun!StepOrder[8], "failed")
      PROVE  DemoInv'
  <2> DEFINE q == DemoRun!Noted(run, "impact_baseline", n)
             r == DemoRun!Noted(q, "impact_mutated", m)
  <2>1. q \in DemoRuns /\ q.steps = run.steps /\ Alike(q, run)
    BY <1>2, NotedIs DEF DemoRun!Seams
  <2>2. DemoRun!Pass(r, DemoRun!StepOrder[8]) \/ DemoRun!Fail(r, DemoRun!StepOrder[8], "failed")
    BY <1>5
  <2> HIDE DEF q
  <2>6. r \in DemoRuns /\ r.steps = run.steps /\ Alike(r, run)
    BY <2>1, NotedIs DEF DemoRun!Seams, Alike
  <2> HIDE DEF r
  <2>3. /\ r \in DemoRuns /\ r.steps = run.steps /\ Straight(r) /\ (r.artifact = "patched" => Excused(r))
    BY <1>2, <1>3, <2>6 DEF Straight, Excused, Alike
  <2>4. CASE DemoRun!Pass(r, DemoRun!StepOrder[8])
    <3>1. MayReach(r, DemoRun!StepOrder[8 + 1]) /\ ExpectedOf(DemoRun!StepOrder[8]) = "pass"
      BY <1>2, <2>6, StepIds DEF MayReach, ExpectedOf, Alike, LateSteps
    <3> QED
      BY <1>1, <1>2, <2>3, <2>4, <3>1, PassKeeps
  <2>5. CASE DemoRun!Fail(r, DemoRun!StepOrder[8], "failed")
    BY <1>1, <1>2, <1>3, <2>3, <2>5, FailsHere
  <2> QED
    BY <2>2, <2>4, <2>5
<1> QED
  BY <1>4, <1>5, StepIds DEF DemoRun!ModelRefuse

LEMMA CrashKeeps ==
  ASSUME DemoInv, DemoRun!CrashRefuse PROVE DemoInv'
<1>1. DemoRun!At(DemoRun!StepOrder[9]) /\ request' = request
  BY StepIds DEF DemoRun!CrashRefuse
<1>2. /\ result = None /\ run \in DemoRuns /\ run.steps = StepsSoFar(9 - 1) /\ Straight(run)
      /\ MayReach(run, DemoRun!StepOrder[9])
  BY <1>1, StepReached
<1>3. run.artifact = "patched" => Excused(run)
  BY <1>2, StepIds DEF MayReach, Excused
<1>4. CASE DemoRun!OverBudget(DemoRun!StepOrder[9])
  BY <1>1, <1>2, <1>3, <1>4, FailsHere DEF DemoRun!OverBudget
<1>5. ASSUME NEW n \in DemoRun!Network,
             DemoRun!Pass(DemoRun!Noted(run, "crash_diagnose", n), DemoRun!StepOrder[9])
             \/ DemoRun!Fail(DemoRun!Noted(run, "crash_diagnose", n), DemoRun!StepOrder[9], "failed")
      PROVE  DemoInv'
  <2> DEFINE r == DemoRun!Noted(run, "crash_diagnose", n)
  <2>5. r \in DemoRuns /\ r.steps = run.steps /\ Alike(r, run)
    BY <1>2, NotedIs DEF DemoRun!Seams
  <2>2. DemoRun!Pass(r, DemoRun!StepOrder[9]) \/ DemoRun!Fail(r, DemoRun!StepOrder[9], "failed")
    BY <1>5
  <2> HIDE DEF r
  <2>1. /\ r \in DemoRuns /\ r.steps = run.steps /\ Straight(r) /\ (r.artifact = "patched" => Excused(r))
    BY <1>2, <1>3, <2>5 DEF Straight, Excused, Alike
  <2>3. CASE DemoRun!Pass(r, DemoRun!StepOrder[9])
    <3>1. MayReach(r, DemoRun!StepOrder[9 + 1]) /\ ExpectedOf(DemoRun!StepOrder[9]) = "pass"
      BY <1>2, <2>5, StepIds DEF MayReach, ExpectedOf, Alike, LateSteps
    <3> QED
      BY <1>1, <1>2, <2>1, <2>3, <3>1, PassKeeps
  <2>4. CASE DemoRun!Fail(r, DemoRun!StepOrder[9], "failed")
    BY <1>1, <1>2, <1>3, <2>1, <2>4, FailsHere
  <2> QED
    BY <2>2, <2>3, <2>4
<1> QED
  BY <1>4, <1>5, StepIds DEF DemoRun!CrashRefuse

LEMMA AllExpected ==
  \A i \in 1..10 : DemoRun!Ordered(StepsSoFar(10))[i] = DemoRun!Step(DemoRun!StepOrder[i], ExpectedOf(DemoRun!StepOrder[i]))
<1>1. StepsSoFar(10) \in Seq(StepEntries) /\ Len(StepsSoFar(10)) = 10
  BY SoFarType
<1>2. \A k \in 1..10 : StepsSoFar(10)[k] = DemoRun!Step(DemoRun!StepOrder[k], ExpectedOf(DemoRun!StepOrder[k]))
  BY DEF StepsSoFar
<1>3. \A k \in 1..10 : StepsSoFar(10)[k].id = DemoRun!StepOrder[k]
  BY <1>2 DEF DemoRun!Step
<1>4. DOMAIN StepsSoFar(10) = 1..10
  BY <1>1
<1>5. ASSUME NEW i \in 1..10
      PROVE  DemoRun!Ordered(StepsSoFar(10))[i] = StepsSoFar(10)[i]
  <2>1. StepsSoFar(10)[i].id = DemoRun!StepOrder[i] /\ \A j \in DOMAIN StepsSoFar(10) : StepsSoFar(10)[j].id = DemoRun!StepOrder[i] => j = i
    BY <1>3, <1>4, StepsInOrder
  <2> QED
    BY <1>1, <1>4, <2>1, FoundIn
<1> QED
  BY <1>2, <1>5

LEMMA CleanupKeeps ==
  ASSUME DemoInv, DemoRun!Cleanup PROVE DemoInv'
<1>1. DemoRun!At(DemoRun!StepOrder[10]) /\ request' = request
  BY StepIds DEF DemoRun!Cleanup
<1>2. /\ result = None /\ run \in DemoRuns /\ run.steps = StepsSoFar(10 - 1) /\ Straight(run)
      /\ MayReach(run, DemoRun!StepOrder[10])
  BY <1>1, StepReached
<1>3. /\ run.artifact = "original" \/ run.window
      /\ run.restored /\ ~run.resolved /\ (run.artifact = "patched" => Excused(run))
  BY <1>2, StepIds DEF MayReach, LateSteps, Excused
<1>4. MayEnd(run)
  BY <1>2, <1>3, EndsHere
<1>5. PICK gone \in BOOLEAN :
        LET c == DemoRun!Cleaned(run, gone)
        IN  /\ run' = [c EXCEPT !.at = "done"]
            /\ result' = DemoRun!Receipt(c, IF c.root = "own" THEN "failed" ELSE "completed", c.root # "own")
  BY DEF DemoRun!Cleanup
<1> DEFINE c == DemoRun!Cleaned(run, gone)
           r == DemoRun!Receipt(c, "completed", TRUE)
<1>6. CASE c.root = "own"
  <2>1. DemoRun!Finish(run, "failed")
    BY <1>5, <1>6 DEF DemoRun!Finish
  <2> QED
    BY <1>1, <1>4, <2>1, EndedKeeps DEF DemoInv
<1>7. CASE c.root # "own"
  <2>1. /\ c \in DemoRuns /\ c.steps = Append(run.steps, DemoRun!Step("cleanup", "pass"))
        /\ Alike(c, run)
    BY <1>4, <1>7, CleanedIs
  <2>2. run' = [c EXCEPT !.at = "done"] /\ result' = r
    BY <1>5, <1>7
  <2> HIDE DEF c
  <2>3. c.steps = StepsSoFar(10)
    <3>1. Append(StepsSoFar(9), DemoRun!Step(DemoRun!StepOrder[9 + 1], ExpectedOf(DemoRun!StepOrder[9 + 1]))) = StepsSoFar(9 + 1)
      BY OneMore
    <3> QED
      BY <1>2, <2>1, <3>1, StepIds DEF ExpectedOf
  <2>4. /\ run' \in DemoRuns /\ run'.at = "done" /\ Alike(run', run) /\ run'.seen = c.seen
        /\ run'.root = c.root
    BY <1>2, <2>1, <2>2 DEF DemoRuns, Alike
  <2>5. /\ result'.ok => DemoRun!NetworkAllFalse(c.seen)
        /\ result'.steps = DemoRun!Ordered(StepsSoFar(10)) /\ result'.restored /\ ~result'.resolved
        /\ result'.cleaned /\ result'.error = run.error
    BY <1>3, <2>1, <2>2, <2>3 DEF DemoRun!Receipt, DemoRun!Proven, Alike
  <2>6. \A id \in DemoRun!Steps : DemoRun!Status(id)' = ExpectedOf(id)
    <3>1. \A id \in DemoRun!Steps : DemoRun!Place(id) \in 1..10 /\ DemoRun!StepOrder[DemoRun!Place(id)] = id
      BY StepPlaces
    <3>2. \A id \in DemoRun!Steps : result'.steps[DemoRun!Place(id)] = DemoRun!Step(id, ExpectedOf(id))
      BY <2>5, <3>1, AllExpected
    <3>5. \A id \in DemoRun!Steps : DemoRun!Step(id, ExpectedOf(id)).status = ExpectedOf(id)
      BY DEF DemoRun!Step
    <3>3. \A id \in DemoRun!Steps : result'.steps[DemoRun!Place(id)].status = ExpectedOf(id)
      BY <3>2, <3>5
    <3>4. \A id \in DemoRun!Steps : DemoRun!Status(id)' = result'.steps[DemoRun!Place(id)].status
      BY DEF DemoRun!Status, DemoRun!Place
    <3> QED
      BY <3>3, <3>4
  <2>7. result'.ok => \A s \in DemoRun!Seams : {o \in run'.seen : o[1] = s} = {<< s, "false" >>}
    <3>1. run'.seen \subseteq DemoRun!Seams \X DemoRun!Network
      BY <2>4 DEF DemoRuns
    <3>2. ASSUME result'.ok, NEW s \in DemoRun!Seams
          PROVE  {o \in run'.seen : o[1] = s} = {<< s, "false" >>}
      <4>1. \A o \in run'.seen : o = << o[1], o[2] >> /\ o[2] = "false"
        BY <2>4, <2>5, <3>1, <3>2 DEF DemoRun!NetworkAllFalse
      <4>2. PICK o \in run'.seen : o[1] = s
        BY <2>4, <2>5, <3>2 DEF DemoRun!NetworkAllFalse
      <4>3. o = << s, "false" >>
        BY <4>1, <4>2
      <4>4. \A p \in {q \in run'.seen : q[1] = s} : p = << s, "false" >>
        BY <4>1
      <4> QED
        BY <4>2, <4>3, <4>4
    <3> QED
      BY <3>2
  <2>8. DemoRun!OkIsTheWholeStory'
    BY <1>1, <1>3, <2>4, <2>5, <2>6, <2>7 DEF DemoRun!OkIsTheWholeStory, ExpectedOf, Alike
  <2>9. DemoRun!CleanupIsHonest'
    <3>1. DemoRun!Status("cleanup")' = "pass"
      BY <2>6, StepsAre DEF ExpectedOf
    <3> QED
      BY <1>7, <2>4, <2>5, <3>1 DEF DemoRun!CleanupIsHonest
  <2>10. DemoRun!NotLeftRepaired'
    BY <1>3, <2>4, <2>5 DEF DemoRun!NotLeftRepaired, Excused, Alike
  <2>11. Straight(run')
    BY <1>2, <2>4 DEF Straight, Alike
  <2> QED
    BY <1>1, <2>4, <2>8, <2>9, <2>10, <2>11 DEF DemoInv, GoesOn, Straight
<1> QED
  BY <1>6, <1>7

LEMMA ThrowKeeps ==
  ASSUME DemoInv, DemoRun!Throw PROVE DemoInv'
<1>1. /\ result = None /\ request' = request /\ run.at \in DemoRun!Steps \ {"cleanup"}
  BY DEF DemoRun!Throw
<1>3. PICK n \in 1..10 : run.at = DemoRun!StepOrder[n]
  BY <1>1, StepsInOrder
<1>4. /\ run \in DemoRuns /\ run.steps = StepsSoFar(n - 1) /\ Straight(run)
      /\ MayReach(run, run.at) /\ (run.proved => run.rootIsOurs \/ run.window)
  BY <1>1, <1>3, StepReached DEF DemoRun!At
<1>2. PICK q : /\ \/ q = run
                  \/ /\ run.proved
                     /\ \E a \in {"original", "patched"} : q = DemoRun!Landed(run, a, "meant")
               /\ DemoRun!Finish([q EXCEPT !.error = "DEMO_INTERNAL_ERROR"], "failed")
  BY DEF DemoRun!Throw
<1>5. /\ q \in DemoRuns /\ q.steps = run.steps /\ q.window = run.window /\ q.restored = run.restored
      /\ "meant" \in q.strayed => run.window
      /\ (q.restored /\ q.artifact = "patched") => q.window
  <2>1. CASE q = run
    BY <1>4, <2>1 DEF Straight
  <2>2. CASE run.proved /\ \E a \in {"original", "patched"} : q = DemoRun!Landed(run, a, "meant")
    <3>1. PICK a \in {"original", "patched"} : q = DemoRun!Landed(run, a, "meant")
      BY <2>2
    <3>2. run.at \notin LateSteps /\ (run.rootIsOurs \/ run.window)
      <4>1. run.at # "done"
        BY <1>1, StepsAre
      <4> QED
        BY <1>4, <2>2, <4>1 DEF DemoInv, GoesOn, LateSteps
    <3>3. ~run.restored
      BY <1>4, <3>2 DEF MayReach
    <3>4. /\ q \in DemoRuns /\ q.steps = run.steps /\ q.window = run.window /\ q.restored = run.restored
          /\ "meant" \in q.strayed => "meant" \in run.strayed \/ ~run.rootIsOurs
      BY <1>4, <3>1, LandedIs
    <3> QED
      BY <1>4, <3>2, <3>3, <3>4 DEF Straight
  <2> QED
    BY <1>2, <2>1, <2>2
<1> DEFINE r == [q EXCEPT !.error = "DEMO_INTERNAL_ERROR"]
<1>6. /\ r \in DemoRuns /\ r.steps = q.steps /\ r.strayed = q.strayed /\ r.window = q.window
      /\ r.restored = q.restored /\ r.artifact = q.artifact /\ r.error = "DEMO_INTERNAL_ERROR"
  BY <1>5 DEF DemoRuns, DemoRun!NoRollback
<1>7. DemoRun!Finish(r, "failed")
  BY <1>2
<1> HIDE DEF r
<1>8. Straight(r) /\ Excused(r)
  BY <1>5, <1>6 DEF Straight, Excused, DemoRun!NoRollback
<1>9. MayEnd(r)
  BY <1>4, <1>5, <1>6, <1>8, EndsHere
<1> QED
  BY <1>1, <1>7, <1>9, EndedKeeps DEF DemoInv

LEMMA SwapKeeps ==
  ASSUME DemoInv, DemoRun!Swap PROVE DemoInv'
<1>1. PICK ours \in BOOLEAN :
        run' = [run EXCEPT !.rootIsOurs = ours, !.targetIsOurs = FALSE, !.window = run.window \/ run.proved]
  BY DEF DemoRun!Swap
<1>2. request' = request /\ result' = result /\ result = None /\ run \in DemoRuns
  BY DEF DemoRun!Swap, DemoInv
<1>3. /\ run' \in DemoRuns /\ run'.at = run.at /\ run'.steps = run.steps /\ run'.artifact = run.artifact
      /\ run'.restored = run.restored /\ run'.resolved = run.resolved /\ run'.strayed = run.strayed
      /\ run'.unrestored = run.unrestored /\ run'.proved = run.proved
      /\ run'.window = (run.window \/ run.proved)
  <2> DEFINE w == run.window \/ run.proved
  <2>1. w \in BOOLEAN
    BY <1>2 DEF DemoRuns
  <2>2. run' = [run EXCEPT !.rootIsOurs = ours, !.targetIsOurs = FALSE, !.window = w]
    BY <1>1
  <2> HIDE DEF w
  <2>3. /\ run' \in DemoRuns /\ run'.at = run.at /\ run'.steps = run.steps /\ run'.artifact = run.artifact
        /\ run'.restored = run.restored /\ run'.resolved = run.resolved /\ run'.strayed = run.strayed
        /\ run'.unrestored = run.unrestored /\ run'.proved = run.proved /\ run'.window = w
    BY <1>2, <2>1, <2>2 DEF DemoRuns
  <2> QED
    BY <2>3 DEF w
<1>4. StepsSoFar(DemoRun!Place(run.at) - 1)' = StepsSoFar(DemoRun!Place(run.at) - 1)
  BY <1>2, <1>3 DEF StepsSoFar, ExpectedOf
<1>5. GoesOn'
  BY <1>2, <1>3, <1>4 DEF DemoInv, GoesOn, MayReach
<1>6. Straight(run')
  BY <1>3 DEF DemoInv, Straight
<1> QED
  BY <1>2, <1>3, <1>5, <1>6
  DEF DemoInv, Straight, DemoRun!OkIsTheWholeStory, DemoRun!CleanupIsHonest, DemoRun!NotLeftRepaired

LEMMA DemoStutters ==
  ASSUME DemoInv, UNCHANGED DemoRun!vars PROVE DemoInv'
BY DEF DemoRun!vars, DemoInv, GoesOn, MayReach, Straight, StepsSoFar, ExpectedOf,
       DemoRun!OkIsTheWholeStory, DemoRun!CleanupIsHonest, DemoRun!NotLeftRepaired, DemoRun!Status

LEMMA DemoStep ==
  ASSUME DemoInv, [DemoRun!Next]_(DemoRun!vars) PROVE DemoInv'
BY IsolateKeeps, DiagnoseKeeps, ExplainKeeps, PreviewKeeps, BeforeApplyKeeps, ApplyKeeps, VerifyKeeps,
   BeforeRollbackKeeps, RollbackKeeps, ModelRefuseKeeps, CrashKeeps, CleanupKeeps, ThrowKeeps, SwapKeeps, DemoStutters DEF DemoRun!Next

LEMMA DemoInit ==
  ASSUME DemoRun!Init PROVE DemoInv
<1>1. /\ run \in DemoRuns /\ run.at = "isolate" /\ run.steps = << >> /\ run.artifact = "none"
      /\ run.strayed = {} /\ ~run.unrestored /\ ~run.restored /\ ~run.proved
  <2>1. << >> \in Seq(StepEntries) /\ {} \in SUBSET (DemoRun!Seams \X DemoRun!Network) /\ "isolate" \in DemoRun!Steps
    BY StepsAre
  <2> QED
    BY <2>1 DEF DemoRun!Init, DemoRuns
<1>2. StepsSoFar(DemoRun!Place(run.at) - 1) = << >>
  <2>1. DemoRun!Place(run.at) - 1 = 0 /\ 1..0 = {}
    BY <1>1, PlaceIs
  <2> QED
    BY <2>1 DEF StepsSoFar
<1> QED
  BY <1>1, <1>2
  DEF DemoRun!Init, DemoInv, GoesOn, MayReach, Straight, LateSteps, DemoRun!OkIsTheWholeStory, DemoRun!CleanupIsHonest, DemoRun!NotLeftRepaired

-----------------------------------------------------------------------------
(***************************************************************************)
(* FollowupReply, whatever is asked in whatever order: the calls are those *)
(* of one request, and what was measured for a recipe stays with it.       *)
(***************************************************************************)

-----------------------------------------------------------------------------
LEMMA AskIs ==
  ASSUME ReplyInv, Replies!SoundCalls, NEW op, Replies!Ask(op)
  PROVE  /\ request' = request /\ run.at + 1 \in DOMAIN request.calls /\ run.at \in Nat
         /\ Replies!Call = request.calls[run.at + 1] /\ Replies!Call.op = op /\ Len(request.calls) \in Nat
         /\ run.at + 1 \in 1..Len(request.calls) /\ DOMAIN request.calls = 1..Len(request.calls)
BY DEF ReplyInv, Replies!SoundCalls, Replies!Ask, Replies!Call

\* What an answer to an event can be.
LEMMA EventAnswers ==
  ASSUME NEW call, NEW target, NEW subs
  PROVE  LET a == Replies!EventAnswer(call, target, subs).answer
             e == call.event
         IN  /\ a.guidance = None /\ a.recipe_status = None
             /\ \A p \in a.probes : ~e.prose.instruction /\ \E i \in Replies!ProbeIds(Replies!Intents(e.prose)) : p = Replies!Probe(i, target)
             /\ e.prose.instruction => a.intents \subseteq Replies!Untrusted /\ a.draft.lines = {} /\ a.draft.status # "READY"
             /\ a.draft.lines \subseteq a.probes
             /\ a.draft.status = "READY" => a.ok /\ a.draft.lines # {}
             /\ (a.probes # {} \/ a.mutated) =>
                  /\ Replies!EventFault(e) = None /\ call.ledger \notin {"busy", "save_fails"}
                  /\ Replies!Followed(subs, Replies!Says(e).issue) /\ ~Replies!Replayed(subs[Replies!Says(e).issue], Replies!Says(e))
<1> DEFINE e == call.event
           says == Replies!Says(e)
           intents == Replies!Intents(e.prose)
           probes == IF e.prose.instruction THEN {} ELSE {Replies!Probe(p, target) : p \in Replies!ProbeIds(intents)}
           draft == Replies!Draft(Replies!Capsule(says.issue, intents, probes, e.prose))
           status == IF e.prose.instruction THEN "REFUSED"
                     ELSE IF draft.status = "READY" THEN "REPLY_DRAFT_READY" ELSE "DISPOSITION_APPLIED"
           full == [Replies!Answered(~e.prose.instruction, status) EXCEPT
                      !.draft = draft, !.intents = intents, !.probes = probes, !.mutated = TRUE]
           a == Replies!EventAnswer(call, target, subs).answer
<1>1. \/ \E s \in {"INVALID_INPUT", "LEDGER_ERROR", "UNAUTHORIZED_ISSUE"} : a = Replies!Answered(FALSE, s)
      \/ a = [Replies!Answered(TRUE, "NO_NEW_EVIDENCE") EXCEPT !.draft = Replies!NoDraft("NO_NEW_EVIDENCE")]
      \/ /\ a = full /\ Replies!EventFault(e) = None /\ call.ledger \notin {"busy", "save_fails"}
         /\ Replies!Followed(subs, Replies!Says(e).issue) /\ ~Replies!Replayed(subs[Replies!Says(e).issue], Replies!Says(e))
  BY DEF Replies!EventAnswer
<1>2. CASE \E s \in {"INVALID_INPUT", "LEDGER_ERROR", "UNAUTHORIZED_ISSUE"} : a = Replies!Answered(FALSE, s)
  BY <1>2 DEF Replies!Answered, Replies!NoDraft
<1>3. CASE a = [Replies!Answered(TRUE, "NO_NEW_EVIDENCE") EXCEPT !.draft = Replies!NoDraft("NO_NEW_EVIDENCE")]
  BY <1>3 DEF Replies!Answered, Replies!NoDraft
<1>4. CASE /\ a = full /\ Replies!EventFault(e) = None /\ call.ledger \notin {"busy", "save_fails"}
           /\ Replies!Followed(subs, Replies!Says(e).issue) /\ ~Replies!Replayed(subs[Replies!Says(e).issue], Replies!Says(e))
  <2>1. /\ draft.lines \subseteq probes /\ (draft.status = "READY" => ~e.prose.instruction /\ draft.lines # {})
        /\ e.prose.instruction => draft.lines = {} /\ draft.status # "READY"
    BY DEF Replies!Draft, Replies!Capsule, Replies!NoDraft
  <2>2. e.prose.instruction => intents \subseteq Replies!Untrusted
    BY DEF Replies!Intents
  <2>3. \A p \in probes : ~e.prose.instruction /\ \E i \in Replies!ProbeIds(Replies!Intents(e.prose)) : p = Replies!Probe(i, target)
    OBVIOUS
  <2> HIDE DEF probes, draft, intents, status
  <2>4. /\ full.guidance = None /\ full.recipe_status = None /\ full.probes = probes /\ full.draft = draft
        /\ full.intents = intents /\ full.ok = ~e.prose.instruction
    BY DEF Replies!Answered
  <2> HIDE DEF full
  <2>5. /\ a.guidance = None /\ a.recipe_status = None /\ a.probes = probes /\ a.draft = draft
        /\ a.intents = intents /\ a.ok = ~e.prose.instruction
    BY <1>4, <2>4
  <2> HIDE DEF a
  <2>6. /\ a.guidance = None /\ a.recipe_status = None
        /\ \A p \in a.probes : ~e.prose.instruction /\ \E i \in Replies!ProbeIds(Replies!Intents(e.prose)) : p = Replies!Probe(i, target)
        /\ e.prose.instruction => a.intents \subseteq Replies!Untrusted /\ a.draft.lines = {} /\ a.draft.status # "READY"
        /\ a.draft.lines \subseteq a.probes
        /\ a.draft.status = "READY" => a.ok /\ a.draft.lines # {}
    BY <2>1, <2>2, <2>3, <2>5
  <2> QED
    BY <1>4, <2>6 DEF a
<1> QED
  BY <1>1, <1>2, <1>3, <1>4

\* The subscriptions an event leaves.
LEMMA EventLeaves ==
  ASSUME NEW call, NEW target, NEW subs, DOMAIN subs = Replies!Issues,
         Replies!SoundCalls, call.event.issue # None => call.event.issue.issue \in Replies!Issues
  PROVE  LET s == Replies!EventAnswer(call, target, subs).subs
             e == call.event
         IN  /\ DOMAIN s = Replies!Issues
             /\ (/\ Replies!EventFault(e) = None /\ call.ledger \notin {"busy", "save_fails"}
                 /\ Replies!MigrateTo(Replies!Says(e)) # e.issue.issue)
                => ~Replies!Followed(s, Replies!Says(e).issue) \/ Replies!Replayed(s[Replies!Says(e).issue], Replies!Says(e))
<1> DEFINE s == Replies!EventAnswer(call, target, subs).subs
           e == call.event
<1>1. \/ s = subs /\ (\/ Replies!EventFault(e) # None \/ call.ledger \in {"busy", "save_fails"}
                      \/ ~Replies!Followed(subs, Replies!Says(e).issue) \/ Replies!Replayed(subs[Replies!Says(e).issue], Replies!Says(e)))
      \/ s = Replies!SubsAfter(subs, Replies!Says(e)) /\ Replies!EventFault(e) = None
  BY DEF Replies!EventAnswer
<1>2. CASE s = subs /\ (\/ Replies!EventFault(e) # None \/ call.ledger \in {"busy", "save_fails"}
                        \/ ~Replies!Followed(subs, Replies!Says(e).issue) \/ Replies!Replayed(subs[Replies!Says(e).issue], Replies!Says(e)))
  BY <1>2
<1>3. CASE s = Replies!SubsAfter(subs, Replies!Says(e)) /\ Replies!EventFault(e) = None
  <2>1. Replies!Says(e).issue = e.issue.issue /\ e.issue.issue \in Replies!Issues
    BY <1>3 DEF Replies!Says, Replies!EventFault, Replies!SoundCalls, Replies!Words
  <2> DEFINE says == Replies!Says(e)
             to == Replies!MigrateTo(says)
             i == e.issue.issue
             moved == [subs EXCEPT ![i] = [active |-> to = None, last |-> says]]
  <2>2. says.issue = i /\ i \in Replies!Issues
    BY <2>1
  <2>3. s = moved \/ s = [moved EXCEPT ![to] = Replies!Following]
    BY <1>3, <2>2 DEF Replies!SubsAfter
  <2> HIDE DEF says, to, i, s
  <2>4. DOMAIN moved = Replies!Issues /\ moved[i].last = says
    BY <2>2
  <2> HIDE DEF moved
  <2>5. DOMAIN s = Replies!Issues /\ (to # i => s[i].last = says)
    BY <2>3, <2>4, <2>2
  <2>6. DOMAIN s = Replies!Issues /\ (to # i => Replies!Replayed(s[i], says))
    BY <2>5 DEF Replies!Replayed
  <2> QED
    BY <2>2, <2>6 DEF s, to, i, says
<1> QED
  BY <1>1, <1>2, <1>3

LEMMA EventKeeps ==
  ASSUME ReplyInv, Replies!SoundCalls, Replies!ProcessEvent PROVE ReplyInv'
<1> DEFINE a == Replies!EventAnswer(Replies!Call, request.target, run.subs)
           e == Replies!Call.event
<1>1. /\ request' = request /\ run.at + 1 \in DOMAIN request.calls /\ run.at \in Nat
      /\ Replies!Call = request.calls[run.at + 1] /\ Replies!Call.op = "process_event" /\ Len(request.calls) \in Nat
      /\ run.at + 1 \in 1..Len(request.calls) /\ DOMAIN request.calls = 1..Len(request.calls)
  BY AskIs DEF Replies!ProcessEvent
<1>2. result' = a.answer /\ run' = [run EXCEPT !.at = run.at + 1, !.subs = a.subs]
  BY DEF Replies!ProcessEvent
<1>3. e.issue # None => e.issue.issue \in Replies!Issues
  BY <1>1 DEF Replies!SoundCalls, ReplyInv
<1> DEFINE s == a.subs
<1>4. /\ DOMAIN s = Replies!Issues
      /\ (/\ Replies!EventFault(e) = None /\ Replies!Call.ledger \notin {"busy", "save_fails"}
          /\ Replies!MigrateTo(Replies!Says(e)) # e.issue.issue)
         => ~Replies!Followed(s, Replies!Says(e).issue) \/ Replies!Replayed(s[Replies!Says(e).issue], Replies!Says(e))
  BY <1>3, EventLeaves DEF ReplyInv
<1> DEFINE r == a.answer
<1>5. /\ r.guidance = None /\ r.recipe_status = None
      /\ \A p \in r.probes : ~e.prose.instruction /\ \E i \in Replies!ProbeIds(Replies!Intents(e.prose)) : p = Replies!Probe(i, request.target)
      /\ e.prose.instruction => r.intents \subseteq Replies!Untrusted /\ r.draft.lines = {} /\ r.draft.status # "READY"
      /\ r.draft.lines \subseteq r.probes
      /\ r.draft.status = "READY" => r.ok /\ r.draft.lines # {}
      /\ (r.probes # {} \/ r.mutated) =>
           /\ Replies!EventFault(e) = None /\ Replies!Call.ledger \notin {"busy", "save_fails"}
           /\ Replies!Followed(run.subs, Replies!Says(e).issue) /\ ~Replies!Replayed(run.subs[Replies!Says(e).issue], Replies!Says(e))
  BY EventAnswers
<1>6. result' = r /\ run' = [run EXCEPT !.at = run.at + 1, !.subs = s]
  BY <1>2
<1> HIDE DEF a, r, s
<1>7. /\ DOMAIN run' = DOMAIN run /\ run'.at = run.at + 1 /\ run'.subs = s /\ run'.recipes = run.recipes
      /\ run'.guidance = run.guidance /\ run'.earned = run.earned
  BY <1>6 DEF ReplyInv
<1>8. Replies!Asked' = Replies!Call /\ Replies!Call.event = e
  BY <1>1, <1>7 DEF Replies!Asked, Replies!Call
<1>9. Settled'
  BY <1>4, <1>7, <1>8 DEF Settled
<1>10. Untouched'
  BY <1>1, <1>7 DEF Untouched, ReplyInv
<1>11. Replies!ProseIsData'
  <2> SUFFICES ASSUME NEW p \in r.probes
               PROVE  \E i \in e.prose.asks : i \in DOMAIN Replies!ProbeOf /\ p.probe = Replies!ProbeOf[i]
    BY <1>5, <1>6, <1>8 DEF Replies!ProseIsData, Replies!Followups
  <2>1. PICK i \in Replies!ProbeIds(Replies!Intents(e.prose)) : p = Replies!Probe(i, request.target)
    BY <1>5
  <2>2. PICK w \in Replies!Intents(e.prose) \cap DOMAIN Replies!ProbeOf : i = Replies!ProbeOf[w]
    BY DEF Replies!ProbeIds
  <2>3. w \in e.prose.asks
    BY DEF Replies!Intents, Replies!Untrusted, Replies!ProbeOf
  <2>4. p.probe = i
    BY <2>1 DEF Replies!Probe
  <2> QED
    BY <2>2, <2>3, <2>4
<1>12. Replies!DraftIsMeasured'
  <2>1. ASSUME NEW p \in r.draft.lines, p.found # {}
        PROVE  \E n \in Replies!Named(p.probe) : request.target.files[n] \in {"file", "behind_link"}
    <3>1. PICK i : p = Replies!Probe(i, request.target)
      BY <1>5
    <3>2. p.probe = i
      BY <3>1 DEF Replies!Probe
    <3>3. {n \in Replies!Named(i) : Replies!Present(request.target.files, n)} # {}
      BY <2>1, <3>1 DEF Replies!Probe
    <3> QED
      BY <3>2, <3>3 DEF Replies!Present
  <2> QED
    BY <1>1, <1>5, <1>6, <1>8, <2>1 DEF Replies!DraftIsMeasured, Replies!Followups
<1>13. Replies!AnsweredOnce'
  <2> SUFFICES ASSUME run.at > 0, request.calls[run.at] = Replies!Call, r.probes # {} \/ r.mutated,
                      Replies!MigrateTo(Replies!Says(e)) # e.issue.issue
               PROVE  FALSE
    BY <1>1, <1>6, <1>7, <1>8 DEF Replies!AnsweredOnce, Replies!Followups
  <2>1. Replies!Asked = Replies!Call
    BY DEF Replies!Asked
  <2> QED
    BY <1>1, <1>5, <2>1 DEF ReplyInv, Settled
<1>14. Earned' /\ Replies!UpgradesAreMeasured'
  BY <1>5, <1>6, <1>7 DEF ReplyInv, Earned, Replies!UpgradesAreMeasured, Replies!SoundCalls, Replies!Words
<1>15. Replies!EvidenceStays'
  BY <1>1, <1>7 DEF ReplyInv, Replies!EvidenceStays
<1> QED
  BY <1>1, <1>4, <1>7, <1>9, <1>10, <1>11, <1>12, <1>13, <1>14, <1>15 DEF ReplyInv

-----------------------------------------------------------------------------
\* What an upgrade is recommended by.
LEMMA MeasuredIs ==
  ASSUME NEW call, NEW known
  PROVE  /\ Replies!CanaryGuidance(Replies!Measured(call), known) = "RECOMMEND_UPGRADE" <=> call.measured = "positive"
         /\ Replies!CanaryGuidance([executed |-> call.executed, absent |-> call.absent, core |-> call.core,
                            witness |-> FALSE], known) # "RECOMMEND_UPGRADE"
BY DEF Replies!CanaryGuidance, Replies!Measured

\* What an answer to a candidate can be, and what it leaves.
LEMMA CandidateAnswers ==
  ASSUME Replies!SoundCalls, NEW call, NEW target, NEW recipes, NEW guidance,
         DOMAIN recipes = Replies!Recipes, call.recipe \in Replies!Recipes
  PROVE  LET c == Replies!CandidateAnswer(call, target, recipes, guidance)
             a == c.answer
             measured == Replies!CandidateFault(call) = None /\ call.measured = "positive" /\ call.item # None
             now == measured /\ ~Replies!Conflict(recipes[call.recipe], call.item)
         IN  /\ DOMAIN c.recipes = Replies!Recipes
             /\ \A r \in Replies!Recipes :
                  \/ c.recipes[r] = recipes[r]
                  \/ r = call.recipe /\ now /\ c.recipes[r] = call.item
             /\ now /\ call.ledger = "ok" => c.recipes[call.recipe] = call.item
             /\ c.guidance = "RECOMMEND_UPGRADE" => guidance = "RECOMMEND_UPGRADE" \/ measured
             /\ a.guidance = "RECOMMEND_UPGRADE" =>
                  /\ a.status = "SUPERSEDED" /\ c.guidance = "RECOMMEND_UPGRADE"
                  /\ c.recipes[call.recipe] = call.item
             /\ ~a.ok => a.guidance = None /\ a.recipe_status = None
<1> DEFINE c == Replies!CandidateAnswer(call, target, recipes, guidance)
           measured == Replies!CandidateFault(call) = None /\ call.measured = "positive" /\ call.item # None
           now == measured /\ ~Replies!Conflict(recipes[call.recipe], call.item)
           saved == Replies!CanaryGuidance(Replies!Measured(call), target.known_good)
           Left(a, rs, g) == [answer |-> a, recipes |-> rs, guidance |-> g]
           regressed == [Replies!Answered(TRUE, "CANDIDATE_REGRESSED") EXCEPT
                           !.guidance = saved, !.recipe_status = "ACTIVE_WORKAROUND"]
           superseded == [Replies!Answered(TRUE, "SUPERSEDED") EXCEPT !.guidance = "RECOMMEND_UPGRADE",
                            !.recipe_status = "SUPERSEDED_BY_UPSTREAM_FIX", !.mutated = TRUE]
           taken == [recipes EXCEPT ![call.recipe] = call.item]
<1>1. saved = "RECOMMEND_UPGRADE" <=> call.measured = "positive"
  BY MeasuredIs
<1>2. \/ \E s : c = Left(Replies!Answered(FALSE, s), recipes, guidance)
            /\ ~(now /\ call.ledger = "ok")
      \/ c = Left(regressed, recipes, saved) /\ call.measured # "positive"
      \/ /\ c = Left(Replies!Answered(FALSE, "REFUSED"), recipes, saved)
         /\ measured /\ ~(now /\ call.ledger = "ok")
      \/ c = Left(superseded, taken, saved) /\ now
  <2> HIDE DEF saved, regressed, superseded, taken
  <2>1. CASE Replies!CandidateFault(call) # None
    BY <2>1 DEF Replies!CandidateAnswer
  <2>2. CASE Replies!CandidateFault(call) = None
    BY <2>2 DEF Replies!CandidateAnswer, saved, regressed, superseded, taken
  <2> QED
    BY <2>1, <2>2
<1> HIDE DEF saved
<1>3. CASE \E s : c = Left(Replies!Answered(FALSE, s), recipes, guidance) /\ ~(now /\ call.ledger = "ok")
  <2>1. PICK s : c = Left(Replies!Answered(FALSE, s), recipes, guidance) /\ ~(now /\ call.ledger = "ok")
    BY <1>3
  <2>2. Replies!Answered(FALSE, s).guidance = None /\ Replies!Answered(FALSE, s).recipe_status = None
    BY DEF Replies!Answered
  <2>3. c.recipes = recipes /\ c.guidance = guidance /\ c.answer = Replies!Answered(FALSE, s)
    BY <2>1
  <2> QED
    BY <2>1, <2>2, <2>3 DEF Replies!SoundCalls, Replies!Words
<1>4. CASE c = Left(regressed, recipes, saved) /\ call.measured # "positive"
  <2>1. regressed.guidance = saved /\ regressed.ok
    BY DEF Replies!Answered
  <2>2. c.recipes = recipes /\ c.guidance = saved /\ c.answer = regressed
    BY <1>4
  <2> QED
    BY <1>1, <1>4, <2>1, <2>2
<1>5. CASE /\ c = Left(Replies!Answered(FALSE, "REFUSED"), recipes, saved)
           /\ measured /\ ~(now /\ call.ledger = "ok")
  <2>1. Replies!Answered(FALSE, "REFUSED").guidance = None /\ Replies!Answered(FALSE, "REFUSED").recipe_status = None
    BY DEF Replies!Answered
  <2>2. c.recipes = recipes /\ c.guidance = saved /\ c.answer = Replies!Answered(FALSE, "REFUSED")
    BY <1>5
  <2> QED
    BY <1>5, <2>1, <2>2 DEF Replies!SoundCalls, Replies!Words
<1>6. CASE c = Left(superseded, taken, saved) /\ now
  <2>1. superseded.status = "SUPERSEDED" /\ superseded.ok
    BY DEF Replies!Answered
  <2>2. DOMAIN taken = Replies!Recipes /\ taken[call.recipe] = call.item
        /\ \A r \in Replies!Recipes : r # call.recipe => taken[r] = recipes[r]
    OBVIOUS
  <2>3. c.recipes = taken /\ c.guidance = saved /\ c.answer = superseded
    BY <1>6
  <2> HIDE DEF c, superseded, taken
  <2>4. saved = "RECOMMEND_UPGRADE"
    BY <1>1, <1>6
  <2> QED
    BY <1>6, <2>1, <2>2, <2>3, <2>4 DEF c
<1> QED
  BY <1>2, <1>3, <1>4, <1>5, <1>6

LEMMA CandidateKeeps ==
  ASSUME ReplyInv, Replies!SoundCalls, Replies!ValidateCandidate PROVE ReplyInv'
<1> DEFINE c == Replies!CandidateAnswer(Replies!Call, request.target, run.recipes, run.guidance)
           a == c.answer
           earned == IF Replies!CandidateFault(Replies!Call) = None /\ Replies!Call.measured = "positive"
                     THEN run.earned \cup ({Replies!Call.item} \ {None}) ELSE run.earned
           measured == Replies!CandidateFault(Replies!Call) = None /\ Replies!Call.measured = "positive" /\ Replies!Call.item # None
           now == measured /\ ~Replies!Conflict(run.recipes[Replies!Call.recipe], Replies!Call.item)
<1>1. /\ request' = request /\ run.at + 1 \in DOMAIN request.calls /\ run.at \in Nat
      /\ Replies!Call = request.calls[run.at + 1] /\ Replies!Call.op = "validate_candidate" /\ Len(request.calls) \in Nat
      /\ run.at + 1 \in 1..Len(request.calls) /\ DOMAIN request.calls = 1..Len(request.calls)
  BY AskIs DEF Replies!ValidateCandidate
<1>2. Replies!Call.recipe \in Replies!Recipes
  BY <1>1 DEF Replies!SoundCalls, ReplyInv
<1>3. /\ result' = a
      /\ run' = [run EXCEPT !.at = run.at + 1, !.recipes = c.recipes, !.guidance = c.guidance, !.earned = earned]
  BY DEF Replies!ValidateCandidate
<1>4. /\ DOMAIN c.recipes = Replies!Recipes
      /\ \A r \in Replies!Recipes :
           \/ c.recipes[r] = run.recipes[r]
           \/ r = Replies!Call.recipe /\ now /\ c.recipes[r] = Replies!Call.item
      /\ now /\ Replies!Call.ledger = "ok" => c.recipes[Replies!Call.recipe] = Replies!Call.item
      /\ c.guidance = "RECOMMEND_UPGRADE" => run.guidance = "RECOMMEND_UPGRADE" \/ measured
      /\ a.guidance = "RECOMMEND_UPGRADE" =>
           /\ a.status = "SUPERSEDED" /\ c.guidance = "RECOMMEND_UPGRADE"
           /\ c.recipes[Replies!Call.recipe] = Replies!Call.item
      /\ ~a.ok => a.guidance = None /\ a.recipe_status = None
  BY <1>2, CandidateAnswers DEF ReplyInv
<1>5. run.earned \subseteq earned /\ (measured => Replies!Call.item \in earned)
  OBVIOUS
<1> HIDE DEF c, a, earned
<1>6. /\ DOMAIN run' = DOMAIN run /\ run'.at = run.at + 1 /\ run'.subs = run.subs /\ run'.recipes = c.recipes
      /\ run'.guidance = c.guidance /\ run'.earned = earned
  BY <1>3 DEF ReplyInv
<1>7. Replies!Asked' = Replies!Call
  BY <1>1, <1>6 DEF Replies!Asked, Replies!Call
<1>8. Settled' /\ Replies!ProseIsData' /\ Replies!DraftIsMeasured' /\ Replies!AnsweredOnce'
  BY <1>1, <1>7 DEF Settled, Replies!ProseIsData, Replies!DraftIsMeasured, Replies!AnsweredOnce, Replies!Followups
<1>9. Earned'
  BY <1>4, <1>5, <1>6 DEF ReplyInv, Earned
<1>10. Replies!UpgradesAreMeasured'
  BY <1>3, <1>4, <1>6, <1>7, <1>9 DEF Replies!UpgradesAreMeasured, Earned
<1>11. Untouched'
  <2> SUFFICES ASSUME NEW r \in Replies!Recipes,
                      \A m \in 1..(run.at + 1) : request.calls[m].op = "validate_candidate" => request.calls[m].recipe # r
               PROVE  c.recipes[r] = None
    BY <1>1, <1>6 DEF Untouched
  <2>1. run.recipes[r] = None
    BY <1>1 DEF ReplyInv, Untouched
  <2>2. r # Replies!Call.recipe
    BY <1>1
  <2> QED
    BY <1>4, <2>1, <2>2
<1>12. Replies!EvidenceStays'
  <2> SUFFICES ASSUME NEW n \in 1..(run.at + 1),
                      LET d == request.calls[n]
                      IN  /\ d.op = "validate_candidate" /\ d.ledger = "ok" /\ Replies!CandidateFault(d) = None
                          /\ d.measured = "positive" /\ d.item # None
                          /\ \A m \in 1..(n - 1) :
                               request.calls[m].op = "validate_candidate" => request.calls[m].recipe # d.recipe
               PROVE  c.recipes[request.calls[n].recipe] = request.calls[n].item
    BY <1>1, <1>6 DEF Replies!EvidenceStays
  <2>1. CASE n = run.at + 1
    <3>1. run.recipes[Replies!Call.recipe] = None
      <4>1. \A m \in 1..run.at : request.calls[m].op = "validate_candidate" => request.calls[m].recipe # Replies!Call.recipe
        BY <1>1, <2>1
      <4> QED
        BY <1>2, <4>1 DEF ReplyInv, Untouched
    <3>2. now /\ Replies!Call.ledger = "ok"
      BY <1>1, <2>1, <3>1 DEF Replies!Conflict
    <3> QED
      BY <1>1, <1>4, <2>1, <3>2
  <2>2. CASE n # run.at + 1
    <3>1. n \in 1..run.at
      BY <1>1, <2>2
    <3> DEFINE d == request.calls[n]
    <3>2. run.recipes[d.recipe] = d.item /\ d.item # None
      BY <3>1 DEF ReplyInv, Replies!EvidenceStays
    <3>3. d.recipe \in Replies!Recipes
      BY <1>1 DEF ReplyInv, Replies!SoundCalls
    <3> QED
      BY <1>4, <3>2, <3>3 DEF Replies!Conflict
  <2> QED
    BY <2>1, <2>2
<1> QED
  BY <1>1, <1>4, <1>6, <1>8, <1>9, <1>10, <1>11, <1>12 DEF ReplyInv

\* The user's own calls, which change no recipe and earn nothing.
LEMMA PublicKeeps ==
  ASSUME ReplyInv, Replies!SoundCalls, Replies!Canary \/ Replies!SupersedeRecipe PROVE ReplyInv'
<1>1. /\ request' = request /\ run.at + 1 \in DOMAIN request.calls /\ run.at \in Nat
      /\ Replies!Call = request.calls[run.at + 1] /\ Replies!Call.op \in {"canary", "supersede_recipe"} /\ Len(request.calls) \in Nat
      /\ run.at + 1 \in 1..Len(request.calls) /\ DOMAIN request.calls = 1..Len(request.calls)
  BY AskIs DEF Replies!Canary, Replies!SupersedeRecipe
<1>2. PICK g : /\ g = "RECOMMEND_UPGRADE" => run.guidance = g
               /\ run' = [run EXCEPT !.at = run.at + 1, !.guidance = g]
  <2>1. CASE Replies!Canary
    <3>1. Replies!PublicCanary(Replies!Call, request.target) # "RECOMMEND_UPGRADE"
      BY MeasuredIs DEF Replies!PublicCanary
    <3> QED
      BY <2>1, <3>1 DEF Replies!Canary
  <2>2. CASE Replies!SupersedeRecipe
    <3>1. run' = [run EXCEPT !.at = run.at + 1, !.guidance = run.guidance]
      BY <2>2 DEF Replies!SupersedeRecipe, ReplyInv
    <3> QED
      BY <3>1
  <2> QED
    BY <2>1, <2>2
<1>3. /\ result'.guidance # "RECOMMEND_UPGRADE"
      /\ ~result'.ok => result'.guidance = None /\ result'.recipe_status = None
  <2>1. CASE Replies!Canary
    <3>1. Replies!PublicCanary(Replies!Call, request.target) # "RECOMMEND_UPGRADE"
      BY MeasuredIs DEF Replies!PublicCanary
    <3>2. result'.guidance = Replies!PublicCanary(Replies!Call, request.target) /\ result'.ok
      BY <2>1 DEF Replies!Canary, Replies!Answered
    <3> QED
      BY <3>1, <3>2
  <2>2. CASE Replies!SupersedeRecipe
    BY <2>2 DEF Replies!SupersedeRecipe, Replies!Answered, Replies!SoundCalls, Replies!Words
  <2> QED
    BY <2>1, <2>2
<1>4. /\ DOMAIN run' = DOMAIN run /\ run'.at = run.at + 1 /\ run'.subs = run.subs
      /\ run'.recipes = run.recipes /\ run'.guidance = g /\ run'.earned = run.earned
  BY <1>2 DEF ReplyInv
<1>5. Replies!Asked' = Replies!Call
  BY <1>1, <1>4 DEF Replies!Asked, Replies!Call
<1>6. Settled' /\ Replies!ProseIsData' /\ Replies!DraftIsMeasured' /\ Replies!AnsweredOnce'
  BY <1>1, <1>5 DEF Settled, Replies!ProseIsData, Replies!DraftIsMeasured, Replies!AnsweredOnce, Replies!Followups
<1>7. Earned' /\ Replies!UpgradesAreMeasured'
  BY <1>2, <1>3, <1>4 DEF ReplyInv, Earned, Replies!UpgradesAreMeasured
<1>8. Untouched'
  BY <1>1, <1>4 DEF ReplyInv, Untouched
<1>9. Replies!EvidenceStays'
  BY <1>1, <1>4 DEF ReplyInv, Replies!EvidenceStays
<1> QED
  BY <1>1, <1>4, <1>6, <1>7, <1>8, <1>9 DEF ReplyInv

LEMMA ReplyStep ==
  ASSUME ReplyInv, Replies!SoundCalls, [Replies!Next]_(Replies!vars) PROVE ReplyInv'
<1>1. CASE UNCHANGED Replies!vars
  BY <1>1 DEF Replies!vars, ReplyInv, Untouched, Settled, Earned, Replies!ProseIsData, Replies!DraftIsMeasured, Replies!AnsweredOnce,
              Replies!UpgradesAreMeasured, Replies!EvidenceStays, Replies!Followups, Replies!Asked
<1> QED
  BY <1>1, EventKeeps, CandidateKeeps, PublicKeeps DEF Replies!Next

LEMMA ReplyInit ==
  ASSUME Replies!Init, Replies!SoundCalls PROVE ReplyInv
<1>1. /\ request \in ReplyRequests /\ Len(request.calls) \in Nat /\ result = None /\ run.at = 0
      /\ run.recipes = [r \in Replies!Recipes |-> None] /\ run.guidance = None
      /\ DOMAIN run = {"subs", "recipes", "guidance", "at", "earned"} /\ DOMAIN run.subs = Replies!Issues
  BY DEF Replies!Init, Replies!SoundCalls
<1>2. Untouched /\ Settled /\ Replies!EvidenceStays
  BY <1>1 DEF Untouched, Settled, Replies!EvidenceStays
<1>3. Earned
  BY <1>1 DEF Earned, Replies!SoundCalls, Replies!Words
<1>4. Replies!ProseIsData /\ Replies!DraftIsMeasured /\ Replies!AnsweredOnce /\ Replies!UpgradesAreMeasured
  BY <1>1 DEF Replies!ProseIsData, Replies!DraftIsMeasured, Replies!AnsweredOnce, Replies!UpgradesAreMeasured, Replies!Followups
<1> QED
  BY <1>1, <1>2, <1>3, <1>4 DEF ReplyInv

-----------------------------------------------------------------------------
(***************************************************************************)
(* UpstreamPreview and CapsuleActions, whatever is requested, and whatever *)
(* the host edits, previews and confirms, on whatever remote.              *)
(***************************************************************************)

\* What an answer is before it is exported.
LEMMA AssessedIs ==
  ASSUME NEW r
  PROVE  LET a == Assessed(r)
             route == Capsules!RouteUpstream(r.kind)
         IN  /\ route = "BUGCROWD" => a.recommendation = "private_report" /\ a.state = "NEW_INCIDENT"
             /\ route = "OPENAI_SUPPORT" =>
                  /\ a.recommendation = "contact_support"
                  /\ a.body = None /\ a.comment = None /\ a.links = {} /\ a.title = None
             /\ route = "GITHUB_DISCUSSIONS" => a.recommendation = "open_discussion" /\ a.comment = None
             /\ route = "GITHUB_ISSUE" /\ (~r.searched \/ ExactIn(r) \cup RelatedIn(r) = {}) =>
                  /\ a.state = "NEW_INCIDENT" /\ a.recommendation = "open_new" /\ a.matched = None
                  /\ a.body = Capsules!IssueBody(UsedTexts(r)) /\ a.comment = None
             /\ route = "GITHUB_ISSUE" /\ r.searched /\ ExactIn(r) # {} =>
                  /\ a.state = "EXACT_DUPLICATE" /\ a.material = NewIn(r) /\ a.body = None
                  /\ a.matched = r.candidates[Capsules!Min(ExactIn(r))]
                  /\ a.recommendation = IF NewIn(r) THEN "comment_with_delta" ELSE "subscribe_or_upvote"
             /\ route = "GITHUB_ISSUE" /\ r.searched /\ ExactIn(r) = {} /\ RelatedIn(r) # {} =>
                  /\ a.state = "RELATED_NOT_SAME" /\ a.recommendation = "cross_link_related"
                  /\ a.matched = r.candidates[Capsules!Min(RelatedIn(r))]
                  /\ a.body = Capsules!IssueBody(UsedTexts(r)) /\ a.comment = None
             /\ a.body \in {None, Capsules!IssueBody(UsedTexts(r))}
             /\ a.comment \in {None, Capsules!DeltaComment(UsedTexts(r))}
             /\ a.title \in {None, Capsules!DraftTitle(UsedTexts(r))}
             /\ DOMAIN a = {"state", "matched", "material", "recommendation", "body", "comment", "links", "title"}
<1> DEFINE a == Assessed(r)
           t == UsedTexts(r)
           route == Capsules!RouteUpstream(r.kind)
           material == NewIn(r)
           links == {r.candidates[i].id : i \in RelatedIn(r)}
<1>1. CASE route = "BUGCROWD"
  <2>1. a = Capsules!NewIncident(material, "private_report")
    BY <1>1 DEF Assessed, Capsules!AssessDuplicate, NewIn
  <2> QED
    BY <1>1, <2>1 DEF Capsules!NewIncident
<1>2. CASE route = "OPENAI_SUPPORT"
  <2>1. a = Capsules!NewIncident(FALSE, "contact_support")
    BY <1>2 DEF Assessed, Capsules!AssessDuplicate
  <2> QED
    BY <1>2, <2>1 DEF Capsules!NewIncident
<1>3. CASE route = "GITHUB_DISCUSSIONS"
  <2>1. a = Capsules!Drafted(Capsules!NewIncident(material, "open_discussion"), t)
    BY <1>3 DEF Assessed, Capsules!AssessDuplicate, NewIn
  <2> QED
    BY <1>3, <2>1 DEF Capsules!NewIncident, Capsules!Drafted
<1>4. CASE route = "GITHUB_ISSUE" /\ (~r.searched \/ ExactIn(r) \cup RelatedIn(r) = {})
  <2>1. a = Capsules!Drafted(Capsules!NewIncident(material, "open_new"), t)
    BY <1>4 DEF Assessed, Capsules!AssessDuplicate, NewIn, ExactIn, RelatedIn
  <2> QED
    BY <1>4, <2>1 DEF Capsules!NewIncident, Capsules!Drafted
<1>5. CASE route = "GITHUB_ISSUE" /\ r.searched /\ ExactIn(r) # {} /\ ~material
  <2>1. a = [Capsules!NewIncident(material, "subscribe_or_upvote") EXCEPT
               !.state = "EXACT_DUPLICATE", !.matched = r.candidates[Capsules!Min(ExactIn(r))]]
    BY <1>5 DEF Assessed, Capsules!AssessDuplicate, NewIn, ExactIn, RelatedIn
  <2> QED
    BY <1>5, <2>1 DEF Capsules!NewIncident
<1>6. CASE route = "GITHUB_ISSUE" /\ r.searched /\ ExactIn(r) # {} /\ material
  <2>1. a = [[Capsules!NewIncident(material, "comment_with_delta") EXCEPT
               !.state = "EXACT_DUPLICATE", !.matched = r.candidates[Capsules!Min(ExactIn(r))]]
               EXCEPT !.comment = Capsules!DeltaComment(t), !.links = links]
    BY <1>6 DEF Assessed, Capsules!AssessDuplicate, NewIn, ExactIn, RelatedIn
  <2> QED
    BY <1>6, <2>1 DEF Capsules!NewIncident
<1>7. CASE route = "GITHUB_ISSUE" /\ r.searched /\ ExactIn(r) = {} /\ RelatedIn(r) # {}
  <2>1. a = [Capsules!Drafted([Capsules!NewIncident(material, "cross_link_related") EXCEPT
               !.state = "RELATED_NOT_SAME", !.matched = r.candidates[Capsules!Min(RelatedIn(r))]], t)
               EXCEPT !.links = links]
    BY <1>7 DEF Assessed, Capsules!AssessDuplicate, NewIn, ExactIn, RelatedIn
  <2> QED
    BY <1>7, <2>1 DEF Capsules!NewIncident, Capsules!Drafted
<1>8. route \in {"BUGCROWD", "OPENAI_SUPPORT", "GITHUB_DISCUSSIONS", "GITHUB_ISSUE"}
  BY DEF Capsules!RouteUpstream
<1> HIDE DEF route, material
<1> QED
  BY <1>1, <1>2, <1>3, <1>4, <1>5, <1>6, <1>7, <1>8 DEF route, material

\* A capsule that is ready passed every check.
LEMMA ReadyMeans ==
  ASSUME NEW r, NEW doctor, Capsules!Capsule(r, doctor).status = "PREVIEW_READY"
  PROVE  LET c == Capsules!Capsule(r, doctor)
             a == Assessed(r)
             route == Capsules!RouteUpstream(r.kind)
         IN  /\ ~Capsules!Injected(r) /\ route # "BUGCROWD" /\ r.privacy = Capsules!PrivacyFlags
             /\ route = "GITHUB_ISSUE" => r.searched /\ r.surface # "unknown"
             /\ "technical_signals" \in DOMAIN UsedTexts(r)
             /\ c.failed = {} /\ c.privacy = [passed |-> TRUE, flags |-> r.privacy, quarantined |-> FALSE]
             /\ Capsules!MaterialValue(route, a)
             /\ c.duplicate = Capsules!Exported("PREVIEW_READY", route, a) /\ c.labels = Capsules!Labels("PREVIEW_READY", route, a)
<1> DEFINE t == UsedTexts(r)
           a == Assessed(r)
           route == Capsules!RouteUpstream(r.kind)
           failed == Capsules!FailedChecks(r, t, a, doctor, Capsules!PrivacyPassed(r, doctor))
           c == Capsules!Capsule(r, doctor)
<1>1. ~Capsules!Injected(r)
  BY DEF Capsules!Capsule
<1>2. t = Capsules!Texts(r) /\ a = Capsules!AssessDuplicate(r, Capsules!Texts(r))
  BY <1>1 DEF UsedTexts, Assessed
<1>6. Capsules!Injected(r) = FALSE
  BY <1>1 DEF Capsules!Injected
<1>7. c.status = CASE Capsules!Injected(r) -> "PREVIEW_BLOCKED"
                   [] ~Capsules!Injected(r) /\ failed # {} -> "GATE_FAILED"
                   [] ~Capsules!Injected(r) /\ failed = {} /\ route = "BUGCROWD" -> "ROUTED_PRIVATE"
                   [] OTHER -> "PREVIEW_READY"
  BY <1>1, <1>2 DEF Capsules!Capsule
<1>8. failed = {} /\ route # "BUGCROWD"
  BY <1>1, <1>7
<1>9. /\ c.failed = failed
      /\ c.duplicate = Capsules!Exported(c.status, route, a) /\ c.labels = Capsules!Labels(c.status, route, a)
  BY <1>1, <1>2 DEF Capsules!Capsule
<1>10. c.privacy = [passed |-> Capsules!PrivacyPassed(r, doctor), flags |-> r.privacy, quarantined |-> Capsules!Injected(r)]
  BY DEF Capsules!Capsule
<1>3. /\ c.failed = failed /\ failed = {} /\ route # "BUGCROWD"
      /\ c.duplicate = Capsules!Exported("PREVIEW_READY", route, a) /\ c.labels = Capsules!Labels("PREVIEW_READY", route, a)
      /\ c.privacy = [passed |-> Capsules!PrivacyPassed(r, doctor), flags |-> r.privacy, quarantined |-> FALSE]
  BY <1>6, <1>8, <1>9, <1>10
<1>4. /\ (route # "GITHUB_ISSUE" \/ r.searched) /\ (route # "GITHUB_ISSUE" \/ r.surface # "unknown")
      /\ "technical_signals" \in DOMAIN t /\ Capsules!PrivacyPassed(r, doctor) /\ Capsules!MaterialValue(route, a)
  <2> DEFINE checks ==
        [duplicate_search     |-> route # "GITHUB_ISSUE" \/ r.searched,
         surface              |-> route # "GITHUB_ISSUE" \/ r.surface # "unknown",
         platform_version     |-> /\ {"os", "unknown_reason"} \cap DOMAIN t # {}
                                  /\ {"codex_version", "version_unknown_reason"} \cap DOMAIN t # {},
         actual_behavior      |-> ~r.blank \/ t["actual_behavior"] = "placeholder",
         technical_signal     |-> "technical_signals" \in DOMAIN t,
         baseline_diagnostics |-> doctor.included # {} \/ doctor.refused # {},
         privacy_review       |-> Capsules!PrivacyPassed(r, doctor),
         reproduction_quality |-> Capsules!ReproductionOk(r, t),
         material_value       |-> Capsules!MaterialValue(route, a)]
  <2>1. failed = {k \in DOMAIN checks : ~checks[k]}
    BY DEF Capsules!FailedChecks
  <2>2. {"duplicate_search", "surface", "technical_signal", "privacy_review", "material_value"} \subseteq DOMAIN checks
    OBVIOUS
  <2> HIDE DEF checks, failed
  <2>3. /\ checks["duplicate_search"] /\ checks["surface"] /\ checks["technical_signal"]
        /\ checks["privacy_review"] /\ checks["material_value"]
    BY <1>3, <2>1, <2>2
  <2> QED
    BY <2>3 DEF checks
<1>5. Capsules!PrivacyPassed(r, doctor) = TRUE /\ r.privacy = Capsules!PrivacyFlags
  BY <1>4 DEF Capsules!PrivacyPassed
<1> QED
  BY <1>1, <1>3, <1>4, <1>5

\* A capsule that is not ready says nothing in public.
LEMMA NotReadyIsBare ==
  ASSUME NEW r, NEW doctor, Capsules!Capsule(r, doctor).status # "PREVIEW_READY"
  PROVE  LET d == Capsules!Capsule(r, doctor).duplicate
         IN  /\ d.body = None /\ d.comment = None /\ d.title = None /\ d.links = {}
             /\ Capsules!Capsule(r, doctor).labels = {}
<1> DEFINE c == Capsules!Capsule(r, doctor)
           a == Assessed(r)
           route == Capsules!RouteUpstream(r.kind)
<1>1. DOMAIN a = {"state", "matched", "material", "recommendation", "body", "comment", "links", "title"}
  BY AssessedIs
<1>2. c.status \in {"PREVIEW_BLOCKED", "GATE_FAILED", "ROUTED_PRIVATE"}
  BY DEF Capsules!Capsule
<1>3. c.duplicate = Capsules!Exported(c.status, route, a) /\ c.labels = Capsules!Labels(c.status, route, a)
  BY DEF Capsules!Capsule, UsedTexts, Assessed
<1> HIDE DEF a, c
<1>4. /\ Capsules!Exported(c.status, route, a).body = None /\ Capsules!Exported(c.status, route, a).comment = None
      /\ Capsules!Exported(c.status, route, a).title = None /\ Capsules!Exported(c.status, route, a).links = {}
  BY <1>1, <1>2 DEF Capsules!Exported
<1>5. Capsules!Labels(c.status, route, a) = {}
  BY <1>2 DEF Capsules!Labels
<1> QED
  BY <1>3, <1>4, <1>5 DEF c

\* What is ready, by what was found.
LEMMA ReadyOffers ==
  ASSUME Capsules!SoundSubmissions, NEW r \in CapsuleRequests, NEW doctor, Capsules!Capsule(r, doctor).status = "PREVIEW_READY"
  PROVE  LET c == Capsules!Capsule(r, doctor)
             d == c.duplicate
             a == Assessed(r)
             route == Capsules!RouteUpstream(r.kind)
         IN  /\ r.kind \in {"codex_product_bug", "product_support_question", "account_billing_private"}
             /\ r.kind = "account_billing_private" =>
                  /\ d.body = None /\ d.comment = None /\ d.title = None /\ d.links = {} /\ c.labels = {}
             /\ r.kind # "codex_product_bug" => Capsules!AllowedActions(d.recommendation) = {}
             /\ r.kind = "codex_product_bug" /\ ExactIn(r) = {} =>
                  /\ d.body # None /\ d.body = Capsules!IssueBody(UsedTexts(r)) /\ d.recommendation \in {"open_new", "cross_link_related"}
                  /\ d.matched = IF RelatedIn(r) = {} THEN None ELSE r.candidates[Capsules!Min(RelatedIn(r))]
             /\ r.kind = "codex_product_bug" /\ ExactIn(r) # {} =>
                  /\ d.body = None /\ d.matched = r.candidates[Capsules!Min(ExactIn(r))]
                  /\ IF NewIn(r) THEN d.recommendation = "comment_with_delta" /\ d.comment # None
                     ELSE /\ d.recommendation = "subscribe_or_upvote" /\ d.comment = None /\ d.title = None
                          /\ d.links = {} /\ c.labels = {}
<1> DEFINE c == Capsules!Capsule(r, doctor)
           d == c.duplicate
           a == Assessed(r)
           route == Capsules!RouteUpstream(r.kind)
<1>1. /\ route # "BUGCROWD" /\ (route = "GITHUB_ISSUE" => r.searched /\ r.surface # "unknown")
      /\ Capsules!MaterialValue(route, a)
      /\ d = Capsules!Exported("PREVIEW_READY", route, a) /\ c.labels = Capsules!Labels("PREVIEW_READY", route, a)
  BY ReadyMeans
<1>2. /\ route = "BUGCROWD" <=> r.kind = "validated_security_vulnerability"
      /\ route = "OPENAI_SUPPORT" <=> r.kind = "account_billing_private"
      /\ route = "GITHUB_DISCUSSIONS" <=> r.kind = "product_support_question"
      /\ route = "GITHUB_ISSUE" <=> r.kind = "codex_product_bug"
  BY DEF Capsules!RouteUpstream, Capsules!SoundSubmissions
<1>3. /\ route = "OPENAI_SUPPORT" =>
           /\ a.recommendation = "contact_support"
           /\ a.body = None /\ a.comment = None /\ a.links = {} /\ a.title = None
      /\ route = "GITHUB_DISCUSSIONS" => a.recommendation = "open_discussion" /\ a.comment = None
      /\ route = "GITHUB_ISSUE" /\ (~r.searched \/ ExactIn(r) \cup RelatedIn(r) = {}) =>
           /\ a.state = "NEW_INCIDENT" /\ a.recommendation = "open_new" /\ a.matched = None
           /\ a.body = Capsules!IssueBody(UsedTexts(r)) /\ a.comment = None
      /\ route = "GITHUB_ISSUE" /\ r.searched /\ ExactIn(r) # {} =>
           /\ a.state = "EXACT_DUPLICATE" /\ a.material = NewIn(r) /\ a.body = None
           /\ a.matched = r.candidates[Capsules!Min(ExactIn(r))]
           /\ a.recommendation = IF NewIn(r) THEN "comment_with_delta" ELSE "subscribe_or_upvote"
      /\ route = "GITHUB_ISSUE" /\ r.searched /\ ExactIn(r) = {} /\ RelatedIn(r) # {} =>
           /\ a.state = "RELATED_NOT_SAME" /\ a.recommendation = "cross_link_related"
           /\ a.matched = r.candidates[Capsules!Min(RelatedIn(r))]
           /\ a.body = Capsules!IssueBody(UsedTexts(r)) /\ a.comment = None
      /\ DOMAIN a = {"state", "matched", "material", "recommendation", "body", "comment", "links", "title"}
  BY AssessedIs
<1>4. r.kind \in {"codex_product_bug", "product_support_question", "account_billing_private",
                  "validated_security_vulnerability"}
  BY DEF Capsules!SoundSubmissions
<1> DEFINE bare == [a EXCEPT !.body = None, !.comment = None, !.links = {}, !.title = None]
<1>5. d = IF a.recommendation = "subscribe_or_upvote" THEN bare ELSE a
  BY <1>1 DEF Capsules!Exported
<1>6. /\ bare.body = None /\ bare.comment = None /\ bare.links = {} /\ bare.title = None
      /\ bare.recommendation = a.recommendation /\ bare.matched = a.matched
  BY <1>3
<1>7. c.labels = IF route = "GITHUB_ISSUE" /\ a.state = "NEW_INCIDENT" THEN {"bug", "changeguard-preview"} ELSE {}
  BY <1>1 DEF Capsules!Labels
<1> HIDE DEF a, d, c, route, bare
<1>8. CASE r.kind = "account_billing_private"
  BY <1>2, <1>3, <1>5, <1>7, <1>8 DEF Capsules!AllowedActions, d, c
<1>9. CASE r.kind = "product_support_question"
  BY <1>2, <1>3, <1>5, <1>7, <1>9 DEF Capsules!AllowedActions, d, c
<1>10. CASE r.kind = "codex_product_bug" /\ ExactIn(r) = {}
  BY <1>1, <1>2, <1>3, <1>5, <1>10 DEF Capsules!MaterialValue, d, c
<1>11. CASE r.kind = "codex_product_bug" /\ ExactIn(r) # {}
  <2>1. /\ a.state = "EXACT_DUPLICATE" /\ a.material = NewIn(r) /\ a.body = None
        /\ a.matched = r.candidates[Capsules!Min(ExactIn(r))] /\ c.labels = {}
        /\ a.recommendation = IF NewIn(r) THEN "comment_with_delta" ELSE "subscribe_or_upvote"
    BY <1>1, <1>2, <1>3, <1>7, <1>11
  <2>2. CASE NewIn(r)
    <3>1. a.comment # None
      BY <1>1, <1>2, <1>11, <2>1, <2>2 DEF Capsules!MaterialValue
    <3> QED
      BY <1>5, <1>11, <2>1, <2>2, <3>1 DEF d, c
  <2>3. CASE ~NewIn(r)
    BY <1>5, <1>6, <1>11, <2>1, <2>3 DEF d, c
  <2> QED
    BY <2>2, <2>3
<1> QED
  BY <1>1, <1>2, <1>4, <1>8, <1>9, <1>10, <1>11

-----------------------------------------------------------------------------

LEMMA PreviewIs ==
  ASSUME NEW r, Capsules!PreviewUpstream(r).capsule # None
  PROVE  LET p == Capsules!PreviewUpstream(r)
             c == Capsules!Capsule(r, DoctorOf(r))
         IN  /\ p.capsule = c /\ DoctorOf(r).error = None
             /\ p.ok = (c.status \in {"PREVIEW_READY", "ROUTED_PRIVATE"})
             /\ p.network_used = Capsules!FormTransportPermitted(r)
<1> DEFINE c == Capsules!Capsule(r, DoctorOf(r))
<1>1. Capsules!PreviewUpstream(r) = IF Capsules!Refusal(r) # None \/ DoctorOf(r).error # None THEN Capsules!NoCapsule
                           ELSE [ok |-> c.status \in {"PREVIEW_READY", "ROUTED_PRIVATE"}, capsule |-> c,
                                 network_used |-> Capsules!FormTransportPermitted(r)]
  BY DEF Capsules!PreviewUpstream, DoctorOf
<1> HIDE DEF c
<1>2. Capsules!NoCapsule.capsule = None
  BY DEF Capsules!NoCapsule
<1>3. ~(Capsules!Refusal(r) # None \/ DoctorOf(r).error # None)
  BY <1>1, <1>2
<1>4. Capsules!PreviewUpstream(r) = [ok |-> c.status \in {"PREVIEW_READY", "ROUTED_PRIVATE"}, capsule |-> c,
                            network_used |-> Capsules!FormTransportPermitted(r)]
  BY <1>1, <1>3
<1> QED
  BY <1>3, <1>4 DEF c

LEMMA PreviewDrafts ==
  ASSUME Capsules!SoundSubmissions, request \in CapsuleRequests, AsComputed PROVE Capsules!DraftsAreEarned
<1> SUFFICES ASSUME Capsules!IsPreview, result.capsule # None
             PROVE  LET d == result.capsule.duplicate
                        public == d.body # None \/ d.comment # None \/ d.title # None \/ d.links # {}
                                    \/ result.capsule.labels # {}
                    IN  /\ public => /\ result.ok /\ ~Capsules!Injected(request) /\ request.privacy = Capsules!PrivacyFlags
                                     /\ request.kind \in {"codex_product_bug", "product_support_question"}
                                     /\ "technical_signals" \in request.given
                        /\ public /\ request.kind = "codex_product_bug" =>
                             /\ request.searched /\ request.surface # "unknown"
                             /\ Capsules!SameProblem # {} => Capsules!NewEvidence /\ d.comment # None /\ d.body = None
                        /\ result.capsule.status = "PREVIEW_READY" /\ request.kind = "codex_product_bug"
                             /\ (Capsules!SameProblem = {} \/ Capsules!NewEvidence) => public
  BY DEF Capsules!DraftsAreEarned
<1> DEFINE c == Capsules!Capsule(request, DoctorOf(request))
           d == c.duplicate
           public == d.body # None \/ d.comment # None \/ d.title # None \/ d.links # {} \/ c.labels # {}
<1>1. result.capsule = c /\ result.ok = (c.status \in {"PREVIEW_READY", "ROUTED_PRIVATE"})
  BY PreviewIs DEF AsComputed
<1>2. Capsules!SameProblem = ExactIn(request) /\ (Capsules!NewEvidence <=> NewIn(request))
  BY DEF Capsules!SameProblem, ExactIn, Capsules!PickBestExact, Capsules!NewEvidence, NewIn
<1>3. public => c.status = "PREVIEW_READY"
  BY NotReadyIsBare
<1>4. CASE c.status = "PREVIEW_READY"
  <2>1. /\ ~Capsules!Injected(request) /\ request.privacy = Capsules!PrivacyFlags
        /\ Capsules!RouteUpstream(request.kind) = "GITHUB_ISSUE" => request.searched /\ request.surface # "unknown"
        /\ "technical_signals" \in DOMAIN UsedTexts(request)
    BY <1>4, ReadyMeans
  <2>2. "technical_signals" \in request.given
    BY <2>1 DEF UsedTexts, Capsules!Texts, Capsules!TextFields
  <2>3. request.kind = "codex_product_bug" => Capsules!RouteUpstream(request.kind) = "GITHUB_ISSUE"
    BY DEF Capsules!RouteUpstream
  <2>4. /\ request.kind \in {"codex_product_bug", "product_support_question", "account_billing_private"}
        /\ request.kind = "account_billing_private" =>
             /\ d.body = None /\ d.comment = None /\ d.title = None /\ d.links = {} /\ c.labels = {}
        /\ request.kind = "codex_product_bug" /\ ExactIn(request) = {} => d.body # None
        /\ request.kind = "codex_product_bug" /\ ExactIn(request) # {} =>
             /\ d.body = None
             /\ IF NewIn(request) THEN d.comment # None
                ELSE d.comment = None /\ d.title = None /\ d.links = {} /\ c.labels = {}
    BY <1>4, ReadyOffers
  <2> HIDE DEF c
  <2> QED
    BY <1>1, <1>2, <1>4, <2>1, <2>2, <2>3, <2>4
<1> HIDE DEF c
<1> QED
  BY <1>1, <1>3, <1>4

LEMMA OnlyRange ==
  ASSUME NEW texts, NEW S, "instruction" \notin Capsules!Range(texts)
  PROVE  "instruction" \notin Capsules!Range(Capsules!Only(texts, S))
BY DEF Capsules!Only, Capsules!Range

LEMMA PreviewIsClean ==
  ASSUME Capsules!SoundSubmissions, request \in CapsuleRequests, AsComputed PROVE Capsules!NoInstructionsOut
<1> SUFFICES ASSUME Capsules!IsPreview, result.capsule # None
             PROVE  /\ \A texts \in Capsules!TextsOf(result.capsule) : "instruction" \notin Capsules!Range(texts)
                    /\ request.injected = "doctor" => result.capsule.doctor = {}
  BY DEF Capsules!NoInstructionsOut
<1> DEFINE c == Capsules!Capsule(request, DoctorOf(request))
           d == c.duplicate
           t == UsedTexts(request)
           a == Assessed(request)
<1>1. result.capsule = c
  BY PreviewIs DEF AsComputed
<1>2. "instruction" \notin Capsules!Range(t)
  <2>1. CASE Capsules!Injected(request)
    BY <2>1 DEF UsedTexts, Capsules!Quarantined, Capsules!Range
  <2>2. CASE ~Capsules!Injected(request)
    BY <2>2 DEF UsedTexts, Capsules!Injected
  <2> QED
    BY <2>1, <2>2
<1>3. PICK S : c.lists = Capsules!Only(t, S)
  BY DEF Capsules!Capsule, UsedTexts
<1>4. d.body \in {None, a.body} /\ d.comment \in {None, a.comment} /\ d.title \in {None, a.title}
  <2>1. PICK st, rt : d = Capsules!Exported(st, rt, a)
    BY DEF Capsules!Capsule, UsedTexts, Assessed
  <2>2. DOMAIN a = {"state", "matched", "material", "recommendation", "body", "comment", "links", "title"}
    BY AssessedIs
  <2> HIDE DEF a, d
  <2> QED
    BY <2>1, <2>2 DEF Capsules!Exported
<1>5. /\ d.body \in {None, Capsules!IssueBody(t)} /\ d.comment \in {None, Capsules!DeltaComment(t)}
      /\ d.title \in {None, Capsules!DraftTitle(t)}
  BY <1>4, AssessedIs
<1>6. \A texts \in Capsules!TextsOf(c) : "instruction" \notin Capsules!Range(texts)
  <2>1. /\ "instruction" \notin Capsules!Range(c.lists) /\ "instruction" \notin Capsules!Range(Capsules!IssueBody(t))
        /\ "instruction" \notin Capsules!Range(Capsules!DeltaComment(t)) /\ "instruction" \notin Capsules!Range(Capsules!DraftTitle(t))
    BY <1>2, <1>3, OnlyRange DEF Capsules!IssueBody, Capsules!DeltaComment, Capsules!DraftTitle
  <2> HIDE DEF c, t
  <2> QED
    BY <1>5, <2>1 DEF Capsules!TextsOf
<1>7. request.injected = "doctor" => c.doctor = {}
  <2> SUFFICES ASSUME request.injected = "doctor" PROVE DoctorOf(request).included = {}
    BY DEF Capsules!Capsule
  <2>1. CASE Capsules!Injected(request)
    BY <2>1 DEF DoctorOf, Capsules!NoDoctor
  <2>2. CASE ~Capsules!Injected(request) /\ request.doctor = None
    BY <2>2 DEF DoctorOf, Capsules!SanitizeDoctor, Capsules!NoDoctor
  <2>3. CASE ~Capsules!Injected(request) /\ request.doctor # None
    <3>1. {e \in request.doctor.keys : e.top = "listed" /\ e.depth <= 5} = {}
      BY <2>3 DEF Capsules!Injected, Capsules!SoundSubmissions
    <3> QED
      BY <2>3, <3>1 DEF DoctorOf, Capsules!SanitizeDoctor, Capsules!NoDoctor, Capsules!DoctorError
  <2> QED
    BY <2>1, <2>2, <2>3
<1> QED
  BY <1>1, <1>6, <1>7

LEMMA PreviewIsInsensitive ==
  ASSUME Capsules!SoundSubmissions, request \in CapsuleRequests, AsComputed PROVE Capsules!NoSensitiveDoctor
<1> SUFFICES ASSUME Capsules!IsPreview, result.capsule # None, NEW e \in result.capsule.doctor
             PROVE  e.name # "sensitive"
  BY DEF Capsules!NoSensitiveDoctor
<1>1. result.capsule = Capsules!Capsule(request, DoctorOf(request))
  BY PreviewIs DEF AsComputed
<1>2. e \in DoctorOf(request).included
  BY <1>1 DEF Capsules!Capsule
<1>3. ~Capsules!Injected(request) /\ request.doctor # None
  BY <1>2 DEF DoctorOf, Capsules!SanitizeDoctor, Capsules!NoDoctor
<1>4. e \in request.doctor.keys /\ e.top = "listed" /\ e.depth <= 5 /\ ~Capsules!SensitiveFound(e)
  BY <1>2, <1>3 DEF DoctorOf, Capsules!SanitizeDoctor, Capsules!NoDoctor, Capsules!DoctorError
<1>5. e.depth \in Int
  BY <1>3, <1>4 DEF Capsules!SoundSubmissions
<1> QED
  BY <1>4, <1>5 DEF Capsules!SensitiveFound

\* A snapshot with every role names a form of its own for each surface.
LEMMA NamesItsOwn ==
  ASSUME NEW s, Capsules!Listing(s.forms), Capsules!BugRoles \subseteq {s.forms[i].role : i \in DOMAIN s.forms}, NEW surface
  PROVE  \E i \in DOMAIN s.forms : Capsules!FilenameFor(s, Capsules!FormRole(surface)) = s.forms[i].filename
<1> DEFINE role == Capsules!FormRole(surface)
           S == {i \in DOMAIN s.forms : s.forms[i].role = role}
           first == CHOOSE i \in DOMAIN s.forms :
                      s.forms[i].role = role /\ \A j \in 1..(i - 1) : s.forms[j].role # role
<1>1. role \in Capsules!BugRoles
  BY DEF Capsules!FormRole, Capsules!BugRoles
<1>2. Capsules!FilenameFor(s, role) = s.forms[first].filename
  BY DEF Capsules!FilenameFor
<1> HIDE DEF role
<1>3. S # {} /\ S \in SUBSET Nat
  BY <1>1 DEF Capsules!Listing
<1>4. PICK m \in S : \A k \in S : m <= k
  BY <1>3, LeastExists
<1>5. \A j \in 1..(m - 1) : s.forms[j].role # role
  BY <1>3, <1>4 DEF Capsules!Listing
<1>6. first \in DOMAIN s.forms
  BY <1>4, <1>5
<1> HIDE DEF first
<1> QED
  BY <1>2, <1>6 DEF role

LEMMA PreviewForms ==
  ASSUME Capsules!SoundSubmissions, request \in CapsuleRequests, AsComputed PROVE Capsules!FormsAreOfficial
<1> SUFFICES ASSUME Capsules!IsPreview PROVE
    /\ result.network_used => request.decision = "approved" /\ request.transport # None
    /\ result.capsule # None =>
         LET fetched == result.capsule.snapshot.source = "transport_refresh"
             chosen == IF fetched THEN request.transport.snapshot ELSE BundledForms
         IN  /\ fetched => result.network_used /\ chosen.integrity = Capsules!Material(chosen)
             /\ fetched => chosen.fetched <= request.now + MaxSkew
             /\ result.capsule.snapshot.fresh => request.now - chosen.fetched <= FreshDays
             /\ result.capsule.form # None =>
                  \E i \in DOMAIN chosen.forms :
                    chosen.forms[i].filename = result.capsule.form /\ chosen.forms[i].safe
  BY DEF Capsules!FormsAreOfficial
<1>1. result = Capsules!PreviewUpstream(request)
  BY DEF AsComputed
<1>2. result.network_used => Capsules!FormTransportPermitted(request)
  BY <1>1 DEF Capsules!PreviewUpstream, Capsules!NoCapsule
<1>3. ASSUME result.capsule # None
      PROVE  LET fetched == result.capsule.snapshot.source = "transport_refresh"
                 chosen == IF fetched THEN request.transport.snapshot ELSE BundledForms
             IN  /\ fetched => result.network_used /\ chosen.integrity = Capsules!Material(chosen)
                 /\ fetched => chosen.fetched <= request.now + MaxSkew
                 /\ result.capsule.snapshot.fresh => request.now - chosen.fetched <= FreshDays
                 /\ result.capsule.form # None =>
                      \E i \in DOMAIN chosen.forms :
                        chosen.forms[i].filename = result.capsule.form /\ chosen.forms[i].safe
  <2> DEFINE c == Capsules!Capsule(request, DoctorOf(request))
             s == Capsules!Snapshot(request)
             fetched == c.snapshot.source = "transport_refresh"
             chosen == IF fetched THEN request.transport.snapshot ELSE BundledForms
  <2>1. result.capsule = c /\ result.network_used = Capsules!FormTransportPermitted(request)
    BY <1>1, <1>3, PreviewIs
  <2>2. /\ c.snapshot = [source |-> s.source, fresh |-> Capsules!Fresh(s.of, request.now)]
        /\ c.form \in {None, Capsules!FilenameFor(s.of, Capsules!FormRole(request.surface))}
    BY DEF Capsules!Capsule
  <2>3. chosen = s.of /\ (fetched <=> Capsules!FormTransportPermitted(request) /\ request.transport.answers
                                      /\ Capsules!ValidSnapshot(request.transport.snapshot, request.now))
    BY <2>2 DEF Capsules!Snapshot
  <2> HIDE DEF c, s
  <2>4. chosen.fetched \in Int /\ Capsules!Listing(chosen.forms) /\ Capsules!BugRoles \subseteq {chosen.forms[i].role : i \in DOMAIN chosen.forms}
        /\ \A i \in DOMAIN chosen.forms : chosen.forms[i].safe
    <3>1. CASE fetched
      <4>1. Capsules!ValidSnapshot(chosen, request.now)
        BY <2>3, <3>1
      <4>2. chosen.fetched \in Int /\ Capsules!Listing(chosen.forms)
        BY <2>3, <3>1 DEF Capsules!SoundSubmissions, Capsules!FormTransportPermitted
      <4> HIDE DEF chosen
      <4> QED
        BY <4>1, <4>2 DEF Capsules!ValidSnapshot
    <3>2. CASE ~fetched
      BY <3>2 DEF Capsules!SoundSubmissions, Capsules!Complete
    <3> QED
      BY <3>1, <3>2
  <2>5. fetched => chosen.integrity = Capsules!Material(chosen) /\ chosen.fetched <= request.now + MaxSkew
    BY <2>3 DEF Capsules!ValidSnapshot
  <2>6. c.snapshot.fresh => request.now - chosen.fetched <= FreshDays
    <3> SUFFICES ASSUME Capsules!Fresh(chosen, request.now) PROVE request.now - chosen.fetched <= FreshDays
      BY <2>2, <2>3
    <3> DEFINE d == request.now - chosen.fetched
    <3>1. d \in Int /\ FreshDays \in Int
      BY <2>4 DEF Capsules!SoundSubmissions
    <3>2. Capsules!Max({0, d}) <= FreshDays
      BY DEF Capsules!Fresh
    <3> HIDE DEF d
    <3>3. \E x \in {0, d} : \A y \in {0, d} : x >= y
      BY <3>1
    <3>4. Capsules!Max({0, d}) \in {0, d} /\ Capsules!Max({0, d}) >= d
      BY <3>3 DEF Capsules!Max
    <3> QED
      BY <3>1, <3>2, <3>4 DEF d
  <2> HIDE DEF chosen
  <2>7. c.form # None => \E i \in DOMAIN chosen.forms : chosen.forms[i].filename = c.form
    BY <2>2, <2>3, <2>4, NamesItsOwn
  <2> QED
    BY <2>1, <2>3, <2>4, <2>5, <2>6, <2>7 DEF chosen
<1> QED
  BY <1>2, <1>3 DEF Capsules!FormTransportPermitted

-----------------------------------------------------------------------------

LEMMA GateOpens ==
  ASSUME Capsules!SoundSubmissions, Hashed, Capsules!GateFailure(run.capsule, run.hash) = None
  PROVE  /\ run.capsule = Capsules!PreviewUpstream(request).capsule /\ run.capsule # None
         /\ run.capsule = Capsules!Capsule(request, DoctorOf(request)) /\ run.capsule.status = "PREVIEW_READY"
         /\ Capsules!PreviewUpstream(request).ok
<1>1. run.capsule # None /\ run.capsule.status = "PREVIEW_READY" /\ run.hash = run.capsule
  BY DEF Capsules!GateFailure, Capsules!SoundSubmissions, Capsules!Words
<1>2. run.capsule = Capsules!PreviewUpstream(request).capsule
  BY <1>1 DEF Hashed
<1> QED
  BY <1>1, <1>2, PreviewIs

\* The issue a capsule matched is one of the same problem, and has an address.
LEMMA MatchedIs ==
  ASSUME Capsules!SoundSubmissions, request \in CapsuleRequests, ExactIn(request) # {}
  PROVE  /\ Capsules!Min(ExactIn(request)) \in Capsules!SameProblem
         /\ request.candidates[Capsules!Min(ExactIn(request))] # None
<1>1. ExactIn(request) \in SUBSET Nat /\ Capsules!SameProblem = ExactIn(request)
  BY DEF ExactIn, Capsules!PickBestExact, Capsules!SoundSubmissions, Capsules!SameProblem
<1>2. PICK m \in ExactIn(request) : \A k \in ExactIn(request) : m <= k
  BY <1>1, LeastExists
<1>3. Capsules!Min(ExactIn(request)) \in ExactIn(request)
  BY <1>2 DEF Capsules!Min
<1> QED
  BY <1>1, <1>3 DEF Capsules!SoundSubmissions, ExactIn, Capsules!PickBestExact

LEMMA MintedIsDeserved ==
  ASSUME Capsules!SoundSubmissions, request \in CapsuleRequests, Hashed, NEW raw, NEW attachments,
         Capsules!ActionRefusal(raw, attachments) = None
  PROVE  Deserved(Capsules!Bound(Capsules!ParseAction(raw), attachments))
<1> DEFINE action == Capsules!ParseAction(raw)
           b == Capsules!Bound(action, attachments)
           c == run.capsule
           d == c.duplicate
           issue == Capsules!MatchedIssue(d.matched)
<1>1. /\ action \in Capsules!Kinds /\ Capsules!GateFailure(run.capsule, run.hash) = None
      /\ action \in Capsules!AllowedActions(c.duplicate.recommendation)
      /\ attachments # None => Capsules!ManifestOk(attachments)
      /\ Capsules!BodyFor(action, c) # None /\ Capsules!CanonicalTarget(action, c) # None
  BY DEF Capsules!ActionRefusal, Capsules!SoundSubmissions, Capsules!Words
<1>2. /\ c = Capsules!PreviewUpstream(request).capsule /\ Capsules!PreviewUpstream(request).ok
      /\ c = Capsules!Capsule(request, DoctorOf(request)) /\ c.status = "PREVIEW_READY"
  BY <1>1, GateOpens
<1>3. /\ request.kind \in {"codex_product_bug", "product_support_question", "account_billing_private"}
      /\ request.kind # "codex_product_bug" => Capsules!AllowedActions(d.recommendation) = {}
      /\ request.kind = "codex_product_bug" /\ ExactIn(request) = {} =>
           /\ d.body # None /\ d.body = Capsules!IssueBody(UsedTexts(request))
           /\ d.recommendation \in {"open_new", "cross_link_related"}
      /\ request.kind = "codex_product_bug" /\ ExactIn(request) # {} =>
           /\ d.matched = request.candidates[Capsules!Min(ExactIn(request))]
           /\ IF NewIn(request) THEN d.recommendation = "comment_with_delta"
              ELSE d.recommendation = "subscribe_or_upvote"
  BY <1>2, ReadyOffers
<1>4. /\ b.capsule = c /\ b.action = action /\ b.target = Capsules!CanonicalTarget(action, c)
      /\ b.body = << Capsules!TitleFor(action, c), Capsules!BodyFor(action, c) >> /\ b.attachments = attachments
  BY DEF Capsules!Bound
<1>5. Capsules!SameProblem = ExactIn(request) /\ (Capsules!NewEvidence <=> NewIn(request))
  BY DEF Capsules!SameProblem, ExactIn, Capsules!PickBestExact, Capsules!NewEvidence, NewIn
<1>6. request.kind = "codex_product_bug"
  BY <1>1, <1>3
<1>7. "technical_signals" \in DOMAIN Capsules!IssueBody(UsedTexts(request))
  BY <1>2, ReadyMeans DEF Capsules!IssueBody, Capsules!Only
<1> HIDE DEF b, c, action
<1>8. Capsules!IssueBody(UsedTexts(request)) # << >>
  BY <1>7
<1>9. action = "create_issue" => Capsules!SameProblem = {} /\ b.target = Capsules!Root /\ b.body[2] # << >>
  <2> SUFFICES ASSUME action = "create_issue" PROVE Capsules!SameProblem = {} /\ b.target = Capsules!Root /\ b.body[2] # << >>
    OBVIOUS
  <2>1. d.recommendation \in {"open_new", "cross_link_related"}
    BY <1>1 DEF Capsules!AllowedActions
  <2>2. ExactIn(request) = {}
    BY <1>3, <1>6, <2>1
  <2>3. Capsules!BodyFor(action, c) = d.body /\ Capsules!CanonicalTarget(action, c) = Capsules!Root
    BY DEF Capsules!BodyFor, Capsules!CanonicalTarget
  <2> QED
    BY <1>3, <1>4, <1>5, <1>6, <1>8, <2>2, <2>3
<1> DEFINE issues == {request.candidates[i].id : i \in Capsules!SameProblem}
                       \cup {request.candidates[i].url.issue :
                               i \in {j \in Capsules!SameProblem : request.candidates[j].url # None}}
<1>10. action \in {"comment_with_delta", "react_upvote", "subscribe"} => b.target \in issues
  <2> SUFFICES ASSUME action \in {"comment_with_delta", "react_upvote", "subscribe"} PROVE b.target \in issues
    OBVIOUS
  <2>1. d.recommendation \in {"comment_with_delta", "subscribe_or_upvote"}
    BY <1>1 DEF Capsules!AllowedActions
  <2>2. ExactIn(request) # {}
    BY <1>3, <1>6, <2>1
  <2> DEFINE n == Capsules!Min(ExactIn(request))
             candidate == request.candidates[n]
  <2>3. n \in Capsules!SameProblem /\ candidate # None /\ d.matched = candidate
    BY <1>3, <1>6, <2>2, MatchedIs
  <2>4. b.target = Capsules!MatchedIssue(candidate) /\ b.target # None
    BY <1>1, <1>4, <2>3 DEF Capsules!CanonicalTarget
  <2> HIDE DEF n
  <2>5. \/ b.target = candidate.url.issue /\ candidate.url # None
        \/ b.target = candidate.id
    BY <2>3, <2>4 DEF Capsules!MatchedIssue
  <2> QED
    BY <2>3, <2>5
<1>11. /\ action = "comment_with_delta" => Capsules!NewEvidence
       /\ action \in {"react_upvote", "subscribe"} => ~Capsules!NewEvidence /\ b.body = << None, << >> >>
  BY <1>1, <1>3, <1>4, <1>5, <1>6 DEF Capsules!AllowedActions, Capsules!TitleFor, Capsules!BodyFor
<1>12. attachments # None => \A i \in DOMAIN attachments.entries : attachments.entries[i].privacy = Capsules!PrivacyFlags
  BY <1>1 DEF Capsules!ManifestOk
<1>13. Deserved(b)
  BY <1>2, <1>4, <1>6, <1>9, <1>10, <1>11, <1>12 DEF Deserved
<1> QED
  BY <1>13 DEF b, action

\* A ready capsule is refused nothing that fits it.
LEMMA FittingPasses ==
  ASSUME Capsules!SoundSubmissions, request \in CapsuleRequests, Hashed, NEW action, NEW attachments,
         run.capsule # None, run.capsule = run.hash, run.capsule.status = "PREVIEW_READY",
         Capsules!Fitting(action, attachments), action \in Capsules!Kinds
  PROVE  Capsules!ActionRefusal(action, attachments) = None
<1> DEFINE c == run.capsule
           d == c.duplicate
<1>1. c = Capsules!PreviewUpstream(request).capsule /\ c = Capsules!Capsule(request, DoctorOf(request))
  BY PreviewIs DEF Hashed
<1>2. /\ c.privacy = [passed |-> TRUE, flags |-> request.privacy, quarantined |-> FALSE]
      /\ request.privacy = Capsules!PrivacyFlags /\ c.failed = {}
  BY <1>1, ReadyMeans
<1>3. Capsules!AllowedActions(d.recommendation) # {}
  BY DEF Capsules!Fitting
<1>4. Capsules!GateFailure(run.capsule, run.hash) = None
  BY <1>2, <1>3 DEF Capsules!GateFailure
<1>5. /\ request.kind \in {"codex_product_bug", "product_support_question", "account_billing_private"}
      /\ request.kind # "codex_product_bug" => Capsules!AllowedActions(d.recommendation) = {}
      /\ request.kind = "codex_product_bug" /\ ExactIn(request) = {} =>
           d.body # None /\ d.recommendation \in {"open_new", "cross_link_related"}
      /\ request.kind = "codex_product_bug" /\ ExactIn(request) # {} =>
           /\ d.matched = request.candidates[Capsules!Min(ExactIn(request))]
           /\ IF NewIn(request) THEN d.recommendation = "comment_with_delta" /\ d.comment # None
              ELSE d.recommendation = "subscribe_or_upvote"
  BY <1>1, ReadyOffers
<1>6. action \in Capsules!AllowedActions(d.recommendation) /\ request.kind = "codex_product_bug"
  BY <1>3, <1>5 DEF Capsules!Fitting
<1>7. Capsules!ParseAction(action) = action
  BY DEF Capsules!ParseAction, Capsules!Kinds
<1> HIDE DEF c
<1>8. Capsules!BodyFor(action, c) # None
  BY <1>5, <1>6 DEF Capsules!BodyFor, Capsules!AllowedActions, Capsules!SoundSubmissions
<1>9. Capsules!CanonicalTarget(action, c) # None
  <2>1. CASE action = "create_issue"
    BY <2>1 DEF Capsules!CanonicalTarget, Capsules!SoundSubmissions
  <2>2. CASE action = "attachment_upload"
    BY <2>2 DEF Capsules!CanonicalTarget, Capsules!SoundSubmissions
  <2>3. CASE action \notin {"create_issue", "attachment_upload"}
    <3>1. d.recommendation \in {"comment_with_delta", "subscribe_or_upvote"}
      BY <1>6, <2>3 DEF Capsules!AllowedActions
    <3>2. ExactIn(request) # {}
      BY <1>5, <1>6, <3>1
    <3>3. d.matched # None
      BY <1>5, <1>6, <3>2, MatchedIs
    <3>4. Capsules!MatchedIssue(d.matched) # None
      BY <3>3 DEF Capsules!Fitting, c
    <3> QED
      BY <2>3, <3>4 DEF Capsules!CanonicalTarget
  <2> QED
    BY <2>1, <2>2, <2>3
<1> QED
  BY <1>4, <1>6, <1>7, <1>8, <1>9 DEF Capsules!ActionRefusal, Capsules!Fitting, c

-----------------------------------------------------------------------------

LEMMA ListedIs ==
  ASSUME NEW q, IsList(q) PROVE Len(q) \in Nat /\ DOMAIN q = 1..Len(q)
<1>1. PICK k \in Nat : q \in [1..k -> {q[i] : i \in DOMAIN q}]
  BY DEF IsList
<1>2. Len(q) = k
  BY <1>1
<1> QED
  BY <1>1, <1>2

LEMMA AppendLists ==
  ASSUME NEW q, IsList(q), NEW e
  PROVE  LET a == Append(q, e)
         IN  /\ IsList(a) /\ DOMAIN q = 1..Len(q) /\ Len(q) \in Nat
             /\ Len(a) = Len(q) + 1 /\ DOMAIN a = 1..(Len(q) + 1)
             /\ \A i \in DOMAIN q : a[i] = q[i] /\ i \in DOMAIN a
             /\ a[Len(q) + 1] = e
<1> DEFINE S == {q[i] : i \in DOMAIN q} \cup {e}
           a == Append(q, e)
<1>1. Len(q) \in Nat /\ DOMAIN q = 1..Len(q)
  BY ListedIs
<1>2. q \in Seq(S)
  BY DEF IsList
<1>3. e \in S
  OBVIOUS
<1> HIDE DEF S
<1>4. /\ a \in Seq(S) /\ Len(a) = Len(q) + 1 /\ \A i \in 1..Len(q) : a[i] = q[i]
      /\ a[Len(q) + 1] = e
  BY <1>2, <1>3
<1> HIDE DEF a
<1>5. DOMAIN a = 1..(Len(q) + 1) /\ Len(a) \in Nat
  BY <1>1, <1>4
<1>6. a \in Seq({a[i] : i \in DOMAIN a})
  BY <1>1, <1>4, <1>5
<1> QED
  BY <1>1, <1>4, <1>5, <1>6 DEF IsList, a

LEMMA ReplaceLists ==
  ASSUME NEW q, IsList(q), NEW t \in DOMAIN q, NEW e
  PROVE  LET a == [q EXCEPT ![t] = e]
         IN  /\ IsList(a) /\ DOMAIN a = DOMAIN q /\ a[t] = e
             /\ \A i \in DOMAIN q : i # t => a[i] = q[i]
<1> DEFINE a == [q EXCEPT ![t] = e]
<1>1. Len(q) \in Nat /\ DOMAIN q = 1..Len(q)
  BY ListedIs
<1>2. DOMAIN a = 1..Len(q) /\ a = [i \in 1..Len(q) |-> a[i]]
  BY <1>1 DEF IsList
<1>3. a[t] = e /\ \A i \in DOMAIN q : i # t => a[i] = q[i]
  OBVIOUS
<1> HIDE DEF a
<1>4. a \in Seq({a[i] : i \in DOMAIN a})
  BY <1>1, <1>2
<1> QED
  BY <1>1, <1>2, <1>3, <1>4 DEF IsList, a

-----------------------------------------------------------------------------

LEMMA KeyOfAction ==
  ASSUME NEW b PROVE Capsules!IdempotencyKey(b)["action"] = b.action
BY DEF Capsules!IdempotencyKey

LEMMA StoredIs ==
  ASSUME NEW store, Keyed(store), NEW key, NEW receipt, receipt.key = key
  PROVE  LET s == Capsules!Stored(store, key, receipt)
         IN  Keyed(s) /\ DOMAIN store \subseteq DOMAIN s /\ key \in DOMAIN s /\ s[key] = receipt
BY DEF Capsules!Stored, Keyed

LEMMA ExecuteIs ==
  ASSUME NEW mode, NEW store, Keyed(store), NEW b
  PROVE  LET e == Capsules!Execute(mode, store, b)
             key == Capsules!IdempotencyKey(b)
         IN  /\ Keyed(e.store) /\ DOMAIN store \subseteq DOMAIN e.store
             /\ e.outcome \in {"success", "duplicate_existing", "failed", "timeout_ambiguous"}
             /\ e.outcome \in {"success", "duplicate_existing"} => key \in DOMAIN e.store
             /\ e.outcome = "success" => key \notin DOMAIN store /\ e.store[key].action = b.action
<1> DEFINE e == Capsules!Execute(mode, store, b)
           key == Capsules!IdempotencyKey(b)
           made == Capsules!Receipt(b, IF b.action = "create_issue" /\ mode = "success" THEN Capsules!NewIssue ELSE b.target)
<1>1. made.key = key /\ made.action = b.action
  BY DEF Capsules!Receipt
<1>2. e = CASE mode = "success" /\ ~Capsules!Has(store, key) -> [outcome |-> "success", store |-> Capsules!Stored(store, key, made)]
            [] mode = "duplicate_existing" /\ ~Capsules!Has(store, key)
                 -> [outcome |-> "duplicate_existing", store |-> Capsules!Stored(store, key, made)]
            [] mode \in {"success", "duplicate_existing"} /\ Capsules!Has(store, key)
                 -> [outcome |-> "duplicate_existing", store |-> store]
            [] mode = "failed" -> [outcome |-> "failed", store |-> store]
            [] OTHER -> [outcome |-> "timeout_ambiguous", store |-> store]
  BY DEF Capsules!Execute
<1> HIDE DEF made, e, key
<1>3. LET s == Capsules!Stored(store, key, made)
      IN  Keyed(s) /\ DOMAIN store \subseteq DOMAIN s /\ key \in DOMAIN s /\ s[key] = made
  BY <1>1, StoredIs
<1>4. CASE mode = "success" /\ ~Capsules!Has(store, key)
  <2>1. e = [outcome |-> "success", store |-> Capsules!Stored(store, key, made)]
    BY <1>2, <1>4
  <2> QED
    BY <1>1, <1>3, <1>4, <2>1 DEF Capsules!Has, e, key
<1>5. CASE mode = "duplicate_existing" /\ ~Capsules!Has(store, key)
  <2>1. e = [outcome |-> "duplicate_existing", store |-> Capsules!Stored(store, key, made)]
    BY <1>2, <1>5
  <2> QED
    BY <1>3, <2>1 DEF e, key
<1>6. CASE mode \in {"success", "duplicate_existing"} /\ Capsules!Has(store, key)
  <2>1. e = [outcome |-> "duplicate_existing", store |-> store]
    BY <1>2, <1>6
  <2> QED
    BY <1>6, <2>1 DEF Capsules!Has, e, key
<1>7. CASE mode \notin {"success", "duplicate_existing"}
  <2>1. \/ e = [outcome |-> "failed", store |-> store]
        \/ e = [outcome |-> "timeout_ambiguous", store |-> store]
    BY <1>2, <1>7
  <2> QED
    BY <2>1 DEF e, key
<1> QED
  BY <1>4, <1>5, <1>6, <1>7

LEMMA QueryIs ==
  ASSUME NEW mode, NEW store, Keyed(store), NEW key
  PROVE  LET s == Capsules!Query(mode, store, key)
         IN  /\ Keyed(s) /\ DOMAIN store \subseteq DOMAIN s
             /\ mode = "timeout_found" => key \in DOMAIN s
<1> DEFINE made == [key |-> key, action |-> "create_issue", target |-> Capsules!NewIssue]
<1>1. LET s == Capsules!Stored(store, key, made) IN Keyed(s) /\ DOMAIN store \subseteq DOMAIN s /\ key \in DOMAIN s
  BY StoredIs
<1> QED
  BY <1>1 DEF Capsules!Query, Capsules!Has

-----------------------------------------------------------------------------

LEMMA CapsuleInit ==
  ASSUME Capsules!Init PROVE CapsuleInv
<1>1. IsList(<< >>)
  BY DEF IsList
<1>2. /\ request \in CapsuleRequests /\ result = None /\ run.hash = None /\ run.tokens = << >> /\ run.remote = << >>
      /\ run.written = << >> /\ DOMAIN run = {"capsule", "hash", "tokens", "remote", "written"}
  BY DEF Capsules!Init
<1> QED
  BY <1>1, <1>2 DEF CapsuleInv, AsComputed, Capsules!IsPreview, Hashed, TokensAre, Keyed, WrittenAre, ReceiptTold,
                    Capsules!ReadyIsUsable, Capsules!IsAction

LEMMA CapsulePreviewKeeps ==
  ASSUME CapsuleInv, Capsules!Preview PROVE CapsuleInv'
<1> DEFINE p == Capsules!PreviewUpstream(request)
<1>1. /\ request' = request /\ result' = p
      /\ run' = [run EXCEPT !.capsule = p.capsule, !.hash = p.capsule]
  BY DEF Capsules!Preview
<1>2. DOMAIN p = {"ok", "capsule", "network_used"}
  BY DEF Capsules!PreviewUpstream, Capsules!NoCapsule
<1> HIDE DEF p
<1>3. /\ DOMAIN run' = DOMAIN run /\ run'.hash = p.capsule /\ run'.tokens = run.tokens
      /\ run'.remote = run.remote /\ run'.written = run.written
  BY <1>1 DEF CapsuleInv
<1>4. AsComputed' /\ Hashed'
  BY <1>1, <1>3 DEF AsComputed, Hashed, p
<1>5. ReceiptTold' /\ Capsules!ReadyIsUsable'
  BY <1>1, <1>2 DEF ReceiptTold, Capsules!ReadyIsUsable, Capsules!IsAction
<1>7. \A x : Deserved(x)' <=> Deserved(x)
  BY <1>1 DEF Deserved, Capsules!SameProblem, Capsules!NewEvidence
<1>6. TokensAre' /\ WrittenAre' /\ Keyed(run'.remote)
  BY <1>1, <1>3, <1>7 DEF CapsuleInv, TokensAre, WrittenAre, Keyed
<1> QED
  BY <1>1, <1>3, <1>4, <1>5, <1>6 DEF CapsuleInv

LEMMA CapsuleEditKeeps ==
  ASSUME CapsuleInv, Capsules!Edit PROVE CapsuleInv'
<1>1. PICK edited : edited # run.capsule /\ run' = [run EXCEPT !.capsule = edited]
  BY DEF Capsules!Edit
<1>2. request' = request /\ result' = result /\ run.capsule = run.hash
  BY DEF Capsules!Edit
<1>3. /\ DOMAIN run' = DOMAIN run /\ run'.capsule = edited /\ run'.hash = run.hash /\ run'.tokens = run.tokens
      /\ run'.remote = run.remote /\ run'.written = run.written
  BY <1>1 DEF CapsuleInv
<1>4. AsComputed' /\ Hashed' /\ ReceiptTold'
  BY <1>2, <1>3 DEF CapsuleInv, AsComputed, Capsules!IsPreview, Hashed, ReceiptTold
<1>5. Capsules!ReadyIsUsable'
  BY <1>1, <1>2, <1>3 DEF Capsules!ReadyIsUsable
<1>7. \A x : Deserved(x)' <=> Deserved(x)
  BY <1>2 DEF Deserved, Capsules!SameProblem, Capsules!NewEvidence
<1>6. TokensAre' /\ WrittenAre' /\ Keyed(run'.remote)
  BY <1>2, <1>3, <1>7 DEF CapsuleInv, TokensAre, WrittenAre, Keyed
<1> QED
  BY <1>2, <1>3, <1>4, <1>5, <1>6 DEF CapsuleInv

LEMMA PreviewActionKeeps ==
  ASSUME Capsules!SoundSubmissions, CapsuleInv, Capsules!PreviewAction PROVE CapsuleInv'
<1>1. PICK raw \in Capsules!Kinds \cup {"upvote", "delete"}, attachments \in Attachments \cup {None} :
        LET refusal == Capsules!ActionRefusal(raw, attachments)
        IN  /\ result' = [action |-> Capsules!ParseAction(raw), attachments |-> attachments, refusal |-> refusal]
            /\ IF refusal # None THEN UNCHANGED run
               ELSE LET binding == Capsules!Bound(Capsules!ParseAction(raw), attachments)
                    IN  run' = [run EXCEPT !.tokens =
                                  Append(@, [binding |-> binding, mac |-> binding,
                                             status |-> "registered"])]
  BY DEF Capsules!PreviewAction
<1> DEFINE refusal == Capsules!ActionRefusal(raw, attachments)
           binding == Capsules!Bound(Capsules!ParseAction(raw), attachments)
           token == [binding |-> binding, mac |-> binding, status |-> "registered"]
<1>2. /\ request' = request
      /\ result' = [action |-> Capsules!ParseAction(raw), attachments |-> attachments, refusal |-> refusal]
      /\ IF refusal # None THEN run' = run
         ELSE run' = [run EXCEPT !.tokens = Append(run.tokens, token)]
  BY <1>1 DEF Capsules!PreviewAction
<1>3. token.binding = binding /\ token.mac = binding /\ DOMAIN token = {"binding", "mac", "status"}
  OBVIOUS
<1>4. refusal = None => Deserved(binding)
  BY MintedIsDeserved DEF CapsuleInv
<1>5. ASSUME run.capsule # None, run.capsule = run.hash, run.capsule.status = "PREVIEW_READY",
             Capsules!Fitting(Capsules!ParseAction(raw), attachments)
      PROVE  refusal = None
  <2>1. Capsules!ParseAction(raw) \in Capsules!Kinds /\ Capsules!ParseAction(Capsules!ParseAction(raw)) = Capsules!ParseAction(raw)
    BY <1>5 DEF Capsules!Fitting, Capsules!AllowedActions, Capsules!Kinds, Capsules!ParseAction
  <2>2. Capsules!ActionRefusal(Capsules!ParseAction(raw), attachments) = None
    BY <1>5, <2>1, FittingPasses DEF CapsuleInv
  <2> QED
    BY <2>1, <2>2 DEF Capsules!ActionRefusal
<1> HIDE DEF refusal, binding, token
<1>6. /\ result'.action = Capsules!ParseAction(raw) /\ result'.attachments = attachments /\ result'.refusal = refusal
      /\ DOMAIN result' = {"action", "attachments", "refusal"}
  BY <1>2
<1>7. /\ DOMAIN run' = DOMAIN run /\ run'.capsule = run.capsule /\ run'.hash = run.hash
      /\ run'.remote = run.remote /\ run'.written = run.written
      /\ run'.tokens = IF refusal # None THEN run.tokens ELSE Append(run.tokens, token)
  BY <1>2 DEF CapsuleInv
<1>8. AsComputed' /\ Hashed' /\ ReceiptTold'
  BY <1>2, <1>6, <1>7 DEF CapsuleInv, AsComputed, Capsules!IsPreview, Hashed, ReceiptTold
<1>9. Capsules!ReadyIsUsable'
  BY <1>5, <1>6, <1>7 DEF Capsules!ReadyIsUsable, Capsules!Fitting
<1>10. IsList(run.tokens)
  BY DEF CapsuleInv, TokensAre
<1>11. /\ IsList(run'.tokens)
       /\ \A t \in DOMAIN run.tokens : t \in DOMAIN run'.tokens /\ run'.tokens[t] = run.tokens[t]
       /\ \A t \in DOMAIN run'.tokens :
            \/ t \in DOMAIN run.tokens /\ run'.tokens[t] = run.tokens[t]
            \/ refusal = None /\ run'.tokens[t] = token
  <2>1. CASE refusal # None
    BY <1>7, <1>10, <2>1
  <2>2. CASE refusal = None
    BY <1>7, <1>10, <2>2, AppendLists
  <2> QED
    BY <2>1, <2>2
<1>12. \A b : Deserved(b)' <=> Deserved(b)
  BY <1>2 DEF Deserved, Capsules!SameProblem, Capsules!NewEvidence
<1>13. TokensAre'
  BY <1>3, <1>4, <1>11, <1>12 DEF CapsuleInv, TokensAre
<1>14. WrittenAre' /\ Keyed(run'.remote)
  BY <1>7, <1>11 DEF CapsuleInv, WrittenAre, Keyed
<1> QED
  BY <1>2, <1>7, <1>8, <1>9, <1>13, <1>14 DEF CapsuleInv

\* How a confirmation ends, by what it is and how the remote answers.
LEMMA ConfirmIs ==
  ASSUME Capsules!SoundSubmissions, NEW token, NEW presented, NEW decision, NEW mode
  PROVE  LET status == Capsules!ConfirmStatus(token, presented, decision, mode)
             outcome == Capsules!Execute(mode, run.remote, presented).outcome
         IN  /\ status # "INVALID_CONFIRMATION" => token.mac = presented
             /\ status \notin {"INVALID_CONFIRMATION", "REPLAYED_CONFIRMATION"} => token.status = "registered"
             /\ status = "EXECUTED" => outcome = "success"
             /\ status = "DUPLICATE_EXISTING" =>
                  outcome = "duplicate_existing" \/ (mode = "timeout_found" /\ outcome \notin {"success", "failed"})
             /\ Capsules!SettledAs(status) # None => token.status = "registered"
             /\ Capsules!SettledAs("EXECUTED") = "consumed" /\ Capsules!SettledAs("EXECUTED") # None
<1> DEFINE status == Capsules!ConfirmStatus(token, presented, decision, mode)
           outcome == Capsules!Execute(mode, run.remote, presented).outcome
<1>1. Capsules!SettledAs("EXECUTED") = "consumed" /\ Capsules!SettledAs("EXECUTED") # None
  BY DEF Capsules!SettledAs, Capsules!SoundSubmissions, Capsules!Words
<1>2. Capsules!SettledAs("INVALID_CONFIRMATION") = None /\ Capsules!SettledAs("REPLAYED_CONFIRMATION") = None
  BY DEF Capsules!SettledAs
<1>3. CASE ~Capsules!Genuine(token, presented)
  <2>1. status = "INVALID_CONFIRMATION"
    BY <1>3 DEF Capsules!ConfirmStatus
  <2> QED
    BY <1>1, <1>2, <2>1
<1>4. CASE Capsules!Genuine(token, presented) /\ token.status # "registered"
  <2>1. status = "REPLAYED_CONFIRMATION"
    BY <1>4 DEF Capsules!ConfirmStatus
  <2> QED
    BY <1>1, <1>2, <1>4, <2>1 DEF Capsules!Genuine
<1>5. CASE Capsules!Genuine(token, presented) /\ token.status = "registered"
  <2>1. status = IF ~Capsules!Revalidated(presented) THEN "INVALID_CONFIRMATION"
                 ELSE IF decision = "cancel" THEN "CANCELLED"
                 ELSE IF mode \in {"none", "auth_unavailable"} THEN "ADAPTER_UNAVAILABLE"
                 ELSE CASE outcome = "success" -> "EXECUTED"
                        [] outcome = "duplicate_existing" -> "DUPLICATE_EXISTING"
                        [] outcome = "failed" -> "FAILED"
                        [] OTHER -> IF mode = "timeout_found" THEN "DUPLICATE_EXISTING"
                                    ELSE "UNCERTAIN_NO_RETRY"
    BY <1>5 DEF Capsules!ConfirmStatus
  <2>2. token.mac = presented
    BY <1>5 DEF Capsules!Genuine
  <2> HIDE DEF status, outcome
  <2>3. status = "EXECUTED" => outcome = "success"
    BY <2>1
  <2>4. status = "DUPLICATE_EXISTING" =>
          outcome = "duplicate_existing" \/ (mode = "timeout_found" /\ outcome \notin {"success", "failed"})
    BY <2>1
  <2> QED
    BY <1>1, <1>5, <2>2, <2>3, <2>4 DEF status, outcome
<1> QED
  BY <1>3, <1>4, <1>5

LEMMA ConfirmKeeps ==
  ASSUME Capsules!SoundSubmissions, CapsuleInv, Capsules!Confirm PROVE CapsuleInv'
<1>1. PICK t \in DOMAIN run.tokens, decision \in {"confirm", "cancel"}, mode \in Capsules!Modes :
        LET token == run.tokens[t]
        IN  /\ decision = "cancel" => mode = "none"
            /\ \E presented \in {token.binding, [token.binding EXCEPT !.target = Capsules!Root]} :
              LET status   == Capsules!ConfirmStatus(token, presented, decision, mode)
                  asked    == status \in {"EXECUTED", "DUPLICATE_EXISTING", "FAILED", "UNCERTAIN_NO_RETRY"}
                  executed == Capsules!Execute(mode, run.remote, presented)
                  key      == Capsules!IdempotencyKey(presented)
                  remote   == IF ~asked THEN run.remote
                              ELSE IF executed.outcome = "timeout_ambiguous"
                              THEN Capsules!Query(mode, executed.store, key)
                              ELSE executed.store
              IN  /\ run' = [run EXCEPT
                        !.remote = remote,
                        !.written = IF status = "EXECUTED" THEN Append(@, presented) ELSE @,
                        !.tokens[t].status = IF Capsules!SettledAs(status) = None THEN @ ELSE Capsules!SettledAs(status)]
                  /\ result' = [confirmed |-> t, status |-> status,
                                receipt |-> IF status \in {"EXECUTED", "DUPLICATE_EXISTING"}
                                            THEN remote[key] ELSE None]
  BY ZenonT(60) DEF Capsules!Confirm
<1> DEFINE token == run.tokens[t]
<1>2. PICK presented :
          LET status   == Capsules!ConfirmStatus(token, presented, decision, mode)
              asked    == status \in {"EXECUTED", "DUPLICATE_EXISTING", "FAILED", "UNCERTAIN_NO_RETRY"}
              executed == Capsules!Execute(mode, run.remote, presented)
              key      == Capsules!IdempotencyKey(presented)
              remote   == IF ~asked THEN run.remote
                          ELSE IF executed.outcome = "timeout_ambiguous"
                          THEN Capsules!Query(mode, executed.store, key)
                          ELSE executed.store
          IN  /\ run' = [run EXCEPT
                    !.remote = remote,
                    !.written = IF status = "EXECUTED" THEN Append(@, presented) ELSE @,
                    !.tokens[t].status = IF Capsules!SettledAs(status) = None THEN @ ELSE Capsules!SettledAs(status)]
              /\ result' = [confirmed |-> t, status |-> status,
                            receipt |-> IF status \in {"EXECUTED", "DUPLICATE_EXISTING"}
                                        THEN remote[key] ELSE None]
  BY <1>1
<1> DEFINE status   == Capsules!ConfirmStatus(token, presented, decision, mode)
           asked    == status \in {"EXECUTED", "DUPLICATE_EXISTING", "FAILED", "UNCERTAIN_NO_RETRY"}
           executed == Capsules!Execute(mode, run.remote, presented)
           key      == Capsules!IdempotencyKey(presented)
           remote   == IF ~asked THEN run.remote
                       ELSE IF executed.outcome = "timeout_ambiguous" THEN Capsules!Query(mode, executed.store, key)
                       ELSE executed.store
           written  == IF status = "EXECUTED" THEN Append(run.written, presented) ELSE run.written
           settled  == IF Capsules!SettledAs(status) = None THEN token.status ELSE Capsules!SettledAs(status)
           told     == IF status \in {"EXECUTED", "DUPLICATE_EXISTING"} THEN remote[key] ELSE None
<1>3. /\ run' = [run EXCEPT !.remote = remote, !.written = written, !.tokens[t].status = settled]
      /\ result' = [confirmed |-> t, status |-> status, receipt |-> told]
      /\ request' = request
  BY <1>2 DEF Capsules!Confirm
<1>4. /\ status # "INVALID_CONFIRMATION" => token.mac = presented
      /\ status = "EXECUTED" => executed.outcome = "success" /\ token.status = "registered"
      /\ status = "DUPLICATE_EXISTING" =>
           \/ executed.outcome = "duplicate_existing"
           \/ mode = "timeout_found" /\ executed.outcome \notin {"success", "failed"}
      /\ Capsules!SettledAs(status) # None => token.status = "registered"
      /\ status = "EXECUTED" => settled = "consumed"
  BY ConfirmIs
<1>5. /\ Keyed(executed.store) /\ DOMAIN run.remote \subseteq DOMAIN executed.store
      /\ executed.outcome \in {"success", "duplicate_existing", "failed", "timeout_ambiguous"}
      /\ executed.outcome \in {"success", "duplicate_existing"} => key \in DOMAIN executed.store
      /\ executed.outcome = "success" =>
           key \notin DOMAIN run.remote /\ executed.store[key].action = presented.action
  BY ExecuteIs DEF CapsuleInv
<1> HIDE DEF executed, key, status
<1>6. /\ Keyed(Capsules!Query(mode, executed.store, key)) /\ DOMAIN executed.store \subseteq DOMAIN Capsules!Query(mode, executed.store, key)
      /\ mode = "timeout_found" => key \in DOMAIN Capsules!Query(mode, executed.store, key)
  BY <1>5, QueryIs
<1>7. /\ Keyed(remote) /\ DOMAIN run.remote \subseteq DOMAIN remote
      /\ status \in {"EXECUTED", "DUPLICATE_EXISTING"} => key \in DOMAIN remote
      /\ status = "EXECUTED" => key \notin DOMAIN run.remote /\ remote[key].action = presented.action
  BY <1>4, <1>5, <1>6 DEF CapsuleInv
<1>8. /\ status = "EXECUTED" => told = remote[key] /\ key \in DOMAIN remote
      /\ told # None => status # "INVALID_CONFIRMATION" /\ told = remote[key] /\ key \in DOMAIN remote
  BY <1>7
<1> HIDE DEF remote, told
<1> DEFINE settles == [token EXCEPT !.status = settled]
           tokens  == [run.tokens EXCEPT ![t] = settles]
<1>9. /\ run'.remote = remote /\ run'.written = written /\ run'.capsule = run.capsule /\ run'.hash = run.hash
      /\ run'.tokens = tokens /\ DOMAIN run' = DOMAIN run
  <2> HIDE DEF written, settled
  <2> QED
    BY <1>3 DEF CapsuleInv
<1>10. IsList(run.tokens) /\ IsList(run.written) /\ DOMAIN token = {"binding", "mac", "status"}
       /\ token.mac = token.binding
  BY DEF CapsuleInv, TokensAre, WrittenAre
<1> HIDE DEF token
<1>11. /\ settles.binding = token.binding /\ settles.mac = token.mac /\ settles.status = settled
       /\ DOMAIN settles = {"binding", "mac", "status"}
  <2> HIDE DEF settled
  <2> QED
    BY <1>10
<1> HIDE DEF settles
<1>12. /\ IsList(tokens) /\ DOMAIN tokens = DOMAIN run.tokens /\ tokens[t] = settles
       /\ \A i \in DOMAIN run.tokens : i # t => tokens[i] = run.tokens[i]
  BY <1>10, ReplaceLists
<1> HIDE DEF tokens
<1>13. \A b : Deserved(b)' <=> Deserved(b)
  BY <1>3 DEF Deserved, Capsules!SameProblem, Capsules!NewEvidence
<1>14. TokensAre'
  BY <1>9, <1>10, <1>11, <1>12, <1>13 DEF CapsuleInv, TokensAre, token
<1>15. /\ DOMAIN result' = {"confirmed", "status", "receipt"}
       /\ result'.confirmed = t /\ result'.status = status /\ result'.receipt = told
  BY <1>3
<1>16. AsComputed' /\ Capsules!ReadyIsUsable' /\ Hashed'
  BY <1>3, <1>9, <1>15 DEF CapsuleInv, AsComputed, Capsules!IsPreview, Capsules!IsAction, Capsules!ReadyIsUsable, Hashed
<1>17. run'.tokens[t].binding = token.binding
  BY <1>9, <1>11, <1>12
<1>18. ReceiptTold'
  <2>1. status # "INVALID_CONFIRMATION" => presented = token.binding /\ key = Capsules!IdempotencyKey(token.binding)
    BY <1>4, <1>10 DEF key
  <2>2. told # None => remote[key] = told /\ told.key = key
    BY <1>7, <1>8 DEF Keyed
  <2>3. status = "EXECUTED" => told.action = Capsules!IdempotencyKey(token.binding)["action"]
    BY <1>7, <1>8, <2>1, KeyOfAction
  <2> QED
    BY <1>8, <1>9, <1>15, <1>17, <2>1, <2>2, <2>3 DEF ReceiptTold
<1>19. \A i \in DOMAIN run.tokens :
         run.tokens[i].status = "consumed" =>
           run'.tokens[i].binding = run.tokens[i].binding /\ run'.tokens[i].status = "consumed"
  <2> SUFFICES ASSUME NEW i \in DOMAIN run.tokens, run.tokens[i].status = "consumed"
               PROVE  run'.tokens[i].binding = run.tokens[i].binding /\ run'.tokens[i].status = "consumed"
    OBVIOUS
  <2>1. CASE i = t
    <3>1. token.status = "consumed" /\ settled = token.status
      BY <1>4, <2>1 DEF token
    <3> QED
      BY <1>9, <1>11, <1>12, <2>1, <3>1 DEF token
  <2>2. CASE i # t
    BY <1>9, <1>12, <2>2
  <2> QED
    BY <2>1, <2>2
<1>20. WrittenAre'
  <2>1. CASE status = "EXECUTED"
    <3>1. /\ IsList(written) /\ DOMAIN run.written = 1..Len(run.written) /\ Len(run.written) \in Nat
          /\ DOMAIN written = 1..(Len(run.written) + 1)
          /\ \A i \in DOMAIN run.written : written[i] = run.written[i]
          /\ written[Len(run.written) + 1] = presented
      BY <1>10, <2>1, AppendLists
    <3> HIDE DEF written
    <3>2. \A i \in DOMAIN written : i \in DOMAIN run.written \/ i = Len(run.written) + 1
      BY <3>1
    <3>3. presented = token.binding /\ run'.tokens[t].status = "consumed" /\ t \in DOMAIN run'.tokens
      BY <1>4, <1>9, <1>10, <1>11, <1>12, <2>1
    <3>4. \A i \in DOMAIN run.written : Capsules!IdempotencyKey(run.written[i]) \in DOMAIN run.remote
      BY DEF CapsuleInv, WrittenAre
    <3>5. \A i \in DOMAIN written : Capsules!IdempotencyKey(written[i]) \in DOMAIN remote
      BY <1>7, <2>1, <3>1, <3>2, <3>4 DEF key
    <3>6. \A i \in DOMAIN written : \E n \in DOMAIN run'.tokens :
            run'.tokens[n].binding = written[i] /\ run'.tokens[n].status = "consumed"
      <4> SUFFICES ASSUME NEW i \in DOMAIN written
                   PROVE  \E n \in DOMAIN run'.tokens :
                            run'.tokens[n].binding = written[i] /\ run'.tokens[n].status = "consumed"
        OBVIOUS
      <4>1. CASE i \in DOMAIN run.written
        <5>1. PICK n \in DOMAIN run.tokens :
                run.tokens[n].binding = run.written[i] /\ run.tokens[n].status = "consumed"
          BY <4>1 DEF CapsuleInv, WrittenAre
        <5> QED
          BY <1>9, <1>12, <1>19, <3>1, <4>1, <5>1
      <4>2. CASE i = Len(run.written) + 1
        BY <1>17, <3>1, <3>3, <4>2
      <4> QED
        BY <3>2, <4>1, <4>2
    <3>7. \A i, j \in DOMAIN written : i # j => Capsules!IdempotencyKey(written[i]) # Capsules!IdempotencyKey(written[j])
      <4>1. \A i, j \in DOMAIN run.written :
              i # j => Capsules!IdempotencyKey(run.written[i]) # Capsules!IdempotencyKey(run.written[j])
        BY DEF CapsuleInv, WrittenAre
      <4>2. key = Capsules!IdempotencyKey(presented) /\ key \notin DOMAIN run.remote
        BY <1>7, <2>1 DEF key
      <4> QED
        BY <3>1, <3>2, <3>4, <4>1, <4>2
    <3> QED
      BY <1>9, <3>1, <3>5, <3>6, <3>7 DEF WrittenAre
  <2>2. CASE status # "EXECUTED"
    <3>1. run'.written = run.written
      BY <1>9, <2>2
    <3>2. \A i \in DOMAIN run.written : \E n \in DOMAIN run'.tokens :
            run'.tokens[n].binding = run.written[i] /\ run'.tokens[n].status = "consumed"
      BY <1>9, <1>12, <1>19 DEF CapsuleInv, WrittenAre
    <3> QED
      BY <1>7, <1>9, <3>1, <3>2 DEF CapsuleInv, WrittenAre
  <2> QED
    BY <2>1, <2>2
<1> QED
  BY <1>3, <1>7, <1>9, <1>14, <1>16, <1>18, <1>20 DEF CapsuleInv

LEMMA CapsuleStep ==
  ASSUME Capsules!SoundSubmissions, CapsuleInv, [Capsules!Next]_(Capsules!vars) PROVE CapsuleInv'
<1>1. CASE UNCHANGED Capsules!vars
  <2>1. request' = request /\ run' = run /\ result' = result
    BY <1>1 DEF Capsules!vars
  <2>2. \A x : Deserved(x)' <=> Deserved(x)
    BY <2>1 DEF Deserved, Capsules!SameProblem, Capsules!NewEvidence
  <2> QED
    BY <2>1, <2>2 DEF CapsuleInv, AsComputed, Capsules!IsPreview, Hashed, TokensAre, WrittenAre, ReceiptTold,
                      Capsules!ReadyIsUsable, Capsules!IsAction, Capsules!Fitting
<1> QED
  BY <1>1, CapsulePreviewKeeps, CapsuleEditKeeps, PreviewActionKeeps, ConfirmKeeps DEF Capsules!Next

LEMMA CapsuleFollows ==
  ASSUME Capsules!SoundSubmissions, CapsuleInv
  PROVE  /\ Capsules!DraftsAreEarned /\ Capsules!NoInstructionsOut /\ Capsules!NoSensitiveDoctor /\ Capsules!FormsAreOfficial
         /\ Capsules!TokensAreEarned /\ Capsules!ReadyIsUsable /\ Capsules!OneEffectEach
<1>1. Capsules!DraftsAreEarned /\ Capsules!NoInstructionsOut /\ Capsules!NoSensitiveDoctor /\ Capsules!FormsAreOfficial
  BY PreviewDrafts, PreviewIsClean, PreviewIsInsensitive, PreviewForms DEF CapsuleInv
<1>2. Capsules!TokensAreEarned
  BY DEF CapsuleInv, TokensAre, Deserved, Capsules!TokensAreEarned
<1>3. Capsules!OneEffectEach
  BY DEF CapsuleInv, WrittenAre, ReceiptTold, Capsules!OneEffectEach
<1> QED
  BY <1>1, <1>2, <1>3 DEF CapsuleInv

-----------------------------------------------------------------------------
(***************************************************************************)
(* Diagnosis, whatever the incident declares, the files hold and a model   *)
(* prefers: what each family can score, which marks that takes, and in     *)
(* which order the survivors stand.                                        *)
(***************************************************************************)
\* The instance's counting is counting.
LEMMA DiagCounts == \A S : Diag!Cardinality(S) = Cardinality(S)
BY Zenon DEF Cardinality, IsFiniteSet, Diag!Cardinality, Diag!IsFiniteSet

\* What the classification relies on of each family.
LEMMA Families ==
  ASSUME NEW e \in Diag!Catalog
  PROVE  /\ e.platforms = {"windows"} /\ e.surfaces = {"desktop", "browser_control"} /\ e.fix_linked = FALSE
         /\ \/ /\ e.issue = "32683" /\ e.exceptions = {"c0000005"} /\ e.modules = {"chrome.dll"}
               /\ e.symbols = {"CrBrowserMain"} /\ e.offsets = {"2e08f46"}
               /\ e.interactions = {"neutral_dom_ready"} /\ e.pages = {"neutral"}
               /\ e.contexts = {"single", "unknown"} /\ e.exits = {} /\ e.relaunches = {}
               /\ e.title = {"browser", "crash", "desktop", "windows", "dom"}
            \/ /\ e.issue = "33710" /\ e.exceptions = {"c06d007f"} /\ e.modules = {"chatgpt.exe", "codex.exe"}
               /\ e.symbols = {} /\ e.offsets = {}
               /\ e.interactions = {"link_click", "button_click"} /\ e.pages = {"neutral", "unknown"}
               /\ e.contexts = {"single", "unknown"} /\ e.exits = {} /\ e.relaunches = {}
               /\ e.title = {"browser", "crash", "click", "link", "windows"}
            \/ /\ e.issue = "32094" /\ e.exceptions = {} /\ e.modules = {}
               /\ e.symbols = {} /\ e.offsets = {}
               /\ e.interactions = {"media_canvas", "neutral_dom_ready", "unknown"} /\ e.pages = {"media", "canvas"}
               /\ e.contexts = {"single", "unknown"} /\ e.exits = {"101457950"} /\ e.relaunches = {"18"}
               /\ e.title = {"browser", "crash", "gpu", "media", "canvas"}
            \/ /\ e.issue = "33202" /\ e.exceptions = {} /\ e.modules = {}
               /\ e.symbols = {} /\ e.offsets = {}
               /\ e.interactions = {"webview_attach"} /\ e.pages = {"neutral", "unknown"}
               /\ e.contexts = {"multi_side_chat"} /\ e.exits = {} /\ e.relaunches = {}
               /\ e.title = {"browser", "crash", "side", "chat", "webview", "concurrent"}
            \/ /\ e.issue = "33762" /\ e.exceptions = {} /\ e.modules = {}
               /\ e.symbols = {} /\ e.offsets = {}
               /\ e.interactions = {"unknown", "neutral_dom_ready"} /\ e.pages = {"complex_login"}
               /\ e.contexts = {"single", "unknown"} /\ e.exits = {} /\ e.relaunches = {}
               /\ e.title = {"browser", "crash", "login", "cloudflare", "disable"}
BY DEF Diag!Catalog, Diag!Family, Diag!AccessViolation, Diag!CppException, Diag!GpuRelaunch, Diag!WebviewAttach, Diag!SilentExit

LEMMA IssueDecides ==
  ASSUME NEW a \in Diag!Catalog, NEW b \in Diag!Catalog, a.issue = b.issue
  PROVE  a = b
<1>1. /\ Diag!AccessViolation.issue = "32683" /\ Diag!CppException.issue = "33710" /\ Diag!GpuRelaunch.issue = "32094"
      /\ Diag!WebviewAttach.issue = "33202" /\ Diag!SilentExit.issue = "33762"
  BY DEF Diag!Family, Diag!AccessViolation, Diag!CppException, Diag!GpuRelaunch, Diag!WebviewAttach, Diag!SilentExit
<1> QED
  BY <1>1 DEF Diag!Catalog

-----------------------------------------------------------------------------
LEMMA LesserOfTwo ==
  ASSUME NEW a \in Int, NEW b \in Int
  PROVE  Diag!Min({a, b}) = IF a <= b THEN a ELSE b
BY DEF Diag!Min

LEMMA TwoAtLeast ==
  ASSUME NEW S, IsFiniteSet(S), NEW a \in S, NEW b \in S, a # b
  PROVE  Cardinality(S) >= 2
<1>1. IsFiniteSet({a, b}) /\ Cardinality({a, b}) = 2
  <2>1. IsFiniteSet({a}) /\ Cardinality({a}) = 1
    BY FS_Singleton
  <2>2. {a, b} = {a} \cup {b} /\ b \notin {a}
    OBVIOUS
  <2> QED
    BY <2>1, <2>2, FS_AddElement
<1>2. Cardinality({a, b}) <= Cardinality(S)
  BY FS_Subset
<1>3. Cardinality(S) \in Nat
  BY FS_CardinalityType
<1> QED
  BY <1>1, <1>2, <1>3

\* A set of five has no subset of more.
LEMMA FiveAtMost ==
  ASSUME NEW a, NEW b, NEW c, NEW d, NEW e, NEW S \in SUBSET {a, b, c, d, e}
  PROVE  IsFiniteSet(S) /\ Cardinality(S) \in 0..5
<1>1. IsFiniteSet({a}) /\ Cardinality({a}) = 1
  BY FS_Singleton
<1>2. IsFiniteSet({a, b}) /\ Cardinality({a, b}) \in 0..2
  <2>1. {a, b} = {a} \cup {b}
    OBVIOUS
  <2> QED
    BY <1>1, <2>1, FS_AddElement
<1>3. IsFiniteSet({a, b, c}) /\ Cardinality({a, b, c}) \in 0..3
  <2>1. {a, b, c} = {a, b} \cup {c}
    OBVIOUS
  <2> QED
    BY <1>2, <2>1, FS_AddElement
<1>4. IsFiniteSet({a, b, c, d}) /\ Cardinality({a, b, c, d}) \in 0..4
  <2>1. {a, b, c, d} = {a, b, c} \cup {d}
    OBVIOUS
  <2> QED
    BY <1>3, <2>1, FS_AddElement
<1>5. IsFiniteSet({a, b, c, d, e}) /\ Cardinality({a, b, c, d, e}) \in 0..5
  <2>1. {a, b, c, d, e} = {a, b, c, d} \cup {e}
    OBVIOUS
  <2> QED
    BY <1>4, <2>1, FS_AddElement
<1>6. IsFiniteSet(S) /\ Cardinality(S) <= Cardinality({a, b, c, d, e})
  BY <1>5, FS_Subset
<1> QED
  BY <1>5, <1>6, FS_CardinalityType

LEMMA CatalogFinite == IsFiniteSet(Diag!Catalog)
<1>1. {Diag!AccessViolation, Diag!CppException, Diag!GpuRelaunch, Diag!WebviewAttach, Diag!SilentExit} \in
        SUBSET {Diag!AccessViolation, Diag!CppException, Diag!GpuRelaunch, Diag!WebviewAttach, Diag!SilentExit}
  OBVIOUS
<1>2. IsFiniteSet({Diag!AccessViolation, Diag!CppException, Diag!GpuRelaunch, Diag!WebviewAttach, Diag!SilentExit})
  BY <1>1, FiveAtMost
<1> QED
  BY <1>2 DEF Diag!Catalog

\* What a title adds is even, twelve at most, and ten for a title of five words.
LEMMA TitleBoosts ==
  ASSUME NEW e \in Diag!Catalog, NEW fp
  PROVE  /\ Diag!TitleBoost(e, fp) \in 0..12
         /\ e.issue # "33202" => Diag!TitleBoost(e, fp) <= 10
<1> DEFINE words == fp.words \cup (IF fp.feature THEN {"browser"} ELSE {})
                              \cup (IF fp.class = "native_crash" THEN {"crash"} ELSE {})
<1>1. IsFiniteSet(e.title \cap words) /\ (e.issue # "33202" => Cardinality(e.title \cap words) \in 0..5)
  <2> HIDE DEF words
  <2>1. CASE e.issue = "33202"
    <3>1. e.title = {"browser", "crash", "side", "chat", "webview"} \cup {"concurrent"}
      BY <2>1, Families
    <3>2. IsFiniteSet({"browser", "crash", "side", "chat", "webview"})
      BY FiveAtMost
    <3>3. IsFiniteSet(e.title)
      BY <3>1, <3>2, FS_AddElement
    <3> QED
      BY <2>1, <3>3, FS_Subset
  <2>2. CASE e.issue # "33202"
    <3>1. \/ e.title = {"browser", "crash", "desktop", "windows", "dom"}
          \/ e.title = {"browser", "crash", "click", "link", "windows"}
          \/ e.title = {"browser", "crash", "gpu", "media", "canvas"}
          \/ e.title = {"browser", "crash", "login", "cloudflare", "disable"}
      BY <2>2, Families
    <3>2. IsFiniteSet(e.title) /\ Cardinality(e.title) \in 0..5
      BY <3>1, FiveAtMost
    <3>3. IsFiniteSet(e.title \cap words) /\ Cardinality(e.title \cap words) <= Cardinality(e.title)
      BY <3>2, FS_Subset
    <3> QED
      BY <3>2, <3>3, FS_CardinalityType
  <2> QED
    BY <2>1, <2>2
<1>2. Diag!TitleHits(e, fp) = Cardinality(e.title \cap words)
  BY DiagCounts DEF Diag!TitleHits
<1> HIDE DEF words
<1>3. Diag!TitleHits(e, fp) \in Nat
  BY <1>1, <1>2, FS_CardinalityType
<1>4. Diag!TitleBoost(e, fp) = IF 12 <= 2 * Diag!TitleHits(e, fp) THEN 12 ELSE 2 * Diag!TitleHits(e, fp)
  BY <1>3, LesserOfTwo DEF Diag!TitleBoost
<1> QED
  BY <1>1, <1>2, <1>3, <1>4

-----------------------------------------------------------------------------

LEMMA HitsType ==
  ASSUME NEW e, NEW m
  PROVE  Hits(e, m) \in Nat
BY DEF Hits, Diag!Bit, Diag!Gpu

\* Only the access violation can be over 89; without another of its marks an
\* access violation is below the high threshold, and so is a C++ exception.
LEMMA RawBounds ==
  ASSUME NEW e \in Diag!Catalog, NEW fp
  PROVE  /\ Raw(e, fp) \in Nat
         /\ e.issue # "32683" => Raw(e, fp) <= 89
         /\ e.issue \in {"33202", "33762"} => Raw(e, fp) < Diag!HighThreshold
         /\ (e.issue = "33710" /\ Raw(e, fp) >= Diag!HighThreshold) =>
              /\ Diag!Meta(fp).exception \in e.exceptions
              /\ Diag!Meta(fp).module \in e.modules \/ Diag!Meta(fp).interaction \in e.interactions
         /\ (e.issue = "32683" /\ Raw(e, fp) >= Diag!HighThreshold) =>
              \/ /\ Diag!Meta(fp).exception \in e.exceptions
                 /\ \/ Diag!Meta(fp).symbol \in e.symbols \/ Diag!Meta(fp).module \in e.modules
                    \/ Diag!Meta(fp).offset \in e.offsets
              \/ /\ Diag!Meta(fp).symbol \in e.symbols
                 /\ Diag!Meta(fp).module \in e.modules \/ Diag!Meta(fp).offset \in e.offsets
<1> DEFINE m == Diag!Meta(fp)
           h == IF 28 <= Hits(e, m) THEN 28 ELSE Hits(e, m)
           os == 14 * Diag!Bit(fp.os \in e.platforms)
           vs == IF fp.version THEN 8 ELSE 4
           sf == 8 * Diag!Bit(fp.surface \in e.surfaces)
           cm == IF m.component \in e.components THEN 4 ELSE 2 * Diag!Bit(m.component = None)
           sy == 4 * Diag!Bit(m.symbol \in e.symbols)
           ft == IF fp.feature THEN 6 ELSE 3 * Diag!Bit(fp.surface \in {"desktop", "browser_control"})
           ia == IF m.interaction \in e.interactions THEN 8
                 ELSE 3 * Diag!Bit(fp.phase \in {"navigation", "tab_discovery", "extension_handshake"})
           pg == 6 * Diag!Bit(m.page \in e.pages)
           cc == IF m.concurrency \notin e.contexts THEN 0
                 ELSE IF m.concurrency = "multi_side_chat" THEN 12 ELSE 3
           fx == IF e.fix_linked THEN 6 ELSE 2
           tt == Diag!TitleBoost(e, fp)
<1>1. Diag!Weighed(e, fp) = h + os + vs + sf + cm + sy + ft + ia + pg + cc + fx
  <2>1. Diag!Min({28, Hits(e, m)}) = h
    BY HitsType, LesserOfTwo
  <2>2. Diag!Weighed(e, fp) = Diag!Min({28, Hits(e, m)}) + os + vs + sf + cm + sy + ft + ia + pg + cc + fx
    BY DEF Diag!Weighed, Hits
  <2> HIDE DEF h, os, vs, sf, cm, sy, ft, ia, pg, cc, fx, m
  <2> QED
    BY <2>1, <2>2
<1>2. /\ os \in {0, 14} /\ vs \in {4, 8} /\ sf \in {0, 8} /\ sy \in {0, 4} /\ pg \in {0, 6}
  <2> HIDE DEF m
  <2> QED
    BY DEF Diag!Bit
<1>3. cm \in {0, 2, 4} /\ ft \in {0, 3, 6} /\ ia \in {0, 3, 8} /\ cc \in {0, 3, 12}
  <2> HIDE DEF m
  <2> QED
    BY DEF Diag!Bit
<1>4. fx = 2
  BY Families
<1>5. tt \in 0..12 /\ (e.issue # "33202" => tt <= 10)
  BY TitleBoosts
<1>6. m.symbol \notin e.symbols => sy = 0
  BY DEF Diag!Bit
<1>7. "multi_side_chat" \notin e.contexts => cc \in {0, 3}
  OBVIOUS
<1>8. m.interaction \notin e.interactions => ia \in {0, 3}
  BY DEF Diag!Bit
<1>9. h \in 0..28 /\ h <= Hits(e, m) /\ Hits(e, m) \in Nat
  BY HitsType
<1>10. Hits(e, m) = 12 * Diag!Bit(m.exception \in e.exceptions) + 8 * Diag!Bit(m.symbol \in e.symbols)
                      + 4 * Diag!Bit(m.module \in e.modules) + 4 * Diag!Bit(m.offset \in e.offsets) + 10 * Diag!Gpu(e, m)
  BY DEF Hits
<1> HIDE DEF m, h, os, vs, sf, cm, sy, ft, ia, pg, cc, fx, tt
<1>11. Raw(e, fp) = h + os + vs + sf + cm + sy + ft + ia + pg + cc + fx + tt
  BY <1>1 DEF Raw, tt
<1>12. Raw(e, fp) \in Nat /\ Raw(e, fp) <= h + 14 + 8 + 8 + 4 + sy + 6 + ia + 6 + cc + 2 + tt
  BY <1>2, <1>3, <1>4, <1>5, <1>9, <1>11
<1>13. CASE e.issue = "32683"
  <2>1. e.exits = {} /\ e.contexts = {"single", "unknown"}
    BY <1>13, Families
  <2>2. Diag!Gpu(e, m) = 0 /\ cc <= 3
    BY <1>7, <2>1 DEF Diag!Gpu
  <2>3. Raw(e, fp) <= h + sy + 69
    BY <1>3, <1>5, <1>9, <1>12, <1>13, <2>2, <1>2
  <2>4. Raw(e, fp) >= Diag!HighThreshold => h + sy >= 13
    BY <1>2, <1>9, <1>12, <2>3 DEF Diag!HighThreshold
  <2> QED
    BY <1>2, <1>6, <1>9, <1>10, <1>12, <1>13, <2>2, <2>4 DEF Diag!Bit, m
<1>14. CASE e.issue = "33710"
  <2>1. e.exits = {} /\ e.contexts = {"single", "unknown"} /\ e.symbols = {} /\ e.offsets = {}
    BY <1>14, Families
  <2>2. Diag!Gpu(e, m) = 0 /\ cc <= 3 /\ sy = 0
    BY <1>6, <1>7, <2>1 DEF Diag!Gpu
  <2>3. Raw(e, fp) <= h + ia + 61
    BY <1>3, <1>5, <1>9, <1>12, <1>14, <2>2
  <2>4. Hits(e, m) = 12 * Diag!Bit(m.exception \in e.exceptions) + 4 * Diag!Bit(m.module \in e.modules)
    BY <1>10, <2>1, <2>2 DEF Diag!Bit
  <2>5. Raw(e, fp) >= Diag!HighThreshold => h + ia >= 21
    BY <1>3, <1>9, <1>12, <2>3 DEF Diag!HighThreshold
  <2>6. h + ia <= 24
    BY <1>3, <1>9, <2>4 DEF Diag!Bit
  <2>7. Raw(e, fp) <= 89
    BY <1>3, <1>9, <1>12, <2>3, <2>6
  <2> QED
    BY <1>3, <1>8, <1>9, <1>12, <1>14, <2>4, <2>5, <2>7 DEF Diag!Bit, m
<1>15. CASE e.issue = "32094"
  <2>1. e.contexts = {"single", "unknown"} /\ e.symbols = {} /\ e.offsets = {} /\ e.exceptions = {}
        /\ e.modules = {}
    BY <1>15, Families
  <2>2. Diag!Gpu(e, m) \in 0..2 /\ cc <= 3 /\ sy = 0
    BY <1>6, <1>7, <2>1 DEF Diag!Gpu
  <2>3. Hits(e, m) <= 20
    BY <1>10, <2>1, <2>2 DEF Diag!Bit
  <2>4. Raw(e, fp) <= 89
    BY <1>3, <1>5, <1>9, <1>12, <1>15, <2>2, <2>3
  <2> QED
    BY <1>12, <1>15, <2>4
<1>16. CASE e.issue \in {"33202", "33762"}
  <2>1. e.exits = {} /\ e.symbols = {} /\ e.offsets = {} /\ e.exceptions = {} /\ e.modules = {}
    BY <1>16, Families
  <2>2. Diag!Gpu(e, m) = 0 /\ sy = 0
    BY <1>6, <2>1 DEF Diag!Gpu
  <2>3. Hits(e, m) = 0
    BY <1>10, <2>1, <2>2 DEF Diag!Bit
  <2>4. Raw(e, fp) <= 80
    BY <1>3, <1>5, <1>9, <1>12, <2>2, <2>3
  <2> QED
    BY <1>12, <1>16, <2>4 DEF Diag!HighThreshold
<1> QED
  BY <1>13, <1>14, <1>15, <1>16, Families

\* The preference adds three at most, and takes only from an access violation.
LEMMA Scores ==
  ASSUME NEW e \in Diag!Catalog, NEW fp, NEW p
  PROVE  /\ Diag!Score(e, fp, p) \in Nat /\ Diag!Score(e, fp, {}) \in Nat
         /\ Diag!Score(e, fp, {}) <= Raw(e, fp)
         /\ e.issue \notin p => Diag!Score(e, fp, p) = Diag!Score(e, fp, {})
         /\ Diag!Score(e, fp, p) <= Diag!Score(e, fp, {}) + 3
         /\ e.issue # "32683" => Diag!Score(e, fp, p) <= 92 /\ Diag!Score(e, fp, {}) <= Diag!Score(e, fp, p)
         /\ Diag!Score(e, fp, {}) <= Diag!Score(e, fp, p) \/ Diag!Score(e, fp, p) = 95
<1> DEFINE raw == Raw(e, fp)
           cap(q) == IF Diag!TitleOnly(e, fp) THEN Diag!Min({raw, Diag!CandidateThreshold - 1}) ELSE raw
           capped == IF Diag!TitleOnly(e, fp) /\ raw > 54 THEN 54 ELSE raw
           on(q) == e.issue \in q /\ ~Diag!TitleOnly(e, fp)
           nudged(q) == IF on(q) THEN Diag!Min({95, capped + 3}) ELSE capped
<1>1. raw \in Nat /\ (e.issue # "32683" => raw <= 89)
  BY RawBounds
<1> HIDE DEF raw
<1>2. (IF Diag!TitleOnly(e, fp) THEN Diag!Min({raw, Diag!CandidateThreshold - 1}) ELSE raw) = capped
  <2>1. Diag!Min({raw, 54}) = IF raw <= 54 THEN raw ELSE 54
    BY <1>1, LesserOfTwo
  <2>2. Diag!CandidateThreshold - 1 = 54
    BY DEF Diag!CandidateThreshold
  <2> QED
    BY <1>1, <2>1, <2>2
<1>3. capped \in Nat /\ capped <= raw
  BY <1>1
<1>4. ASSUME NEW q
      PROVE  Diag!Score(e, fp, q) = IF Diag!Gated(e, fp) THEN 0 ELSE Diag!Min({99, nudged(q)})
  BY <1>2 DEF Diag!Score, Raw, raw
<1> HIDE DEF capped
<1>5. ASSUME NEW q
      PROVE  nudged(q) = IF on(q) THEN (IF 95 <= capped + 3 THEN 95 ELSE capped + 3) ELSE capped
  BY <1>3, LesserOfTwo
<1>6. ASSUME NEW q
      PROVE  nudged(q) \in Nat
  BY <1>3, <1>5
<1> HIDE DEF nudged
<1>7. ASSUME NEW q
      PROVE  Diag!Score(e, fp, q) = IF Diag!Gated(e, fp) THEN 0 ELSE IF 99 <= nudged(q) THEN 99 ELSE nudged(q)
  <2>1. Diag!Min({99, nudged(q)}) = IF 99 <= nudged(q) THEN 99 ELSE nudged(q)
    BY <1>6, LesserOfTwo
  <2> QED
    BY <1>4, <2>1
<1>8. nudged({}) = capped
  BY <1>5
<1>9. ~on(p) => nudged(p) = capped
  BY <1>5
<1>10. on(p) => nudged(p) = IF 95 <= capped + 3 THEN 95 ELSE capped + 3
  BY <1>5
<1>11. on(p) => e.issue \in p
  OBVIOUS
<1>12. /\ Diag!Score(e, fp, p) = IF Diag!Gated(e, fp) THEN 0 ELSE IF 99 <= nudged(p) THEN 99 ELSE nudged(p)
       /\ Diag!Score(e, fp, {}) = IF Diag!Gated(e, fp) THEN 0 ELSE IF 99 <= capped THEN 99 ELSE capped
  BY <1>7, <1>8
<1> HIDE DEF on
<1> QED
  BY <1>1, <1>3, <1>9, <1>10, <1>11, <1>12 DEF raw

\* Of two families the one placed first trails by no more than the nudge.
LEMMA Nudged ==
  ASSUME NEW a \in Diag!Catalog, NEW b \in Diag!Catalog, NEW fp, NEW p, a.issue # b.issue,
         Diag!Score(a, fp, p) >= Diag!Score(b, fp, p)
  PROVE  Diag!Score(a, fp, {}) + 3 >= Diag!Score(b, fp, {})
<1>1. /\ Diag!Score(a, fp, p) \in Nat /\ Diag!Score(a, fp, {}) \in Nat
      /\ Diag!Score(b, fp, p) \in Nat /\ Diag!Score(b, fp, {}) \in Nat
      /\ Diag!Score(a, fp, p) <= Diag!Score(a, fp, {}) + 3
      /\ Diag!Score(b, fp, {}) <= Diag!Score(b, fp, p) \/ Diag!Score(b, fp, p) = 95
  BY Scores
<1>2. CASE b.issue = "32683"
  <2>1. Diag!Score(a, fp, p) <= 92
    BY <1>2, Scores
  <2> QED
    BY <1>1, <2>1
<1>3. CASE b.issue # "32683"
  <2>1. Diag!Score(b, fp, {}) <= Diag!Score(b, fp, p)
    BY <1>3, Scores
  <2> QED
    BY <1>1, <2>1
<1> QED
  BY <1>2, <1>3

-----------------------------------------------------------------------------
(* The order of the candidates. *)

LEMMA IssueRanks ==
  ASSUME NEW a \in Diag!Catalog
  PROVE  /\ Diag!Rank(a) \in 1..5 /\ Diag!IssueOrder[Diag!Rank(a)] = a.issue
<1>1. \E n \in DOMAIN Diag!IssueOrder : Diag!IssueOrder[n] = a.issue
  <2>1. /\ DOMAIN Diag!IssueOrder = 1..5 /\ Diag!IssueOrder[1] = "32094" /\ Diag!IssueOrder[2] = "32683"
        /\ Diag!IssueOrder[3] = "33202" /\ Diag!IssueOrder[4] = "33710" /\ Diag!IssueOrder[5] = "33762"
    BY DEF Diag!IssueOrder
  <2>2. a.issue \in {"32683", "33710", "32094", "33202", "33762"}
    BY Families
  <2> QED
    BY <2>1, <2>2
<1>2. DOMAIN Diag!IssueOrder = 1..5
  BY DEF Diag!IssueOrder
<1> QED
  BY <1>1, <1>2 DEF Diag!Rank

LEMMA Order ==
  ASSUME NEW fp, NEW p
  PROVE  /\ \A a \in Diag!Catalog : ~Diag!Before(a, a, fp, p)
         /\ \A a, b \in Diag!Catalog : a # b => Diag!Before(a, b, fp, p) \/ Diag!Before(b, a, fp, p)
         /\ \A a, b, c \in Diag!Catalog : Diag!Before(a, b, fp, p) /\ Diag!Before(b, c, fp, p) => Diag!Before(a, c, fp, p)
<1>1. \A a \in Diag!Catalog : Diag!Score(a, fp, p) \in Nat /\ Diag!Rank(a) \in Nat
  BY Scores, IssueRanks
<1>2. \A a, b \in Diag!Catalog : Diag!Rank(a) = Diag!Rank(b) => a = b
  BY IssueRanks, IssueDecides
<1>3. \A a, b \in Diag!Catalog : Diag!Before(a, b, fp, p) <=>
        \/ Diag!Score(a, fp, p) > Diag!Score(b, fp, p)
        \/ Diag!Score(a, fp, p) = Diag!Score(b, fp, p) /\ Diag!Rank(a) < Diag!Rank(b)
  BY DEF Diag!Before
<1> QED
  BY <1>1, <1>2, <1>3

LEMMA PlacesAreInOrder ==
  ASSUME NEW fp, NEW p, NEW S \in SUBSET Diag!Catalog, NEW a \in S
  PROVE  /\ Diag!Place(a, S, fp, p) \in 1..Cardinality(S)
         /\ \A b \in S : a # b => Diag!Place(a, S, fp, p) # Diag!Place(b, S, fp, p)
         /\ \A b \in S : Diag!Place(a, S, fp, p) < Diag!Place(b, S, fp, p) => Diag!Before(a, b, fp, p)
<1> DEFINE Ahead(x) == {o \in S : Diag!Before(o, x, fp, p)}
<1>1. IsFiniteSet(S) /\ Cardinality(S) \in Nat
  BY CatalogFinite, FS_Subset, FS_CardinalityType
<1>2. ASSUME NEW x \in S
      PROVE  IsFiniteSet(Ahead(x)) /\ Cardinality(Ahead(x)) \in Nat /\ Diag!Place(x, S, fp, p) = 1 + Cardinality(Ahead(x))
  <2>1. IsFiniteSet(Ahead(x))
    BY <1>1, FS_Subset
  <2> QED
    BY <2>1, FS_CardinalityType, DiagCounts DEF Diag!Place
<1>0. ASSUME NEW x, NEW o
      PROVE  o \in Ahead(x) <=> o \in S /\ Diag!Before(o, x, fp, p)
  OBVIOUS
<1> HIDE DEF Ahead
<1>3. ASSUME NEW x \in S, NEW y \in S, Diag!Before(x, y, fp, p)
      PROVE  Diag!Place(x, S, fp, p) < Diag!Place(y, S, fp, p)
  <2>1. Ahead(x) \subseteq Ahead(y) /\ x \in Ahead(y) /\ x \notin Ahead(x)
    BY <1>0, <1>3, Order
  <2>2. Cardinality(Ahead(x)) < Cardinality(Ahead(y))
    <3>1. Ahead(x) # Ahead(y)
      BY <2>1
    <3>2. Cardinality(Ahead(x)) <= Cardinality(Ahead(y)) /\ (Cardinality(Ahead(x)) = Cardinality(Ahead(y)) => Ahead(x) = Ahead(y))
      BY <1>2, <2>1, FS_Subset
    <3> QED
      BY <1>2, <3>1, <3>2
  <2> QED
    BY <1>2, <2>2
<1>4. Cardinality(Ahead(a)) < Cardinality(S)
  <2>1. Ahead(a) \subseteq S /\ a \notin Ahead(a)
    BY <1>0, Order
  <2>2. Cardinality(Ahead(a)) <= Cardinality(S) /\ (Cardinality(Ahead(a)) = Cardinality(S) => Ahead(a) = S)
    BY <1>1, <2>1, FS_Subset
  <2> QED
    BY <1>1, <1>2, <2>1, <2>2
<1>5. Diag!Place(a, S, fp, p) \in 1..Cardinality(S)
  BY <1>1, <1>2, <1>4
<1>6. ASSUME NEW b \in S, a # b
      PROVE  /\ Diag!Place(a, S, fp, p) # Diag!Place(b, S, fp, p)
             /\ Diag!Place(a, S, fp, p) < Diag!Place(b, S, fp, p) => Diag!Before(a, b, fp, p)
  <2>1. Diag!Before(a, b, fp, p) \/ Diag!Before(b, a, fp, p)
    BY <1>6, Order
  <2>2. Diag!Place(a, S, fp, p) \in Nat /\ Diag!Place(b, S, fp, p) \in Nat
    BY <1>2
  <2> QED
    BY <1>3, <2>1, <2>2
<1>7. Diag!Place(a, S, fp, p) \in Nat
  BY <1>2
<1> QED
  BY <1>5, <1>6, <1>7

LEMMA InOrder ==
  ASSUME NEW fp, NEW p
  PROVE  /\ Diag!Ranked(fp, p) \in Seq(Surviving(fp, p))
         /\ \A n \in DOMAIN Diag!Ranked(fp, p) : Diag!Place(Diag!Ranked(fp, p)[n], Surviving(fp, p), fp, p) = n
<1> DEFINE S == Surviving(fp, p)
           at == [e \in S |-> Diag!Place(e, S, fp, p)]
           k == IF 3 <= Cardinality(S) THEN 3 ELSE Cardinality(S)
<1>1. S \subseteq Diag!Catalog
  BY DEF Surviving
<1>2. IsFiniteSet(S) /\ Cardinality(S) \in Nat
  BY <1>1, CatalogFinite, FS_Subset, FS_CardinalityType
<1>3. Diag!Min({3, Cardinality(S)}) = k
  BY <1>2, LesserOfTwo
<1>4. Diag!Ranked(fp, p) = [n \in 1..k |-> CHOOSE e \in S : Diag!Place(e, S, fp, p) = n]
  BY <1>3, DiagCounts DEF Diag!Ranked, Surviving
<1> HIDE DEF S
<1>5. \A n \in 1..Cardinality(S) : \E e \in S : Diag!Place(e, S, fp, p) = n
  <2>1. at \in Injection(S, 1..Cardinality(S))
    BY <1>1, PlacesAreInOrder DEF Injection, IsInjective
  <2>2. IsFiniteSet(1..Cardinality(S)) /\ Cardinality(1..Cardinality(S)) = Cardinality(S)
    BY <1>2, FS_Interval
  <2>3. at \in Surjection(S, 1..Cardinality(S))
    BY <2>1, <2>2, FS_Injection
  <2> QED
    BY <2>3 DEF Surjection
<1>6. k \in Nat /\ k <= Cardinality(S)
  BY <1>2
<1> HIDE DEF k
<1>7. ASSUME NEW n \in 1..k
      PROVE  Diag!Ranked(fp, p)[n] \in S /\ Diag!Place(Diag!Ranked(fp, p)[n], S, fp, p) = n
  <2>1. \E e \in S : Diag!Place(e, S, fp, p) = n
    BY <1>2, <1>5, <1>6
  <2> QED
    BY <1>4, <2>1
<1>8. Diag!Ranked(fp, p) \in Seq(S) /\ DOMAIN Diag!Ranked(fp, p) = 1..k
  BY <1>4, <1>6, <1>7
<1> QED
  BY <1>7, <1>8 DEF S

-----------------------------------------------------------------------------
(* Marks. *)

LEMMA Unshared ==
  ASSUME Diag!SoundIncidents, NEW e \in Diag!Catalog, NEW o \in Diag!Catalog, e # o, NEW x
  PROVE  /\ x \in e.interactions \ Diag!Shared => x \notin o.interactions
         /\ x \in Diag!Concrete(e.pages) => x \notin o.pages
         /\ "multi_side_chat" \in e.contexts => "multi_side_chat" \notin o.contexts
<1>1. e.issue # o.issue
  BY IssueDecides
<1>2. e.issue \in {"32683", "33710", "32094", "33202", "33762"} /\ o.issue \in {"32683", "33710", "32094", "33202", "33762"}
  BY Families
<1> DEFINE Known(f) ==
      /\ f.issue = "32683" => f.interactions = {"neutral_dom_ready"} /\ f.pages = {"neutral"} /\ f.contexts = {"single", "unknown"}
      /\ f.issue = "33710" => f.interactions = {"link_click", "button_click"} /\ f.pages = {"neutral", "unknown"}
                                /\ f.contexts = {"single", "unknown"}
      /\ f.issue = "32094" => f.interactions = {"media_canvas", "neutral_dom_ready", "unknown"}
                                /\ f.pages = {"media", "canvas"} /\ f.contexts = {"single", "unknown"}
      /\ f.issue = "33202" => f.interactions = {"webview_attach"} /\ f.pages = {"neutral", "unknown"}
                                /\ f.contexts = {"multi_side_chat"}
      /\ f.issue = "33762" => f.interactions = {"unknown", "neutral_dom_ready"} /\ f.pages = {"complex_login"}
                                /\ f.contexts = {"single", "unknown"}
<1>3. Known(e) /\ Known(o)
  BY Families
<1> QED
  BY <1>1, <1>2, <1>3 DEF Diag!Shared, Diag!Concrete

LEMMA MarksFinite ==
  ASSUME NEW e, NEW m
  PROVE  IsFiniteSet(Diag!MarksOf(e, m))
<1>1. {"exception", "module", "symbol", "offset", "gpu", "interaction", "page", "context"}
        = {"exception", "module", "symbol", "offset", "gpu"} \cup {"interaction", "page", "context"}
  OBVIOUS
<1>2. {"interaction", "page", "context"} \subseteq {"interaction", "page", "context", "gpu", "offset"}
  OBVIOUS
<1>3. IsFiniteSet({"exception", "module", "symbol", "offset", "gpu"}) /\ IsFiniteSet({"interaction", "page", "context"})
  BY <1>2, FiveAtMost
<1>4. IsFiniteSet({"exception", "module", "symbol", "offset", "gpu", "interaction", "page", "context"})
  BY <1>1, <1>3, FS_Union
<1> QED
  BY <1>4, FS_Subset DEF Diag!MarksOf

LEMMA Marks ==
  ASSUME Diag!SoundIncidents, NEW e \in Diag!Catalog, NEW m
  PROVE  /\ m.exception \in e.exceptions => "exception" \in Diag!MarksOf(e, m)
         /\ m.module \in e.modules => "module" \in Diag!MarksOf(e, m)
         /\ m.symbol \in e.symbols => "symbol" \in Diag!MarksOf(e, m)
         /\ m.offset \in e.offsets => "offset" \in Diag!MarksOf(e, m)
         /\ m.gpuExit \in e.exits /\ m.gpuRelaunch \in e.relaunches => "gpu" \in Diag!MarksOf(e, m)
         /\ m.interaction \in e.interactions \ Diag!Shared => "interaction" \in Diag!MarksOf(e, m)
         /\ m.page \in Diag!Concrete(e.pages) => "page" \in Diag!MarksOf(e, m)
         /\ m.concurrency = "multi_side_chat" /\ m.concurrency \in e.contexts => "context" \in Diag!MarksOf(e, m)
<1>1. \A o \in Diag!Catalog \ {e} : m.interaction \in e.interactions \ Diag!Shared => m.interaction \notin o.interactions
  BY Unshared
<1>2. \A o \in Diag!Catalog \ {e} : m.page \in Diag!Concrete(e.pages) => m.page \notin o.pages
  BY Unshared
<1>3. \A o \in Diag!Catalog \ {e} : "multi_side_chat" \in e.contexts => "multi_side_chat" \notin o.contexts
  BY Unshared
<1>4. m.page \in Diag!Concrete(e.pages) => m.page \in e.pages
  BY DEF Diag!Concrete
<1> QED
  BY <1>1, <1>2, <1>3, <1>4 DEF Diag!MarksOf

LEMMA NoneIsNoMark ==
  ASSUME Diag!SoundIncidents, NEW e \in Diag!Catalog
  PROVE  /\ None \notin e.exceptions /\ None \notin e.symbols /\ None \notin e.modules /\ None \notin e.offsets
         /\ None \notin e.exits /\ None \notin e.pages /\ None # e.issue
         /\ "multi_side_chat" \notin {None, "unknown"}
BY DEF Diag!SoundIncidents

\* What survives the gates has a mark of its own, and says so.
LEMMA SurvivorsAreMarked ==
  ASSUME Diag!SoundIncidents, NEW fp, NEW p, NEW e \in Surviving(fp, p)
  PROVE  /\ e \in Diag!Catalog /\ Diag!Structural(Diag!Meta(fp)) /\ Diag!MarksOf(e, Diag!Meta(fp)) # {}
         /\ fp.os = "windows" /\ fp.surface \in {"desktop", "browser_control"}
         /\ e.issue = "32094" => {"gpu", "page"} \subseteq Diag!MarksOf(e, Diag!Meta(fp))
         /\ e.issue = "33762" => Diag!Meta(fp).page = "complex_login"
<1> DEFINE m == Diag!Meta(fp)
<1>1. e \in Diag!Catalog /\ ~Diag!Gated(e, fp) /\ Diag!DefiningHits(e, m) >= 1
  BY DEF Surviving, Diag!Survives
<1>2. fp.os \in e.platforms /\ fp.surface \in e.surfaces
  BY <1>1 DEF Diag!Gated
<1>3. Diag!NeedsPage(e) => m.page \in e.pages
  BY <1>1 DEF Diag!Gated
<1>4. Diag!NeedsGpu(e) => /\ e.exits = {} \/ m.gpuExit \in e.exits
                          /\ e.relaunches = {} \/ m.gpuRelaunch \in e.relaunches
  BY <1>1 DEF Diag!Gated
<1> HIDE DEF m
<1>5. \/ m.exception \in e.exceptions \/ m.symbol \in e.symbols \/ m.module \in e.modules
      \/ m.offset \in e.offsets \/ m.gpuExit \in e.exits
      \/ m.interaction \in e.interactions \ Diag!Shared \/ m.page \in Diag!Concrete(e.pages)
      \/ m.concurrency = "multi_side_chat" /\ m.concurrency \in e.contexts
  BY <1>1 DEF Diag!DefiningHits, Diag!Bit, Diag!Gpu
<1>6. m.gpuExit \in e.exits => m.gpuRelaunch \in e.relaunches
  <2>1. e.exits # {} => e.relaunches = {"18"}
    BY <1>1, Families
  <2> QED
    BY <1>4, <2>1 DEF Diag!NeedsGpu
<1>7. Diag!MarksOf(e, m) # {}
  BY <1>1, <1>5, <1>6, Marks
<1>8. /\ None \notin e.exceptions /\ None \notin e.symbols /\ None \notin e.modules /\ None \notin e.offsets
      /\ None \notin e.exits /\ None \notin e.pages /\ "multi_side_chat" \notin {None, "unknown"}
  BY <1>1, NoneIsNoMark
<1>9. Diag!Structural(m)
  <2>1. \/ \E part \in {m.exception, m.module, m.symbol, m.offset, m.gpuExit} : part # None
        \/ m.interaction \notin {None, "unknown"} \/ m.page \notin {None, "unknown", "neutral"}
        \/ m.concurrency \notin {None, "unknown"}
    BY <1>5, <1>8 DEF Diag!Shared, Diag!Concrete
  <2> QED
    BY <2>1 DEF Diag!Structural
<1>10. CASE e.issue = "32094"
  <2>1. e.pages = {"media", "canvas"} /\ e.exits = {"101457950"} /\ e.relaunches = {"18"}
    BY <1>1, <1>10, Families
  <2>2. Diag!NeedsPage(e) /\ Diag!NeedsGpu(e) /\ Diag!Concrete(e.pages) = e.pages
    BY <2>1 DEF Diag!NeedsPage, Diag!NeedsGpu, Diag!Concrete
  <2>3. m.page \in Diag!Concrete(e.pages) /\ m.gpuExit \in e.exits /\ m.gpuRelaunch \in e.relaunches
    BY <1>3, <1>4, <2>1, <2>2
  <2>4. "gpu" \in Diag!MarksOf(e, m) /\ "page" \in Diag!MarksOf(e, m)
    BY <1>1, <2>3, Marks
  <2> QED
    BY <1>1, <1>2, <1>7, <1>9, <1>10, <2>4, Families DEF m
<1>11. CASE e.issue = "33762"
  <2>1. e.pages = {"complex_login"}
    BY <1>1, <1>11, Families
  <2>2. Diag!NeedsPage(e)
    BY <2>1 DEF Diag!NeedsPage, Diag!Concrete
  <2> QED
    BY <1>1, <1>2, <1>3, <1>7, <1>9, <1>11, <2>1, <2>2, Families DEF m
<1>12. CASE e.issue \notin {"32094", "33762"}
  BY <1>1, <1>2, <1>7, <1>9, <1>12, Families DEF m
<1> QED
  BY <1>10, <1>11, <1>12

\* Confidence without preference takes two marks.
LEMMA HighHasTwoMarks ==
  ASSUME Diag!SoundIncidents, NEW fp, NEW p, NEW e \in Surviving(fp, p),
         Diag!Score(e, fp, p) >= Diag!HighThreshold, e.issue \notin p
  PROVE  Cardinality(Diag!MarksOf(e, Diag!Meta(fp))) >= 2
<1> DEFINE m == Diag!Meta(fp)
<1>1. e \in Diag!Catalog
  BY SurvivorsAreMarked
<1>2. Raw(e, fp) >= Diag!HighThreshold
  <2>1. /\ Diag!Score(e, fp, p) = Diag!Score(e, fp, {}) /\ Diag!Score(e, fp, {}) <= Raw(e, fp)
        /\ Diag!Score(e, fp, {}) \in Nat
    BY <1>1, Scores
  <2>2. Raw(e, fp) \in Nat
    BY <1>1, RawBounds
  <2> QED
    BY <2>1, <2>2 DEF Diag!HighThreshold
<1> SUFFICES \E a, b \in Diag!MarksOf(e, m) : a # b
  BY MarksFinite, TwoAtLeast
<1> HIDE DEF m
<1>3. /\ e.issue \notin {"33202", "33762"}
      /\ e.issue = "33710" =>
           /\ m.exception \in e.exceptions
           /\ m.module \in e.modules \/ m.interaction \in e.interactions
      /\ e.issue = "32683" =>
           \/ /\ m.exception \in e.exceptions
              /\ m.symbol \in e.symbols \/ m.module \in e.modules \/ m.offset \in e.offsets
           \/ m.symbol \in e.symbols /\ (m.module \in e.modules \/ m.offset \in e.offsets)
  <2>1. Raw(e, fp) \in Nat
    BY <1>1, RawBounds
  <2> QED
    BY <1>1, <1>2, <2>1, RawBounds DEF Diag!HighThreshold, m
<1>4. CASE e.issue = "32094"
  BY <1>4, SurvivorsAreMarked DEF m
<1>5. CASE e.issue = "33710"
  <2>1. e.interactions \cap Diag!Shared = {}
    <3>1. e.interactions = {"link_click", "button_click"}
      BY <1>1, <1>5, Families
    <3>2. None \notin e.interactions
      BY <1>1 DEF Diag!SoundIncidents
    <3> QED
      BY <3>1, <3>2 DEF Diag!Shared
  <2>2. "exception" \in Diag!MarksOf(e, m)
    BY <1>1, <1>3, <1>5, Marks
  <2>3. "module" \in Diag!MarksOf(e, m) \/ "interaction" \in Diag!MarksOf(e, m)
    BY <1>1, <1>3, <1>5, <2>1, Marks
  <2> QED
    BY <2>2, <2>3
<1>6. CASE e.issue = "32683"
  <2>1. CASE m.exception \in e.exceptions /\ (m.symbol \in e.symbols \/ m.module \in e.modules \/ m.offset \in e.offsets)
    <3>1. "exception" \in Diag!MarksOf(e, m)
      BY <1>1, <2>1, Marks
    <3>2. "symbol" \in Diag!MarksOf(e, m) \/ "module" \in Diag!MarksOf(e, m) \/ "offset" \in Diag!MarksOf(e, m)
      BY <1>1, <2>1, Marks
    <3> QED
      BY <3>1, <3>2
  <2>2. CASE m.symbol \in e.symbols /\ (m.module \in e.modules \/ m.offset \in e.offsets)
    <3>1. "symbol" \in Diag!MarksOf(e, m)
      BY <1>1, <2>2, Marks
    <3>2. "module" \in Diag!MarksOf(e, m) \/ "offset" \in Diag!MarksOf(e, m)
      BY <1>1, <2>2, Marks
    <3> QED
      BY <3>1, <3>2
  <2> QED
    BY <1>3, <1>6, <2>1, <2>2
<1> QED
  BY <1>1, <1>3, <1>4, <1>5, <1>6, Families

-----------------------------------------------------------------------------
(* The classification. *)

LEMMA ClassifiedIs ==
  ASSUME Diag!SoundIncidents, NEW fp, NEW p, NEW c \in Diag!Classifications(fp, p)
  PROVE  /\ c.state \in {"INCONCLUSIVE", "HIGH_CONFIDENCE_MATCH", "ISSUE_CANDIDATE"}
         /\ c.user \in {"INCONCLUSIVE", "UPSTREAM_BLOCKED"}
         /\ \/ c.candidates = << >>
            \/ /\ c.candidates = [n \in DOMAIN Diag!Ranked(fp, p) |-> Diag!Ranked(fp, p)[n].issue]
               /\ ~(Diag!Meta(fp).probe /\ ~Diag!Meta(fp).isolation)
         /\ c.state # "INCONCLUSIVE" <=> c.family # None
         /\ c.family # None =>
              /\ Diag!Ranked(fp, p) # << >> /\ c.family = Diag!Ranked(fp, p)[1].issue
              /\ c.candidates = [n \in DOMAIN Diag!Ranked(fp, p) |-> Diag!Ranked(fp, p)[n].issue]
         /\ c.state = "HIGH_CONFIDENCE_MATCH" => Diag!Score(Diag!Ranked(fp, p)[1], fp, p) >= Diag!HighThreshold
<1> DEFINE r == Diag!Ranked(fp, p)
           names(s) == [n \in DOMAIN s |-> s[n].issue]
           nothing == Diag!Classified("INCONCLUSIVE", "INCONCLUSIVE", << >>, None)
           unclear == Diag!Classified("INCONCLUSIVE", "INCONCLUSIVE", r, None)
           state == IF Diag!Score(r[1], fp, p) >= Diag!HighThreshold THEN "HIGH_CONFIDENCE_MATCH" ELSE "ISSUE_CANDIDATE"
           clear == Diag!Classified(state, IF r[1].fix_linked THEN "DIAGNOSIS_COMPLETE" ELSE "UPSTREAM_BLOCKED",
                               r, r[1].issue)
<1>1. names(<< >>) = << >>
  OBVIOUS
<1>2. r \in Seq(Surviving(fp, p))
  BY InOrder
<1>3. r # << >> => r[1] \in Diag!Catalog
  BY <1>2 DEF Surviving
<1>4. \/ c = nothing
      \/ r # << >> /\ ~(Diag!Meta(fp).probe /\ ~Diag!Meta(fp).isolation) /\ c \in {unclear, clear}
  BY DEF Diag!Classifications, Diag!Verdicts
<1>5. nothing.state = "INCONCLUSIVE" /\ nothing.user = "INCONCLUSIVE" /\ nothing.family = None
      /\ nothing.candidates = << >>
  BY <1>1 DEF Diag!Classified
<1>6. unclear.state = "INCONCLUSIVE" /\ unclear.user = "INCONCLUSIVE" /\ unclear.family = None
      /\ unclear.candidates = names(r)
  BY DEF Diag!Classified
<1>7. clear.state = state /\ clear.family = r[1].issue /\ clear.candidates = names(r)
      /\ clear.user = IF r[1].fix_linked THEN "DIAGNOSIS_COMPLETE" ELSE "UPSTREAM_BLOCKED"
  BY DEF Diag!Classified
<1> HIDE DEF nothing, unclear, clear
<1>8. CASE c = nothing
  BY <1>5, <1>8
<1>9. CASE c = unclear /\ r # << >> /\ ~(Diag!Meta(fp).probe /\ ~Diag!Meta(fp).isolation)
  BY <1>6, <1>9
<1>10. CASE c = clear /\ r # << >> /\ ~(Diag!Meta(fp).probe /\ ~Diag!Meta(fp).isolation)
  <2>1. ~r[1].fix_linked /\ r[1].issue # None
    BY <1>3, <1>10, Families, NoneIsNoMark
  <2>2. state \in {"HIGH_CONFIDENCE_MATCH", "ISSUE_CANDIDATE"}
        /\ (state = "HIGH_CONFIDENCE_MATCH" => Diag!Score(r[1], fp, p) >= Diag!HighThreshold)
    OBVIOUS
  <2> HIDE DEF r, state
  <2>3. /\ c.state = state /\ c.family = r[1].issue /\ c.candidates = names(r) /\ c.user = "UPSTREAM_BLOCKED"
    BY <1>7, <1>10, <2>1
  <2> QED
    BY <1>10, <2>1, <2>2, <2>3 DEF r
<1> QED
  BY <1>4, <1>8, <1>9, <1>10

\* What a diagnosis is: a refusal, a component located by one of the three
\* measurements, nothing, or what the crash families make of it.
LEMMA Kinds ==
  ASSUME NEW a \in Diag!Diagnoses
  PROVE  \/ \E code : a = Diag!Fail(code)
         \/ /\ a = Diag!Located("plugin_cache", {<< "PLUGIN_CACHE_ENTRY", request.cache.says.measured >>}, {}, << >>)
            /\ Diag!Cache!Observed(request.cache.doc) = "observed"
            /\ Diag!Cache!Classify(request.cache.says) # Diag!Cache!NoMechanism
         \/ a = Diag!Inconclusive({<< "PLUGIN_CACHE_ENTRY", request.cache.says.measured >>}, {})
         \/ LET hashes == Diag!Measured(request.artifact)
                asts   == Diag!Signatures(request.artifact, request.incident)
            IN  \/ a = Diag!Located("artifact", hashes, asts, << "32925" >>) /\ asts # {}
                \/ a = Diag!Located("config", hashes, asts, << "33790" >>) /\ request.config = "fault"
                \/ a = Diag!Inconclusive(hashes, asts)
                \/ \E c \in Diag!Classifications(request.incident, request.preferred) :
                     a = [Diag!Answer(TRUE, None, c.state, c.user, None, hashes, asts, c.candidates)
                            EXCEPT !.family = c.family]
<1>1. Diag!Cache!Observed(request.cache.doc) \in {"refused", "not_a_target", "observed"}
  BY DEF Diag!Cache!Observed
<1>2. CASE a \in Diag!Localized(request.incident, request.artifact, request.config, request.preferred)
  BY <1>2 DEF Diag!Localized
<1>3. CASE a \notin Diag!Localized(request.incident, request.artifact, request.config, request.preferred)
  BY <1>1, <1>3 DEF Diag!Diagnoses
<1> QED
  BY <1>2, <1>3

LEMMA DiagInit == Diag!Init => DiagInv
BY DEF Diag!Init, DiagInv

LEMMA DiagStep == DiagInv /\ [Diag!Next]_(Diag!vars) => DiagInv'
<1> SUFFICES ASSUME DiagInv, [Diag!Next]_(Diag!vars) PROVE DiagInv'
  OBVIOUS
<1>1. CASE Diag!Diagnose
  BY <1>1 DEF Diag!Diagnose, DiagInv, Diag!Diagnoses
<1>2. CASE UNCHANGED Diag!vars
  BY <1>2 DEF Diag!vars, DiagInv, Diag!Diagnoses
<1> QED
  BY <1>1, <1>2 DEF Diag!Next

LEMMA DiagLocated == Diag!SoundIncidents /\ DiagInv => Diag!LocatedIsMeasured
<1> SUFFICES ASSUME Diag!SoundIncidents, result \in Diag!Diagnoses PROVE Diag!LocatedIsMeasured
  BY DEF DiagInv, Diag!LocatedIsMeasured
<1> DEFINE hashes == Diag!Measured(request.artifact)
           asts   == Diag!Signatures(request.artifact, request.incident)
<1>1. \A h \in hashes : h[2] = request.artifact.sha
  BY DEF Diag!Measured
<1>2. asts # {} => request.artifact.status = "present" /\ request.artifact.blocks = 1
  BY DEF Diag!Signatures
<1>3. << "PLUGIN_CACHE_ENTRY", request.cache.says.measured >>[2] = request.cache.says.measured
  OBVIOUS
<1> HIDE DEF hashes, asts
<1>4. CASE \E code : result = Diag!Fail(code)
  BY <1>4 DEF Diag!Fail, Diag!Answer, Diag!LocatedIsMeasured
<1>5. CASE /\ result = Diag!Located("plugin_cache", {<< "PLUGIN_CACHE_ENTRY", request.cache.says.measured >>}, {}, << >>)
           /\ Diag!Cache!Observed(request.cache.doc) = "observed"
           /\ Diag!Cache!Classify(request.cache.says) # Diag!Cache!NoMechanism
  <2>1. \A d \in Diag!Cache!Documents : request.cache.doc[d] # "refused"
    BY <1>5 DEF Diag!Cache!Observed
  <2>2. LET c == request.cache.says
        IN  ~c.dependency_install_failure /\ ~Diag!Cache!Healthy(c)
    BY <1>5 DEF Diag!Cache!Classify
  <2>3. LET c == request.cache.says
        IN  ~c.dependency_install_failure /\ (c.measured = c.trusted => c.trusted # c.rebuild \/ c.trusted # c.expected)
    BY <2>2 DEF Diag!Cache!Healthy, Diag!Cache!TrustedMatchesManifest
  <2>4. result.by = "plugin_cache" /\ result.asts = {}
        /\ result.hashes = {<< "PLUGIN_CACHE_ENTRY", request.cache.says.measured >>}
    BY <1>5 DEF Diag!Located, Diag!Answer
  <2> QED
    BY <1>3, <2>1, <2>3, <2>4 DEF Diag!LocatedIsMeasured
<1>6. CASE result = Diag!Inconclusive({<< "PLUGIN_CACHE_ENTRY", request.cache.says.measured >>}, {})
  BY <1>3, <1>6 DEF Diag!Inconclusive, Diag!Answer, Diag!LocatedIsMeasured
<1>7. CASE result = Diag!Located("artifact", hashes, asts, << "32925" >>) /\ asts # {}
  BY <1>1, <1>2, <1>7 DEF Diag!Located, Diag!Answer, Diag!LocatedIsMeasured
<1>8. CASE result = Diag!Located("config", hashes, asts, << "33790" >>) /\ request.config = "fault"
  BY <1>1, <1>2, <1>8 DEF Diag!Located, Diag!Answer, Diag!LocatedIsMeasured
<1>9. CASE result = Diag!Inconclusive(hashes, asts)
  BY <1>1, <1>2, <1>9 DEF Diag!Inconclusive, Diag!Answer, Diag!LocatedIsMeasured
<1>10. CASE \E c \in Diag!Classifications(request.incident, request.preferred) :
              result = [Diag!Answer(TRUE, None, c.state, c.user, None, hashes, asts, c.candidates) EXCEPT !.family = c.family]
  <2>1. PICK c \in Diag!Classifications(request.incident, request.preferred) :
              result = [Diag!Answer(TRUE, None, c.state, c.user, None, hashes, asts, c.candidates) EXCEPT !.family = c.family]
    BY <1>10
  <2>2. result.state = c.state /\ result.hashes = hashes /\ result.asts = asts
    BY <2>1 DEF Diag!Answer
  <2>3. c.state # "SOURCE_COMPONENT_LOCATED"
    BY ClassifiedIs
  <2> QED
    BY <1>1, <1>2, <2>2, <2>3 DEF Diag!LocatedIsMeasured
<1> QED
  BY <1>4, <1>5, <1>6, <1>7, <1>8, <1>9, <1>10, Kinds DEF hashes, asts

\* The same, whatever was measured.
LEMMA Shapes ==
  ASSUME NEW a \in Diag!Diagnoses
  PROVE  \/ \E code : a = Diag!Fail(code)
         \/ \E by \in {"plugin_cache", "artifact", "config"} : \E hs, as, cs : a = Diag!Located(by, hs, as, cs)
         \/ \E hs, as : a = Diag!Inconclusive(hs, as)
         \/ \E hs, as : \E c \in Diag!Classifications(request.incident, request.preferred) :
               a = [Diag!Answer(TRUE, None, c.state, c.user, None, hs, as, c.candidates) EXCEPT !.family = c.family]
<1> DEFINE hashes == Diag!Measured(request.artifact)
           asts   == Diag!Signatures(request.artifact, request.incident)
           cached == {<< "PLUGIN_CACHE_ENTRY", request.cache.says.measured >>}
<1>1. \/ \E code : a = Diag!Fail(code)
      \/ a = Diag!Located("plugin_cache", cached, {}, << >>)
      \/ a = Diag!Inconclusive(cached, {})
      \/ a = Diag!Located("artifact", hashes, asts, << "32925" >>)
      \/ a = Diag!Located("config", hashes, asts, << "33790" >>)
      \/ a = Diag!Inconclusive(hashes, asts)
      \/ \E c \in Diag!Classifications(request.incident, request.preferred) :
           a = [Diag!Answer(TRUE, None, c.state, c.user, None, hashes, asts, c.candidates) EXCEPT !.family = c.family]
  BY Kinds
<1> HIDE DEF hashes, asts, cached
<1>2. CASE a = Diag!Located("plugin_cache", cached, {}, << >>)
  BY <1>2
<1>3. CASE a = Diag!Located("artifact", hashes, asts, << "32925" >>)
  BY <1>3
<1>4. CASE a = Diag!Located("config", hashes, asts, << "33790" >>)
  BY <1>4
<1>5. CASE a = Diag!Inconclusive(cached, {})
  BY <1>5
<1>6. CASE a = Diag!Inconclusive(hashes, asts)
  BY <1>6
<1> QED
  BY <1>1, <1>2, <1>3, <1>4, <1>5, <1>6, Zenon

\* What a diagnosis located by nothing carries.
LEMMA Unlocated ==
  ASSUME Diag!SoundIncidents, result \in Diag!Diagnoses, result.by = None
  PROVE  \/ /\ result.candidates = << >> /\ result.state = "INCONCLUSIVE" /\ result.user = "INCONCLUSIVE"
            /\ result.family = None
         \/ /\ result.ok
            /\ \E c \in Diag!Classifications(request.incident, request.preferred) :
                 /\ result.state = c.state /\ result.user = c.user
                 /\ result.candidates = c.candidates /\ result.family = c.family
<1>1. CASE \E code : result = Diag!Fail(code)
  BY <1>1 DEF Diag!Fail, Diag!Answer
<1>2. ASSUME NEW by \in {"plugin_cache", "artifact", "config"}, NEW hs, NEW as, NEW cs, result = Diag!Located(by, hs, as, cs)
      PROVE  FALSE
  BY <1>2 DEF Diag!Located, Diag!Answer, Diag!SoundIncidents
<1>3. ASSUME NEW hs, NEW as, result = Diag!Inconclusive(hs, as)
      PROVE  result.candidates = << >> /\ result.state = "INCONCLUSIVE" /\ result.user = "INCONCLUSIVE"
             /\ result.family = None
  BY <1>3 DEF Diag!Inconclusive, Diag!Answer
<1>5. CASE \E by \in {"plugin_cache", "artifact", "config"} : \E hs, as, cs : result = Diag!Located(by, hs, as, cs)
  BY <1>2, <1>5
<1>6. CASE \E hs, as : result = Diag!Inconclusive(hs, as)
  BY <1>3, <1>6
<1>7. CASE \E hs, as : \E c \in Diag!Classifications(request.incident, request.preferred) :
             result = [Diag!Answer(TRUE, None, c.state, c.user, None, hs, as, c.candidates) EXCEPT !.family = c.family]
  <2>1. PICK hs, as : \E c \in Diag!Classifications(request.incident, request.preferred) :
             result = [Diag!Answer(TRUE, None, c.state, c.user, None, hs, as, c.candidates) EXCEPT !.family = c.family]
    BY <1>7
  <2>2. PICK c \in Diag!Classifications(request.incident, request.preferred) :
             result = [Diag!Answer(TRUE, None, c.state, c.user, None, hs, as, c.candidates) EXCEPT !.family = c.family]
    BY <2>1
  <2>3. /\ result.ok /\ result.state = c.state /\ result.user = c.user
        /\ result.candidates = c.candidates /\ result.family = c.family
    BY <2>2 DEF Diag!Answer
  <2> QED
    BY <2>3
<1> QED
  BY <1>1, <1>5, <1>6, <1>7, Shapes

LEMMA DiagRefused == Diag!SoundIncidents /\ DiagInv => Diag!RefusalsClaimNothing
<1> SUFFICES ASSUME Diag!SoundIncidents, result \in Diag!Diagnoses, ~result.ok
             PROVE  result.candidates = << >> /\ result.state = "INCONCLUSIVE" /\ result.hashes = {}
  BY DEF DiagInv, Diag!RefusalsClaimNothing
<1>1. ASSUME NEW code, result = Diag!Fail(code)
      PROVE  result.candidates = << >> /\ result.state = "INCONCLUSIVE" /\ result.hashes = {}
  BY <1>1 DEF Diag!Fail, Diag!Answer
<1>2. ASSUME NEW by, NEW hs, NEW as, NEW cs, result = Diag!Located(by, hs, as, cs)
      PROVE  FALSE
  BY <1>2 DEF Diag!Located, Diag!Answer
<1>3. ASSUME NEW hs, NEW as, result = Diag!Inconclusive(hs, as)
      PROVE  FALSE
  BY <1>3 DEF Diag!Inconclusive, Diag!Answer
<1>4. ASSUME NEW hs, NEW as, NEW c,
             result = [Diag!Answer(TRUE, None, c.state, c.user, None, hs, as, c.candidates) EXCEPT !.family = c.family]
      PROVE  FALSE
  BY <1>4 DEF Diag!Answer
<1>5. ~\E by \in {"plugin_cache", "artifact", "config"} : \E hs, as, cs : result = Diag!Located(by, hs, as, cs)
  BY <1>2, Zenon
<1>6. ~\E hs, as : result = Diag!Inconclusive(hs, as)
  BY <1>3, Zenon
<1>7. ~\E hs, as : \E c \in Diag!Classifications(request.incident, request.preferred) :
         result = [Diag!Answer(TRUE, None, c.state, c.user, None, hs, as, c.candidates) EXCEPT !.family = c.family]
  BY <1>4, Zenon
<1>8. PICK code : result = Diag!Fail(code)
  BY <1>5, <1>6, <1>7, Shapes
<1> QED
  BY <1>1, <1>8

\* The n-th candidate names the n-th survivor.
LEMMA CandidateIs ==
  ASSUME Diag!SoundIncidents, NEW fp, NEW p, NEW n \in DOMAIN Diag!Ranked(fp, p)
  PROVE  /\ Diag!Ranked(fp, p)[n] \in Surviving(fp, p)
         /\ Diag!Ranked(fp, p)[n] \in Diag!Catalog
         /\ (CHOOSE x \in Diag!Catalog : x.issue = Diag!Ranked(fp, p)[n].issue) = Diag!Ranked(fp, p)[n]
<1>1. Diag!Ranked(fp, p)[n] \in Surviving(fp, p)
  BY InOrder
<1>2. Diag!Ranked(fp, p)[n] \in Diag!Catalog
  BY <1>1 DEF Surviving
<1>3. \A x \in Diag!Catalog : x.issue = Diag!Ranked(fp, p)[n].issue => x = Diag!Ranked(fp, p)[n]
  BY <1>2, IssueDecides
<1> QED
  BY <1>1, <1>2, <1>3

LEMMA DiagMechanism == Diag!SoundIncidents /\ DiagInv => Diag!CandidatesHaveMechanism
<1> DEFINE fp == request.incident
           r == Diag!Ranked(fp, request.preferred)
<1> SUFFICES ASSUME Diag!SoundIncidents, result \in Diag!Diagnoses, result.by = None, NEW n \in DOMAIN result.candidates
             PROVE  LET e == CHOOSE x \in Diag!Catalog : x.issue = result.candidates[n]
                        m == Diag!Meta(fp)
                    IN  /\ fp.os = "windows"
                        /\ fp.surface \in {"desktop", "browser_control"}
                        /\ Diag!MarksOf(e, m) # {}
                        /\ e.issue = "32094" => "gpu" \in Diag!MarksOf(e, m)
                        /\ e.issue = "33762" => m.page = "complex_login"
  BY DEF DiagInv, Diag!CandidatesHaveMechanism
<1>1. result.candidates # << >>
  OBVIOUS
<1>2. result.candidates = [k \in DOMAIN r |-> r[k].issue]
  BY <1>1, Unlocated, ClassifiedIs
<1>3. n \in DOMAIN r /\ result.candidates[n] = r[n].issue
  BY <1>2
<1> HIDE DEF r
<1>4. r[n] \in Surviving(fp, request.preferred) /\ (CHOOSE x \in Diag!Catalog : x.issue = r[n].issue) = r[n]
  BY <1>3, CandidateIs DEF r
<1>5. (CHOOSE x \in Diag!Catalog : x.issue = result.candidates[n]) = r[n]
  BY <1>3, <1>4
<1> HIDE DEF fp
<1> QED
  BY <1>4, <1>5, SurvivorsAreMarked

LEMMA DiagConfident == Diag!SoundIncidents /\ DiagInv => Diag!ConfidenceIsEarned
<1> DEFINE fp == request.incident
           m == Diag!Meta(fp)
           r == Diag!Ranked(fp, request.preferred)
<1> SUFFICES ASSUME Diag!SoundIncidents, result \in Diag!Diagnoses, result.by = None PROVE Diag!ConfidenceIsEarned
  BY DEF DiagInv, Diag!ConfidenceIsEarned
<1>1. CASE /\ result.candidates = << >> /\ result.state = "INCONCLUSIVE" /\ result.user = "INCONCLUSIVE"
           /\ result.family = None
  BY <1>1 DEF Diag!ConfidenceIsEarned
<1>2. ASSUME NEW c \in Diag!Classifications(fp, request.preferred),
             result.state = c.state, result.user = c.user, result.candidates = c.candidates, result.family = c.family
      PROVE  Diag!ConfidenceIsEarned
  <2> DEFINE names == [k \in DOMAIN r |-> r[k].issue]
  <2>1. /\ c.state \in {"INCONCLUSIVE", "HIGH_CONFIDENCE_MATCH", "ISSUE_CANDIDATE"}
        /\ c.user \in {"INCONCLUSIVE", "UPSTREAM_BLOCKED"}
        /\ c.candidates = << >> \/ (c.candidates = names /\ ~(m.probe /\ ~m.isolation))
        /\ c.state # "INCONCLUSIVE" <=> c.family # None
        /\ c.family # None => r # << >> /\ c.family = r[1].issue /\ c.candidates = names
        /\ c.state = "HIGH_CONFIDENCE_MATCH" => Diag!Score(r[1], fp, request.preferred) >= Diag!HighThreshold
    BY ClassifiedIs
  <2>2. r \in Seq(Surviving(fp, request.preferred))
    BY InOrder
  <2>3. ~Diag!Structural(m) => c.candidates = << >>
    <3>1. SUFFICES ASSUME c.candidates # << >> PROVE Diag!Structural(m)
      OBVIOUS
    <3>2. c.candidates = names
      BY <2>1, <3>1
    <3>3. r # << >>
      BY <3>1, <3>2
    <3>4. r[1] \in Surviving(fp, request.preferred)
      BY <2>2, <3>3
    <3> HIDE DEF r, m, fp
    <3> QED
      BY <3>4, SurvivorsAreMarked DEF m
  <2>4. r # << >> => 1 \in DOMAIN r /\ names[1] = r[1].issue /\ r[1] \in Surviving(fp, request.preferred)
    BY <2>2
  <2>5. ASSUME c.state = "HIGH_CONFIDENCE_MATCH"
        PROVE  \E e \in Diag!Catalog : /\ e.issue = c.family /\ Diag!MarksOf(e, m) # {}
                                       /\ e.issue \notin request.preferred => Cardinality(Diag!MarksOf(e, m)) >= 2
    <3>1. r # << >> /\ c.family = r[1].issue /\ Diag!Score(r[1], fp, request.preferred) >= Diag!HighThreshold
      BY <2>1, <2>5
    <3>2. r[1] \in Surviving(fp, request.preferred)
      BY <2>4, <3>1
    <3>3. r[1] \in Diag!Catalog /\ Diag!MarksOf(r[1], Diag!Meta(fp)) # {}
      BY <3>2, SurvivorsAreMarked
    <3>4. r[1].issue \notin request.preferred => Cardinality(Diag!MarksOf(r[1], Diag!Meta(fp))) >= 2
      BY <3>1, <3>2, HighHasTwoMarks
    <3> QED
      BY <3>1, <3>3, <3>4
  <2> HIDE DEF r, m, fp, names
  <2>6. /\ c.state \in {"HIGH_CONFIDENCE_MATCH", "ISSUE_CANDIDATE"} <=> c.family # None
        /\ c.family # None => c.family = c.candidates[1]
        /\ m.probe /\ ~m.isolation => c.candidates = << >>
        /\ c.user # "DIAGNOSIS_COMPLETE"
    BY <2>1, <2>4
  <2> QED
    BY <1>2, <2>3, <2>5, <2>6, DiagCounts DEF Diag!ConfidenceIsEarned, m, fp
<1> QED
  BY <1>1, <1>2, Unlocated

LEMMA DiagNudged == Diag!SoundIncidents /\ DiagInv => Diag!PreferenceOnlyNudges
<1> DEFINE fp == request.incident
           r == Diag!Ranked(fp, request.preferred)
           S == Surviving(fp, request.preferred)
           At(n) == Diag!Score(CHOOSE x \in Diag!Catalog : x.issue = result.candidates[n], fp, {})
<1> SUFFICES ASSUME Diag!SoundIncidents, result \in Diag!Diagnoses, result.by = None,
                    NEW i \in DOMAIN result.candidates, NEW j \in DOMAIN result.candidates, i < j
             PROVE  At(i) + 3 >= At(j)
  BY DEF DiagInv, Diag!PreferenceOnlyNudges
<1>1. result.candidates # << >>
  OBVIOUS
<1>2. result.candidates = [k \in DOMAIN r |-> r[k].issue]
  BY <1>1, Unlocated, ClassifiedIs
<1>3. /\ i \in DOMAIN r /\ result.candidates[i] = r[i].issue
      /\ j \in DOMAIN r /\ result.candidates[j] = r[j].issue
  BY <1>2
<1> HIDE DEF r, fp, S
<1>4. /\ r[i] \in S /\ r[i] \in Diag!Catalog /\ At(i) = Diag!Score(r[i], fp, {})
      /\ r[j] \in S /\ r[j] \in Diag!Catalog /\ At(j) = Diag!Score(r[j], fp, {})
  <2>1. r[i] \in S /\ r[i] \in Diag!Catalog /\ (CHOOSE x \in Diag!Catalog : x.issue = r[i].issue) = r[i]
    BY <1>3, CandidateIs DEF r, S
  <2>2. r[j] \in S /\ r[j] \in Diag!Catalog /\ (CHOOSE x \in Diag!Catalog : x.issue = r[j].issue) = r[j]
    BY <1>3, CandidateIs DEF r, S
  <2> QED
    BY <1>3, <2>1, <2>2
<1>5. Diag!Place(r[i], S, fp, request.preferred) = i /\ Diag!Place(r[j], S, fp, request.preferred) = j
  BY <1>3, InOrder DEF r, S
<1>6. S \subseteq Diag!Catalog
  BY DEF S, Surviving
<1>7. Diag!Before(r[i], r[j], fp, request.preferred)
  BY <1>4, <1>5, <1>6, PlacesAreInOrder
<1>8. r[i].issue # r[j].issue
  <2>1. r \in Seq(S)
    BY InOrder DEF r, S
  <2>2. i # j
    BY <1>3, <2>1
  <2> QED
    BY <1>4, <1>5, <2>2, IssueDecides
<1>9. Diag!Score(r[i], fp, request.preferred) >= Diag!Score(r[j], fp, request.preferred)
  BY <1>4, <1>7, Scores DEF Diag!Before
<1> HIDE DEF At
<1> QED
  BY <1>4, <1>8, <1>9, Nudged

-----------------------------------------------------------------------------
(***************************************************************************)
(* PageAnalysis, whatever the page says and whatever a transport brings.   *)
(***************************************************************************)
LEMMA PageCounts == \A S : Page!Cardinality(S) = Cardinality(S)
BY Zenon DEF Cardinality, IsFiniteSet, Page!Cardinality, Page!IsFiniteSet

LEMMA PageInit == Page!Init => PageInv
BY DEF Page!Init, PageInv

LEMMA PageStep == PageInv /\ [Page!Next]_(Page!vars) => PageInv'
<1> SUFFICES ASSUME PageInv, [Page!Next]_(Page!vars) PROVE PageInv'
  OBVIOUS
<1>1. CASE Page!Analyze
  BY <1>1 DEF PageInv, Page!Analyze
<1>2. CASE UNCHANGED Page!vars
  BY <1>2 DEF PageInv, Page!vars
<1> QED
  BY <1>1, <1>2 DEF Page!Next

\* Of a page that was read, the answer is the verdict on what was merged.
LEMMA AnalysisIs ==
  ASSUME PageInv, Page!Analyzed
  PROVE  /\ Page!FirstDefect(request.envelope) = None
         /\ result.page = Page!Merged(request) /\ result.verdict = Page!Verdict(result.page, request.local)
         /\ result.candidates = Page!Candidates(result.page)
BY DEF PageInv, Page!Analyzed, Page!Analysis

\* Without a structure in common there are no structural hits.
LEMMA NoHits ==
  ASSUME NEW e, NEW l, Page!Symbols(e) \cap (l.ast \cup l.symbols) = {},
         ~(l.protected /\ Page!Errors(e) \cap Page!SaysProtected # {})
  PROVE  Page!StructuralHits(e, l) = 0
<1>1. Page!Matching(e, l) = {} /\ Cardinality(Page!Matching(e, l)) = 0
  BY FS_EmptySet DEF Page!Matching
<1>2. "process-shim" \notin Page!Symbols(e) \cap l.ast
  OBVIOUS
<1>3. l.protected => Cardinality(Page!Errors(e) \cap Page!SaysProtected) = 0
  BY FS_EmptySet
<1>4. (IF l.protected THEN Cardinality(Page!Errors(e) \cap Page!SaysProtected) ELSE 0) = 0
  BY <1>3
<1> QED
  BY <1>1, <1>2, <1>4, PageCounts DEF Page!StructuralHits

\* A page is taken for one about the problem only past every refutation.
LEMMA TakenIs ==
  ASSUME NEW e, NEW l, NEW hits, NEW error, NEW candidates,
         Page!Compare(e, l, hits, error, candidates).applicability = "applicable_candidate"
  PROVE  /\ ~Page!OutOfScope(e) /\ l # None /\ ~Page!WrongPlatform(e, l) /\ ~Page!WrongSurface(e, l)
         /\ ~(hits = 0 /\ ~error)
         /\ Page!Compare(e, l, hits, error, candidates).confidence \in {"low", "medium"}
         /\ Page!Compare(e, l, hits, error, candidates).eligible => hits > 0
<1>1. \A applicability, risk : Page!Refuted(applicability, risk).applicability = applicability
  BY DEF Page!Refuted
<1>2. ~Page!OutOfScope(e)
  BY <1>1 DEF Page!Compare
<1>3. l # None
  BY <1>1, <1>2 DEF Page!Compare
<1>4. ~Page!WrongPlatform(e, l)
  BY <1>1, <1>2, <1>3 DEF Page!Compare
<1>5. ~Page!WrongSurface(e, l)
  BY <1>1, <1>2, <1>3, <1>4 DEF Page!Compare
<1>6. ~(hits = 0 /\ ~error)
  BY <1>1, <1>2, <1>3, <1>4, <1>5 DEF Page!Compare
<1>7. Page!Compare(e, l, hits, error, candidates).confidence = IF hits >= 2 /\ error THEN "medium" ELSE "low"
  BY <1>2, <1>3, <1>4, <1>5, <1>6 DEF Page!Compare
<1>8. Page!Compare(e, l, hits, error, candidates).eligible = (hits > 0 /\ \E c \in candidates : c.eligible)
  BY <1>2, <1>3, <1>4, <1>5, <1>6 DEF Page!Compare
<1> QED
  BY <1>2, <1>3, <1>4, <1>5, <1>6, <1>7, <1>8

LEMMA PageEarned == PageInv => Page!VerdictIsEarned
<1> DEFINE e == result.page
           l == request.local
           hits == IF l = None THEN 0 ELSE Page!StructuralHits(e, l)
           error == l # None /\ Page!ErrorHit(e, l)
<1> SUFFICES ASSUME PageInv, Page!Analyzed, result.verdict.applicability = "applicable_candidate"
             PROVE  LET structure == \/ Page!Symbols(e) \cap (l.ast \cup l.symbols) # {}
                                     \/ (l.protected /\ Page!Errors(e) \cap Page!SaysProtected # {})
                    IN  /\ e.host \notin AccountHosts
                        /\ Page!Platform(e) \in {None, l.os} \/ l.os \in {None, "unknown"}
                        /\ Page!Surface(e) \in {None, l.surface} \/ {Page!Surface(e), l.surface} \subseteq Page!Adjacent
                             \/ l.surface \in {None, "unknown"}
                        /\ structure \/ Page!Errors(e) \cap l.errors # {}
                        /\ result.verdict.confidence \in {"low", "medium"}
                        /\ result.verdict.eligible => structure
  BY DEF Page!VerdictIsEarned
<1>1. result.verdict = Page!Compare(e, l, hits, error, Page!Candidates(e))
  BY AnalysisIs DEF Page!Verdict
<1> HIDE DEF e, l, hits, error
<1>2. /\ ~Page!OutOfScope(e) /\ l # None /\ ~Page!WrongPlatform(e, l) /\ ~Page!WrongSurface(e, l)
      /\ ~(hits = 0 /\ ~error)
      /\ result.verdict.confidence \in {"low", "medium"}
      /\ result.verdict.eligible => hits > 0
  BY <1>1, TakenIs
<1>3. e.host \notin AccountHosts
  BY <1>2 DEF Page!OutOfScope
<1>4. Page!Platform(e) \in {None, l.os} \/ l.os \in {None, "unknown"}
  BY <1>2 DEF Page!WrongPlatform
<1>5. Page!Surface(e) \in {None, l.surface} \/ {Page!Surface(e), l.surface} \subseteq Page!Adjacent \/ l.surface \in {None, "unknown"}
  BY <1>2 DEF Page!WrongSurface
<1>6. (Page!Symbols(e) \cap (l.ast \cup l.symbols) = {} /\ ~(l.protected /\ Page!Errors(e) \cap Page!SaysProtected # {})) => hits = 0
  BY NoHits DEF hits
<1>7. error => Page!Errors(e) \cap l.errors # {} \/ (l.protected /\ Page!Errors(e) \cap Page!SaysProtected # {})
  BY DEF error, Page!ErrorHit
<1> QED
  BY <1>2, <1>3, <1>4, <1>5, <1>6, <1>7

LEMMA SameDecision ==
  ASSUME NEW e, NEW f, SameFindings(e, f), NEW l
  PROVE  /\ Page!Verdict(e, l).confidence = Page!Verdict(f, l).confidence
         /\ Page!Verdict(e, l).confidence = "none" => ~Page!Verdict(e, l).eligible
         /\ Page!Lines(e) = Page!Lines(f) =>
              [Page!Verdict(e, l) EXCEPT !.risk = Page!Verdict(f, l).risk] = Page!Verdict(f, l)
<1>1. Page!Platform(e) = Page!Platform(f) /\ Page!Surface(e) = Page!Surface(f)
  BY DEF SameFindings, Page!Platform, Page!Surface
<1>2. Page!OutOfScope(e) <=> Page!OutOfScope(f)
  BY <1>1 DEF SameFindings, Page!OutOfScope, Page!Codexy
<1>3. (Page!WrongPlatform(e, l) <=> Page!WrongPlatform(f, l)) /\ (Page!WrongSurface(e, l) <=> Page!WrongSurface(f, l))
  BY <1>1 DEF Page!WrongPlatform, Page!WrongSurface
<1>4. Page!StructuralHits(e, l) = Page!StructuralHits(f, l) /\ (Page!ErrorHit(e, l) <=> Page!ErrorHit(f, l))
  BY DEF SameFindings, Page!StructuralHits, Page!ErrorHit, Page!Matching
<1>5. Page!Symbols(e) = {} <=> Page!Symbols(f) = {}
  BY DEF SameFindings
<1>6. Page!Lines(e) = Page!Lines(f) => (Page!Candidates(e) = Page!Candidates(f) /\ (Page!Has(Page!Lines(e), "conclusion") <=> Page!Has(Page!Lines(f), "conclusion")))
  BY DEF Page!Candidates
<1> DEFINE hits == IF l = None THEN 0 ELSE Page!StructuralHits(e, l)
           error == l # None /\ Page!ErrorHit(e, l)
<1>7. Page!Verdict(e, l) = Page!Compare(e, l, hits, error, Page!Candidates(e)) /\ Page!Verdict(f, l) = Page!Compare(f, l, hits, error, Page!Candidates(f))
  BY <1>4 DEF Page!Verdict
<1> HIDE DEF hits, error
<1>8. CASE Page!OutOfScope(e)
  BY <1>2, <1>7, <1>8 DEF Page!Compare, Page!Refuted
<1>9. CASE ~Page!OutOfScope(e) /\ (l = None \/ Page!WrongPlatform(e, l) \/ Page!WrongSurface(e, l))
  <2>1. CASE l = None
    BY <1>2, <1>7, <1>9, <2>1 DEF Page!Compare, Page!Refuted
  <2>2. CASE l # None /\ Page!WrongPlatform(e, l)
    BY <1>2, <1>3, <1>7, <1>9, <2>2 DEF Page!Compare, Page!Refuted
  <2>3. CASE l # None /\ ~Page!WrongPlatform(e, l) /\ Page!WrongSurface(e, l)
    BY <1>2, <1>3, <1>7, <1>9, <2>3 DEF Page!Compare, Page!Refuted
  <2> QED
    BY <1>9, <2>1, <2>2, <2>3
<1>10. CASE ~Page!OutOfScope(e) /\ ~(l = None \/ Page!WrongPlatform(e, l) \/ Page!WrongSurface(e, l)) /\ hits = 0 /\ ~error
  BY <1>2, <1>3, <1>5, <1>6, <1>7, <1>10 DEF Page!Compare, Page!Refuted
<1>11. CASE ~Page!OutOfScope(e) /\ ~(l = None \/ Page!WrongPlatform(e, l) \/ Page!WrongSurface(e, l)) /\ ~(hits = 0 /\ ~error)
  BY <1>2, <1>3, <1>5, <1>6, <1>7, <1>11 DEF Page!Compare, Page!Refuted
<1> QED
  BY <1>8, <1>9, <1>10, <1>11

\* What is merged has the fields of a page.
LEMMA MergedIs ==
  ASSUME Page!SoundPages, request \in PageRequests
  PROVE  LET e == Page!Merged(request)
         IN  /\ {"title", "text", "host"} \subseteq DOMAIN e
             /\ Page!TextFields \subseteq DOMAIN e.title /\ Page!TextFields \subseteq DOMAIN e.text
BY DEF Page!SoundPages, Page!Merged

LEMMA PageProse == Page!SoundPages /\ PageInv => Page!ProseGainsNothing
<1> DEFINE page == result.page
<1> SUFFICES ASSUME Page!SoundPages, PageInv, Page!Analyzed
             PROVE  /\ \A e \in Page!More(page) :
                         /\ Page!Verdict(e, request.local).confidence = result.verdict.confidence
                         /\ Page!Verdict(e, request.local).confidence = "none" => ~Page!Verdict(e, request.local).eligible
                    /\ [Page!Verdict([page EXCEPT !.text.instruction = FALSE, !.title.instruction = FALSE], request.local)
                          EXCEPT !.risk = result.verdict.risk] = result.verdict
  BY DEF Page!ProseGainsNothing
<1>1. result.verdict = Page!Verdict(page, request.local)
  BY AnalysisIs
<1>2. /\ {"title", "text", "host"} \subseteq DOMAIN page
      /\ Page!TextFields \subseteq DOMAIN page.title /\ Page!TextFields \subseteq DOMAIN page.text
  BY AnalysisIs, MergedIs DEF PageInv
<1> HIDE DEF page
<1>3. ASSUME NEW e \in Page!More(page) PROVE SameFindings(e, page)
  <2>1. CASE e = [page EXCEPT !.text.instruction = TRUE]
    BY <1>2, <2>1 DEF SameFindings, Page!Words, Page!Symbols, Page!Errors, Page!TextFields
  <2>2. ASSUME NEW x, e = [page EXCEPT !.text.lines = Append(@, x)] PROVE SameFindings(e, page)
    BY <1>2, <2>2 DEF SameFindings, Page!Words, Page!Symbols, Page!Errors, Page!TextFields
  <2> QED
    BY <1>3, <2>1, <2>2 DEF Page!More
<1>4. LET e == [page EXCEPT !.text.instruction = FALSE, !.title.instruction = FALSE]
      IN  SameFindings(e, page) /\ Page!Lines(e) = Page!Lines(page)
  BY <1>2 DEF SameFindings, Page!Words, Page!Symbols, Page!Errors, Page!Lines, Page!TextFields
<1> QED
  BY <1>1, <1>3, <1>4, SameDecision

LEMMA PageClean == PageInv => Page!CandidatesAreClean
<1> SUFFICES ASSUME PageInv, Page!Analyzed, NEW c \in result.candidates, c.eligible
             PROVE  /\ c.kind = "exact_block_removal" /\ DOMAIN c.command \subseteq 1..MaxToken
                    /\ Page!Has(c.command, "shim") /\ ~Page!Has(c.command, "refused")
  BY DEF Page!CandidatesAreClean
<1> DEFINE kept == Page!Commands(Page!Lines(result.page))
<1>1. PICK d \in Page!Range(kept) : c = [command |-> d, kind |-> Page!Classify(d).kind, eligible |-> Page!Classify(d).eligible]
  BY AnalysisIs DEF Page!Candidates
<1>2. c.kind = "exact_block_removal" /\ Page!Has(c.command, "shim") /\ ~Page!Has(c.command, "refused")
  BY <1>1 DEF Page!Classify
<1>3. \E all : d = Page!Clip(all)
  BY <1>1 DEF Page!Range, Page!Commands
<1>4. DOMAIN d \subseteq 1..MaxToken
  BY <1>3 DEF Page!Clip
<1> QED
  BY <1>1, <1>2, <1>4

LEMMA PageFetched == PageInv => Page!FetchedAsApproved
<1> SUFFICES ASSUME PageInv, result # None
             PROVE  /\ result.calls > 0 => request.decision = "approved" /\ request.envelope.mode = "public" /\ result.ok
                    /\ (result.ok /\ result.calls = 0) => result.page = request.envelope
                    /\ ~result.ok => result.calls = 0 /\ result.verdict = None
  BY DEF Page!FetchedAsApproved
<1>1. result = Page!Analysis(request)
  BY DEF PageInv
<1> QED
  BY <1>1 DEF Page!Analysis, Page!Permitted, Page!Merged
==============================================================================
