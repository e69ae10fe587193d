--------------------------- MODULE ChannelsProofs ---------------------------
(***************************************************************************)
(* Proofs about the channels over the runs of the program (Channels), for  *)
(* every set of files, settings and limits, and about how a run ends: the  *)
(* teardown over the control thread they share (ControlLoop).              *)
(*                                                                         *)
(* Places stay apart because every operation chooses them so: the first    *)
(* free number, a swap, or a rank.  That the file brings back what was     *)
(* saved needs them apart: configs sorts by the cell, and only cells that  *)
(* differ put every channel into the file exactly once.                    *)
(***************************************************************************)
EXTENDS Channels, ControlLoop, FiniteSetTheorems, WellFoundedInduction, TLAPS

-----------------------------------------------------------------------------
(* Numbers, and ranks. *)

\* A set of numbers has a least one.
LEMMA LeastNumber ==
    ASSUME NEW T \in SUBSET Nat, T # {}
    PROVE  \E n \in T : \A m \in T : n <= m
<1>1. PICK n \in T : \A m \in T : ~(<<m, n>> \in OpToRel(<, Nat))
  BY NatLessThanWellFounded, WFMin
<1>2. \A m \in T : ~(m < n)
  BY <1>1 DEF OpToRel
<1> QED BY <1>2

\* nextGridIndex and nextListIndex find a place nobody has.
LEMMA FirstFreeIsFree ==
    ASSUME NEW taken \in SUBSET Nat, IsFiniteSet(taken)
    PROVE  FirstFree(taken) \in Nat /\ FirstFree(taken) \notin taken
<1> DEFINE T == (0 .. Cardinality(taken)) \ taken
<1>1. Cardinality(taken) \in Nat
  BY FS_CardinalityType
<1>2. T # {}
  <2> SUFFICES ASSUME 0 .. Cardinality(taken) \subseteq taken PROVE FALSE
    OBVIOUS
  <2>1. Cardinality(0 .. Cardinality(taken)) <= Cardinality(taken)
    BY FS_Subset
  <2>2. Cardinality(0 .. Cardinality(taken)) = Cardinality(taken) - 0 + 1
    BY <1>1, FS_Interval
  <2> QED BY <1>1, <2>1, <2>2
<1>3. PICK n \in T : \A m \in T : n <= m
  <2> HIDE DEF T
  <2>1. T \subseteq Nat
    BY <1>1 DEF T
  <2> QED BY <1>2, <2>1, LeastNumber
<1>4. n \in 0 .. Cardinality(taken) /\ n \notin taken /\ \A m \in 0 .. n - 1 : m \in taken
  BY <1>1, <1>3
<1> HIDE DEF T
<1> QED BY <1>1, <1>4 DEF FirstFree

\* There are finitely many ids.
LEMMA IdsAreFinite == IsFiniteSet(Ids)
<1>1. MaxId \in Nat
  BY ChannelsAssumption
<1> QED BY <1>1, FS_Interval DEF Ids

\* Numbers below a bound have a greatest one.
LEMMA GreatestNumber ==
    ASSUME NEW top \in Nat, NEW S \in SUBSET (0 .. top), S # {}
    PROVE  \E n \in S : \A m \in S : m <= n
<1> DEFINE T == {top - n : n \in S}
<1>1. T \in SUBSET Nat /\ T # {}
  <2>1. \A n \in S : top - n \in Nat
    OBVIOUS
  <2> QED BY <2>1
<1>2. PICK k \in T : \A l \in T : k <= l
  <2> HIDE DEF T
  <2> QED BY <1>1, LeastNumber
<1>3. PICK n \in S : k = top - n
  BY <1>2
<1>4. ASSUME NEW m \in S PROVE m <= n
  <2>1. top - m \in T
    OBVIOUS
  <2>2. top - n <= top - m
    BY <1>2, <1>3, <2>1
  <2> QED BY <2>2
<1> QED BY <1>4

\* The ids have a greatest one, or are none.
LEMMA GreatestId ==
    ASSUME NEW S \in SUBSET Ids
    PROVE  \E n \in S \cup {0} : \A m \in S : m <= n
<1>1. MaxId \in Nat
  BY ChannelsAssumption
<1>2. S \cup {0} \in SUBSET (0 .. MaxId) /\ S \cup {0} # {}
  BY <1>1 DEF Ids
<1>3. \E n \in S \cup {0} : \A m \in S \cup {0} : m <= n
  BY <1>1, <1>2, GreatestNumber
<1> QED BY <1>3

\* nextIdNumber finds an id nobody has.
LEMMA NextIdIsNew ==
    ASSUME DOMAIN entries \subseteq Ids
    PROVE  NextIdNumber \in Nat \ {0} /\ NextIdNumber \notin DOMAIN entries
<1> DEFINE n == CHOOSE n \in DOMAIN entries \cup {0} : \A id \in DOMAIN entries : id <= n
<1>1. n \in DOMAIN entries \cup {0} /\ \A id \in DOMAIN entries : id <= n
  BY GreatestId
<1>2. n \in Nat
  BY <1>1 DEF Ids
<1>3. NextIdNumber = 1 + n
  BY DEF NextIdNumber
<1> HIDE DEF n
<1>4. \A id \in DOMAIN entries : id \in Int /\ id < NextIdNumber
  BY <1>1, <1>2, <1>3 DEF Ids
<1> QED BY <1>2, <1>3, <1>4

\* The members of D before id, by a number each has for itself.
Lower(D, key, id) == {e \in D : key[e] < key[id]}
\* Their number ranks the members: 0, 1, 2 and so on, each once.
LEMMA RanksAreNumbers ==
    ASSUME NEW D, IsFiniteSet(D), NEW key \in [D -> Nat],
           \A a, b \in D : a # b => key[a] # key[b]
    PROVE  /\ \A id \in D : Cardinality(Lower(D, key, id)) \in 0 .. Cardinality(D) - 1
           /\ \A a, b \in D : a # b => Cardinality(Lower(D, key, a)) # Cardinality(Lower(D, key, b))
           /\ \A a, b \in D :
                 key[a] < key[b] => Cardinality(Lower(D, key, a)) < Cardinality(Lower(D, key, b))
           /\ \A n \in 0 .. Cardinality(D) - 1 : \E id \in D : Cardinality(Lower(D, key, id)) = n
<1> DEFINE K == Cardinality(D)
           r == [id \in D |-> Cardinality(Lower(D, key, id))]
<1>1. K \in Nat
  BY FS_CardinalityType
<1>2. ASSUME NEW id \in D PROVE r[id] \in 0 .. K - 1
  <2>1. Lower(D, key, id) \subseteq D \ {id}
    BY DEF Lower
  <2>2. IsFiniteSet(D \ {id}) /\ Cardinality(D \ {id}) = K - 1
    BY FS_RemoveElement
  <2>3. /\ Cardinality(Lower(D, key, id)) \in Nat
        /\ Cardinality(Lower(D, key, id)) <= K - 1
    BY <2>1, <2>2, FS_Subset, FS_CardinalityType
  <2> QED BY <1>1, <2>3
<1>3. ASSUME NEW a \in D, NEW b \in D, key[a] < key[b] PROVE r[a] < r[b]
  <2>1. Lower(D, key, a) \subseteq Lower(D, key, b) \ {a}
    BY <1>3 DEF Lower
  <2>2. a \in Lower(D, key, b)
    BY <1>3 DEF Lower
  <2>3. IsFiniteSet(Lower(D, key, b)) /\ Cardinality(Lower(D, key, b)) \in Nat
    BY FS_Subset, FS_CardinalityType DEF Lower
  <2>4. /\ IsFiniteSet(Lower(D, key, b) \ {a})
        /\ Cardinality(Lower(D, key, b) \ {a}) = Cardinality(Lower(D, key, b)) - 1
    BY <2>2, <2>3, FS_RemoveElement
  <2>5. /\ Cardinality(Lower(D, key, a)) <= Cardinality(Lower(D, key, b)) - 1
        /\ Cardinality(Lower(D, key, a)) \in Nat
    BY <2>1, <2>4, FS_Subset, FS_CardinalityType
  <2> QED BY <2>3, <2>5
<1>4. ASSUME NEW a \in D, NEW b \in D, a # b PROVE r[a] # r[b]
  <2>1. key[a] < key[b] \/ key[b] < key[a]
    BY <1>4
  <2>2. r[a] < r[b] \/ r[b] < r[a]
    BY <2>1, <1>3
  <2>3. r[a] \in Int /\ r[b] \in Int
    BY <1>1, <1>2
  <2> HIDE DEF r
  <2> QED BY <2>2, <2>3
<1>5. \A n \in 0 .. K - 1 : \E id \in D : r[id] = n
  <2> HIDE DEF r
  <2>1. r \in [D -> 0 .. K - 1]
    BY <1>2 DEF r
  <2>2. r \in Injection(D, 0 .. K - 1)
    BY <2>1, <1>4 DEF Injection, IsInjective
  <2>3. IsFiniteSet(0 .. K - 1) /\ Cardinality(0 .. K - 1) = K
    BY <1>1, FS_Interval
  <2>4. r \in Surjection(D, 0 .. K - 1)
    BY <2>2, <2>3, FS_Injection
  <2> QED BY <2>4 DEF Surjection
<1>6. \A id \in D : r[id] = Cardinality(Lower(D, key, id))
  OBVIOUS
<1> HIDE DEF r
<1> QED BY <1>2, <1>3, <1>4, <1>5, <1>6

-----------------------------------------------------------------------------
(* What is saved is read back. *)

\* What m_entries may hold: no more than allowed, and no URL of another scheme.
EntriesTyped(es) ==
    /\ DOMAIN es \subseteq Ids /\ es \in [DOMAIN es -> ConfigType]
    /\ \A id \in DOMAIN es : IsValidRtspUrl(es[id].url)
    /\ Cardinality(DOMAIN es) <= MaxChannels
\* A cell and a place of its own for every channel.
Apart(es) == \A a, b \in DOMAIN es : a # b => es[a].grid # es[b].grid /\ es[a].list # es[b].list
\* A channel of a file, of this version or an earlier one.
Entry == [id : Ids, cfg : [url : Urls \cup BadUrls, auto : BOOLEAN,
                           relay : BOOLEAN, grid : Nat, list : Nat \cup {Missing}]]

\* configs has every channel once.
LEMMA ConfigsHaveAll ==
    ASSUME NEW es, EntriesTyped(es), Apart(es)
    PROVE  /\ Configs(es) \in Seq(Entry)
           /\ Len(Configs(es)) = Cardinality(DOMAIN es) /\ Len(Configs(es)) \in Nat
           /\ \A n \in DOMAIN Configs(es) :
                 /\ Configs(es)[n].id \in DOMAIN es
                 /\ Configs(es)[n] = [id |-> Configs(es)[n].id, cfg |-> es[Configs(es)[n].id]]
           /\ \A m, n \in DOMAIN Configs(es) : m # n => Configs(es)[m].id # Configs(es)[n].id
           /\ \A id \in DOMAIN es : \E n \in DOMAIN Configs(es) : Configs(es)[n].id = id
<1> DEFINE D == DOMAIN es
           K == Cardinality(D)
           key == [id \in D |-> es[id].grid]
           r(id) == Cardinality(Lower(D, key, id))
<1>1. D \subseteq Ids /\ IsFiniteSet(D) /\ K \in Nat
  BY IdsAreFinite, FS_Subset, FS_CardinalityType DEF EntriesTyped
<1>2. key \in [D -> Nat] /\ \A a, b \in D : a # b => key[a] # key[b]
  BY DEF EntriesTyped, Apart, ConfigType
<1>3. /\ \A id \in D : r(id) \in 0 .. K - 1
      /\ \A a, b \in D : a # b => r(a) # r(b)
      /\ \A n \in 0 .. K - 1 : \E id \in D : r(id) = n
  <2> HIDE DEF D, key
  <2> QED BY <1>1, <1>2, RanksAreNumbers
<1>4. ASSUME NEW id \in D PROVE {e \in D : Before(es, e, id)} = Lower(D, key, id)
  <2>1. \A e \in D : Before(es, e, id) <=> key[e] < key[id]
    <3>1. ASSUME NEW e \in D PROVE Before(es, e, id) <=> es[e].grid < es[id].grid
      <4>1. e \in Int /\ id \in Int /\ es[e].grid \in Nat /\ es[id].grid \in Nat
        BY <1>1 DEF EntriesTyped, ConfigType, Ids
      <4>2. CASE e = id
        BY <4>1, <4>2 DEF Before
      <4>3. CASE e # id
        BY <4>1, <4>3 DEF Before, Apart
      <4> QED BY <4>2, <4>3
    <3> QED BY <3>1
  <2> QED BY <2>1 DEF Lower
<1>5. ASSUME NEW n \in 0 .. K - 1
      PROVE  AtRank(es, n) \in D /\ r(AtRank(es, n)) = n
  <2>1. AtRank(es, n) = CHOOSE id \in D : Cardinality({e \in D : Before(es, e, id)}) = n
    BY DEF AtRank
  <2>2. \E id \in D : Cardinality({e \in D : Before(es, e, id)}) = n
    <3>1. PICK id \in D : r(id) = n
      BY <1>3
    <3> QED BY <1>4, <3>1
  <2>3. AtRank(es, n) \in D /\ Cardinality({e \in D : Before(es, e, AtRank(es, n))}) = n
    <3> HIDE DEF D
    <3> QED BY <2>1, <2>2
  <2> QED BY <1>4, <2>3
<1> DEFINE f == Configs(es)
<1>6. /\ DOMAIN f = 1 .. K /\ f = [n \in 1 .. K |-> f[n]]
      /\ \A n \in 1 .. K : f[n] = [id |-> AtRank(es, n - 1), cfg |-> es[AtRank(es, n - 1)]]
  BY DEF Configs
<1> HIDE DEF f, D, K, key, r
<1>7. ASSUME NEW n \in 1 .. K
      PROVE  /\ f[n].id \in D /\ r(f[n].id) = n - 1
             /\ f[n] = [id |-> f[n].id, cfg |-> es[f[n].id]]
             /\ f[n] \in Entry
  <2>1. n - 1 \in 0 .. K - 1
    BY <1>1
  <2>2. f[n].id = AtRank(es, n - 1) /\ f[n].id \in D /\ r(f[n].id) = n - 1
    BY <1>5, <1>6, <2>1
  <2>3. f[n] = [id |-> f[n].id, cfg |-> es[f[n].id]]
    BY <1>6, <2>2
  <2>4. es[f[n].id] \in ConfigType /\ f[n].id \in Ids
    BY <1>1, <2>2 DEF EntriesTyped, D
  <2> QED BY <2>2, <2>3, <2>4 DEF ConfigType, Entry
<1>8. f \in Seq(Entry) /\ Len(f) = K
  BY <1>1, <1>6, <1>7
<1>9. ASSUME NEW id \in D PROVE \E n \in 1 .. K : f[n].id = id
  <2>1. r(id) + 1 \in 1 .. K /\ r(id) \in Int
    BY <1>1, <1>3
  <2>2. f[r(id) + 1].id \in D /\ r(f[r(id) + 1].id) = (r(id) + 1) - 1
    BY <1>7, <2>1
  <2>3. f[r(id) + 1].id = id
    <3>1. (r(id) + 1) - 1 = r(id)
      BY <2>1
    <3> QED BY <1>3, <2>2, <3>1
  <2> QED BY <2>1, <2>3
<1>10. ASSUME NEW m \in 1 .. K, NEW n \in 1 .. K, m # n PROVE f[m].id # f[n].id
  <2>1. r(f[m].id) = m - 1 /\ r(f[n].id) = n - 1
    BY <1>7
  <2>2. m - 1 # n - 1
    BY <1>1, <1>10
  <2> QED BY <2>1, <2>2
<1> QED BY <1>1, <1>6, <1>7, <1>8, <1>9, <1>10 DEF f, D, K

\* load: channels with a listIndex, still apart.
LEMMA LoadFacts ==
    ASSUME NEW f, Readable(f)
    PROVE  /\ \E top \in Nat : DOMAIN Load(f) \subseteq 0 .. top
           /\ \A i \in DOMAIN Load(f) : Load(f)[i].id \in Ids /\ Load(f)[i].cfg \in ConfigType
           /\ \A i, j \in DOMAIN Load(f) : i # j =>
                 /\ Load(f)[i].id # Load(f)[j].id
                 /\ Load(f)[i].cfg.grid # Load(f)[j].cfg.grid
                 /\ Load(f)[i].cfg.list # Load(f)[j].cfg.list
<1>1. CASE f.kind # "channels"
  <2>1. DOMAIN Load(f) = {}
    BY <1>1 DEF Load
  <2> QED BY <2>1
<1>2. CASE f.kind = "channels"
  <2> DEFINE cs == f.channels
  <2>1. /\ cs \in Seq(Entry)
        /\ \A i, j \in DOMAIN cs : i # j =>
              /\ cs[i].id # cs[j].id /\ cs[i].cfg.grid # cs[j].cfg.grid
              /\ Parsed(cs[i].cfg).list # Parsed(cs[j].cfg).list
    BY <1>2 DEF Readable, Entry
  <2>2. Load(f) = [i \in DOMAIN cs |-> [id |-> cs[i].id, cfg |-> Parsed(cs[i].cfg)]]
    BY <1>2 DEF Load
  <2> HIDE DEF cs
  <2>3. ASSUME NEW i \in DOMAIN cs
        PROVE  cs[i].id \in Ids /\ Parsed(cs[i].cfg) \in ConfigType
               /\ Parsed(cs[i].cfg).grid = cs[i].cfg.grid
    <3>1. cs[i] \in Entry
      BY <2>1
    <3>2. ASSUME NEW c \in [url : Urls \cup BadUrls, auto : BOOLEAN,
                            relay : BOOLEAN, grid : Nat, list : Nat \cup {Missing}]
          PROVE  Parsed(c) \in ConfigType /\ Parsed(c).grid = c.grid
      <4>1. CASE c.list = Missing
        BY <4>1 DEF Parsed, AtPlace, Config, ConfigType
      <4>2. CASE c.list # Missing
        BY <4>2 DEF Parsed, ConfigType
      <4> QED BY <4>1, <4>2
    <3> QED BY <3>1, <3>2 DEF Entry
  <2>4. DOMAIN Load(f) = 1 .. Len(cs) /\ Len(cs) \in Nat /\ DOMAIN cs = 1 .. Len(cs)
    BY <2>1, <2>2
  <2> QED BY <2>1, <2>2, <2>3, <2>4
<1> QED BY <1>1, <1>2

\* restore takes no more than it may.
LEMMA TakenFits ==
    ASSUME NEW f, Readable(f)
    PROVE  IsFiniteSet(Taken(f)) /\ Cardinality(Taken(f)) <= MaxChannels
<1>0. MaxChannels \in Nat
  BY ChannelsAssumption
<1>1. PICK top \in Nat : DOMAIN Load(f) \subseteq 0 .. top
  BY LoadFacts
<1> DEFINE R == Restorable(f)
           T == Taken(f)
<1> SUFFICES IsFiniteSet(T) /\ Cardinality(T) <= MaxChannels
  OBVIOUS
<1>2. T \subseteq R /\ R \subseteq 0 .. top
  BY <1>1 DEF Taken, Restorable
<1>3. IsFiniteSet(R) /\ IsFiniteSet(T) /\ Cardinality(T) \in Nat
  <2>1. IsFiniteSet(0 .. top)
    BY FS_Interval
  <2>2. IsFiniteSet(R)
    BY <1>2, <2>1, FS_Subset
  <2> QED BY <1>2, <2>2, FS_Subset, FS_CardinalityType
<1>4. \A i \in T : Cardinality({j \in R : j < i}) < MaxChannels
  BY DEF Taken
<1> HIDE DEF R, T
<1>5. CASE T = {}
  <2>1. Cardinality(T) = 0
    BY <1>5, FS_EmptySet
  <2> QED BY <1>0, <1>3, <2>1
<1>6. CASE T # {}
  <2>1. PICK g \in T : \A i \in T : i <= g
    BY <1>2, <1>6, GreatestNumber
  <2> DEFINE L == {j \in R : j < g}
  <2>2. T \ {g} \subseteq L
    BY <1>2, <2>1
  <2>3. IsFiniteSet(L) /\ Cardinality(L) \in Nat
    BY <1>3, FS_Subset, FS_CardinalityType
  <2>4. Cardinality(T \ {g}) <= Cardinality(L)
    BY <2>2, <2>3, FS_Subset
  <2>5. Cardinality(T \ {g}) = Cardinality(T) - 1
    BY <1>3, <2>1, FS_RemoveElement
  <2>6. Cardinality(L) < MaxChannels
    BY <1>4, <2>1
  <2> HIDE DEF L
  <2> QED BY <1>0, <1>3, <2>3, <2>4, <2>5, <2>6
<1> QED BY <1>5, <1>6

\* restore takes channels that may be taken, each as it was read.
LEMMA RestoredFacts ==
    ASSUME NEW f, Readable(f)
    PROVE  /\ EntriesTyped(RestoredFrom(f)) /\ Apart(RestoredFrom(f))
           /\ DOMAIN RestoredFrom(f) = {Load(f)[i].id : i \in Taken(f)}
           /\ \A i \in Taken(f) : RestoredFrom(f)[Load(f)[i].id] = Load(f)[i].cfg
<1> DEFINE es == RestoredFrom(f)
           D == {Load(f)[i].id : i \in Taken(f)}
           at(id) == CHOOSE i \in Taken(f) : Load(f)[i].id = id
<1>1. /\ es = [id \in D |-> Load(f)[at(id)].cfg] /\ DOMAIN es = D
  BY DEF RestoredFrom
<1>2. ASSUME NEW i \in Taken(f)
      PROVE  i \in DOMAIN Load(f) /\ IsValidRtspUrl(Load(f)[i].cfg.url)
  BY DEF Taken, Restorable
<1>3. ASSUME NEW i \in Taken(f) PROVE es[Load(f)[i].id] = Load(f)[i].cfg
  <2>1. at(Load(f)[i].id) \in Taken(f) /\ Load(f)[at(Load(f)[i].id)].id = Load(f)[i].id
    OBVIOUS
  <2>2. at(Load(f)[i].id) = i
    BY <1>2, <2>1, LoadFacts
  <2>3. Load(f)[i].id \in D
    OBVIOUS
  <2> HIDE DEF D, at, es
  <2> QED BY <1>1, <2>2, <2>3
<1>4. \A id \in D : \E i \in Taken(f) : id = Load(f)[i].id
  OBVIOUS
<1>5. D \subseteq Ids
  BY <1>2, LoadFacts
<1>6. Cardinality(D) <= MaxChannels
  <2> DEFINE h == [i \in Taken(f) |-> Load(f)[i].id]
  <2>1. h \in Surjection(Taken(f), D)
    BY DEF Surjection
  <2>2. IsFiniteSet(Taken(f)) /\ Cardinality(Taken(f)) <= MaxChannels
    BY TakenFits
  <2> HIDE DEF h, D
  <2>3. IsFiniteSet(D) /\ Cardinality(D) <= Cardinality(Taken(f))
    BY <2>1, <2>2, FS_Surjection
  <2>4. Cardinality(D) \in Nat /\ Cardinality(Taken(f)) \in Nat /\ MaxChannels \in Nat
    BY <2>2, <2>3, FS_CardinalityType, ChannelsAssumption
  <2> QED BY <2>2, <2>3, <2>4
<1> HIDE DEF es, D, at
<1>7. ASSUME NEW id \in D PROVE es[id] \in ConfigType /\ IsValidRtspUrl(es[id].url)
  BY <1>2, <1>3, <1>4, LoadFacts
<1>8. EntriesTyped(es)
  <2>1. es = [id \in D |-> es[id]]
    BY <1>1
  <2> QED BY <1>1, <1>5, <1>6, <1>7, <2>1 DEF EntriesTyped
<1>9. Apart(es)
  <2> SUFFICES ASSUME NEW a \in D, NEW b \in D, a # b
               PROVE  es[a].grid # es[b].grid /\ es[a].list # es[b].list
    BY <1>1 DEF Apart
  <2>1. PICK i \in Taken(f), j \in Taken(f) : a = Load(f)[i].id /\ b = Load(f)[j].id
    BY <1>4
  <2>2. es[a] = Load(f)[i].cfg /\ es[b] = Load(f)[j].cfg /\ i # j
    BY <1>3, <2>1
  <2> QED BY <1>2, <2>2, LoadFacts
<1> QED BY <1>1, <1>3, <1>8, <1>9 DEF es, D

\* What is saved is read back.
LEMMA SavedIsRead ==
    ASSUME NEW es, EntriesTyped(es), Apart(es)
    PROVE  LET f == [kind |-> "channels", channels |-> Configs(es)]
           IN Readable(f) /\ RestoredFrom(f) = es
<1> DEFINE f == [kind |-> "channels", channels |-> Configs(es)]
           cs == Configs(es)
           K == Cardinality(DOMAIN es)
<1>1. K \in Nat /\ K <= MaxChannels /\ MaxChannels \in Nat
  BY IdsAreFinite, FS_Subset, FS_CardinalityType, ChannelsAssumption DEF EntriesTyped
<1>2. /\ cs \in Seq(Entry) /\ DOMAIN cs = 1 .. K
      /\ \A n \in 1 .. K : cs[n].id \in DOMAIN es /\ cs[n].cfg = es[cs[n].id]
      /\ \A m, n \in 1 .. K : m # n => cs[m].id # cs[n].id
      /\ \A id \in DOMAIN es : \E n \in 1 .. K : cs[n].id = id
  <2>1. DOMAIN cs = 1 .. K
    BY ConfigsHaveAll
  <2> QED BY <2>1, ConfigsHaveAll
<1> HIDE DEF cs, K
<1>3. ASSUME NEW id \in DOMAIN es PROVE Parsed(es[id]) = es[id] /\ IsValidRtspUrl(es[id].url)
  BY DEF EntriesTyped, ConfigType, Parsed, Missing
<1>4. f.kind = "channels" /\ f.channels = cs
  BY DEF cs
<1> HIDE DEF f
<1>5. Readable(f)
  <2>1. ASSUME NEW i \in 1 .. K, NEW j \in 1 .. K, i # j
        PROVE  /\ cs[i].id # cs[j].id /\ cs[i].cfg.grid # cs[j].cfg.grid
               /\ Parsed(cs[i].cfg).list # Parsed(cs[j].cfg).list
    BY <1>2, <1>3, <2>1 DEF Apart
  <2> QED BY <1>2, <1>4, <2>1 DEF Readable, Entry
<1>6. /\ DOMAIN Load(f) = 1 .. K
      /\ \A n \in 1 .. K : Load(f)[n].id = cs[n].id /\ Load(f)[n].cfg = es[cs[n].id]
  <2>1. Load(f) = [n \in 1 .. K |-> [id |-> cs[n].id, cfg |-> Parsed(cs[n].cfg)]]
    BY <1>2, <1>4 DEF Load
  <2> QED BY <1>2, <1>3, <2>1
<1>7. Restorable(f) = 1 .. K
  BY <1>2, <1>3, <1>6 DEF Restorable
<1>8. Taken(f) = 1 .. K
  <2>1. ASSUME NEW i \in 1 .. K PROVE Cardinality({j \in 1 .. K : j < i}) < MaxChannels
    <3>1. {j \in 1 .. K : j < i} \subseteq (1 .. K) \ {i}
      OBVIOUS
    <3>2. IsFiniteSet(1 .. K) /\ Cardinality(1 .. K) = K
      BY <1>1, FS_Interval
    <3>3. IsFiniteSet((1 .. K) \ {i}) /\ Cardinality((1 .. K) \ {i}) = K - 1
      BY <3>2, FS_RemoveElement
    <3>4. /\ Cardinality({j \in 1 .. K : j < i}) \in Nat
          /\ Cardinality({j \in 1 .. K : j < i}) <= K - 1
      BY <3>1, <3>3, FS_Subset, FS_CardinalityType
    <3> QED BY <1>1, <3>4
  <2> QED BY <1>7, <2>1 DEF Taken
<1>9. /\ DOMAIN RestoredFrom(f) = {Load(f)[i].id : i \in 1 .. K}
      /\ \A i \in 1 .. K : RestoredFrom(f)[Load(f)[i].id] = Load(f)[i].cfg
      /\ RestoredFrom(f) \in [DOMAIN RestoredFrom(f) -> ConfigType]
  BY <1>5, <1>8, RestoredFacts DEF EntriesTyped
<1>10. DOMAIN RestoredFrom(f) = DOMAIN es
  <2>1. {Load(f)[i].id : i \in 1 .. K} = {cs[i].id : i \in 1 .. K}
    BY <1>6
  <2>2. {cs[i].id : i \in 1 .. K} = DOMAIN es
    <3>1. \A i \in 1 .. K : cs[i].id \in DOMAIN es
      BY <1>2
    <3>2. \A id \in DOMAIN es : \E i \in 1 .. K : cs[i].id = id
      BY <1>2
    <3> QED BY <3>1, <3>2
  <2> QED BY <1>9, <2>1, <2>2
<1>11. ASSUME NEW id \in DOMAIN es PROVE RestoredFrom(f)[id] = es[id]
  <2>1. PICK n \in 1 .. K : cs[n].id = id
    BY <1>2
  <2> QED BY <1>6, <1>9, <2>1
<1>12. RestoredFrom(f) = es
  BY <1>9, <1>10, <1>11 DEF EntriesTyped
<1> QED BY <1>5, <1>12 DEF f, cs

-----------------------------------------------------------------------------
(* The invariant, and the start and the end of a run. *)

\* A controller for every entry, and functions on both sides.
ControllersFit ==
    /\ entries = [id \in DOMAIN entries |-> entries[id]]
    /\ ctrl = [id \in DOMAIN entries |-> ctrl[id]]
    /\ ConnectionFollowsConfig

\* The inductive invariant.
IInv ==
    /\ running \in BOOLEAN /\ refuse \in BOOLEAN /\ lag \in 0 .. MaxLag
    /\ EntriesTyped(entries) /\ Apart(entries)
    /\ ControllersFit
    /\ Readable(file)
    /\ RestartKeepsChannels

\* What a change of the channels owes to the rest.
Kept == EntriesTyped(entries') /\ Apart(entries') /\ ControllersFit'

\* No channels.
LEMMA NoEntries == EntriesTyped(<< >>) /\ Apart(<< >>)
<1>1. DOMAIN << >> = {} /\ Cardinality({}) = 0 /\ MaxChannels \in Nat
  BY FS_EmptySet, ChannelsAssumption
<1>2. << >> \in [{} -> ConfigType]
  OBVIOUS
<1> QED BY <1>1, <1>2 DEF EntriesTyped, Apart

\* The empty function.
LEMMA EmptyIsFunction == DOMAIN << >> = {} /\ << >> = [id \in {} |-> << >>[id]]
  OBVIOUS

\* Before the first run.
LEMMA InitIInv == Init => IInv
<1> SUFFICES ASSUME Init PROVE IInv
  OBVIOUS
<1>1. entries = << >> /\ ctrl = << >> /\ Readable(file)
  BY FilesAssumption DEF Init
<1>2. running = FALSE /\ refuse = FALSE /\ lag \in 0 .. MaxLag
  BY ChannelsAssumption DEF Init
<1>3. ControllersFit
  BY <1>1, EmptyIsFunction DEF ControllersFit, ConnectionFollowsConfig
<1>4. EntriesTyped(entries) /\ Apart(entries)
  BY <1>1, NoEntries
<1>5. RestartKeepsChannels
  BY <1>2 DEF RestartKeepsChannels
<1> QED BY <1>1, <1>2, <1>3, <1>4, <1>5 DEF IInv

\* restore: what is read is what a restart would read.
LEMMA StartKeepsIInv == IInv /\ Start => IInv'
<1> SUFFICES ASSUME IInv, Start PROVE IInv'
  OBVIOUS
<1>1. /\ running' /\ running' \in BOOLEAN /\ refuse' \in BOOLEAN /\ lag' \in 0 .. MaxLag
      /\ file' = file /\ entries' = RestoredFrom(file)
  BY ChannelsAssumption DEF Start, Restored
<1>2. EntriesTyped(entries') /\ Apart(entries')
  BY <1>1, RestoredFacts DEF IInv
<1>3. ControllersFit'
  <2>1. entries' = [id \in DOMAIN entries' |-> entries'[id]]
    BY <1>2 DEF EntriesTyped
  <2>2. PICK connect \in BOOLEAN :
          ctrl' = [id \in DOMAIN entries' |->
                     NewController(id, entries'[id], connect \/ entries'[id].auto)]
    BY DEF Start
  <2> QED BY <2>1, <2>2 DEF NewController, ControllersFit, ConnectionFollowsConfig
<1>4. Readable(file') /\ RestartKeepsChannels'
  BY <1>1 DEF IInv, RestartKeepsChannels, Restored
<1> QED BY <1>1, <1>2, <1>3, <1>4 DEF IInv

\* The end of a run, at any point.
LEMMA EndKeepsIInv == IInv /\ End => IInv'
<1> SUFFICES ASSUME IInv, End PROVE IInv'
  OBVIOUS
<1>1. entries' = << >> /\ ctrl' = << >> /\ file' = file
  BY DEF End
<1>2. running' = FALSE /\ refuse' = FALSE /\ lag' \in 0 .. MaxLag
  BY ChannelsAssumption DEF End
<1>3. ControllersFit'
  BY <1>1, EmptyIsFunction DEF ControllersFit, ConnectionFollowsConfig
<1>4. EntriesTyped(entries') /\ Apart(entries')
  BY <1>1, NoEntries
<1>5. Readable(file') /\ RestartKeepsChannels'
  BY <1>1, <1>2 DEF IInv, RestartKeepsChannels
<1> QED BY <1>2, <1>3, <1>4, <1>5 DEF IInv

\* A change, and its save.
LEMMA SaveKeepsIInv == IInv /\ Kept /\ Persist(entries') /\ UNCHANGED <<running, refuse>> => IInv'
<1> SUFFICES ASSUME IInv, Kept, Persist(entries'), UNCHANGED <<running, refuse>> PROVE IInv'
  OBVIOUS
<1>1. CASE /\ ~refuse
           /\ file' = [kind |-> "channels", channels |-> Configs(entries')]
           /\ lag' = 0
  <2>1. Readable(file') /\ RestoredFrom(file') = entries'
    BY <1>1, SavedIsRead DEF Kept
  <2>2. lag' \in 0 .. MaxLag
    BY <1>1, ChannelsAssumption
  <2> QED BY <2>1, <2>2 DEF IInv, Kept, RestartKeepsChannels, Restored
<1>2. CASE refuse /\ file' = file /\ lag' = lag
  BY <1>2 DEF IInv, Kept, RestartKeepsChannels
<1>3. CASE ~refuse /\ lag < MaxLag /\ file' = file /\ lag' = lag + 1
  <2>1. lag' \in 0 .. MaxLag /\ lag' # 0
    BY <1>3, ChannelsAssumption DEF IInv
  <2> QED BY <1>3, <2>1 DEF IInv, Kept, RestartKeepsChannels
<1> QED BY <1>1, <1>2, <1>3 DEF Persist

\* A change that keeps the address and the mode of every channel keeps the fit.
LEMMA PlacesOnly ==
    ASSUME IInv, UNCHANGED ctrl, DOMAIN entries' = DOMAIN entries,
           entries' = [id \in DOMAIN entries |-> entries'[id]],
           \A id \in DOMAIN entries :
              /\ entries'[id] \in ConfigType
              /\ entries'[id].url = entries[id].url /\ entries'[id].relay = entries[id].relay
    PROVE  EntriesTyped(entries') /\ ControllersFit'
<1>1. ControllersFit'
  BY DEF IInv, ControllersFit, ConnectionFollowsConfig, ConnectUrl
<1>2. EntriesTyped(entries')
  BY DEF IInv, EntriesTyped, IsValidRtspUrl
<1> QED BY <1>1, <1>2

-----------------------------------------------------------------------------
(* The operations. *)

\* What a user enters makes a configuration.
LEMMA SettingsTyped ==
    ASSUME NEW s \in Settings, NEW g \in Nat, NEW l \in Nat
    PROVE  /\ Config(s, g, l) \in ConfigType
           /\ Config(s, g, l).url = s.url /\ Config(s, g, l).relay = s.relay
           /\ Config(s, g, l).grid = g /\ Config(s, g, l).list = l
  BY ChannelsAssumption DEF Config, ConfigType

\* A configuration in another cell ...
LEMMA CellTyped ==
    ASSUME NEW c \in ConfigType, NEW n \in Nat
    PROVE  /\ InCell(c, n) \in ConfigType /\ InCell(c, n).grid = n /\ InCell(c, n).list = c.list
           /\ InCell(c, n).url = c.url /\ InCell(c, n).relay = c.relay
  BY DEF InCell, Config, ConfigType

\* ... and at another place of the list.
LEMMA PlaceTyped ==
    ASSUME NEW c \in ConfigType, NEW n \in Nat
    PROVE  /\ AtPlace(c, n) \in ConfigType /\ AtPlace(c, n).list = n /\ AtPlace(c, n).grid = c.grid
           /\ AtPlace(c, n).url = c.url /\ AtPlace(c, n).relay = c.relay
  BY DEF AtPlace, Config, ConfigType

\* The numbers of the channels.
LEMMA EntryFields ==
    ASSUME IInv
    PROVE  /\ DOMAIN entries \subseteq Ids /\ IsFiniteSet(DOMAIN entries)
           /\ Cardinality(DOMAIN entries) \in Nat
           /\ \A id \in DOMAIN entries : /\ entries[id] \in ConfigType
                                         /\ entries[id].grid \in Nat /\ entries[id].list \in Nat
  BY IdsAreFinite, FS_Subset, FS_CardinalityType DEF IInv, EntriesTyped, ConfigType

\* addChannel.
LEMMA AddKeeps == ASSUME IInv, NEW s \in Settings, AddChannel(s) PROVE Kept
<1> DEFINE id == NextIdNumber
           grids == {entries[i].grid : i \in DOMAIN entries}
           lists == {entries[i].list : i \in DOMAIN entries}
           cfg == Config(s, NextGridIndex, NextListIndex)
           all == DOMAIN entries \cup {id}
<1>1. id \in Ids /\ id \notin DOMAIN entries
  BY EntryFields, NextIdIsNew DEF AddChannel
<1>2. IsFiniteSet(grids) /\ IsFiniteSet(lists)
  <2> DEFINE g == [i \in DOMAIN entries |-> entries[i].grid]
             l == [i \in DOMAIN entries |-> entries[i].list]
  <2>1. /\ g \in Surjection(DOMAIN entries, grids)
        /\ l \in Surjection(DOMAIN entries, lists)
    BY DEF Surjection
  <2> HIDE DEF g, l, grids, lists
  <2> QED BY <2>1, EntryFields, FS_Surjection
<1>3. /\ NextGridIndex \in Nat /\ NextGridIndex \notin grids
      /\ NextListIndex \in Nat /\ NextListIndex \notin lists
  <2>1. grids \in SUBSET Nat /\ lists \in SUBSET Nat
    BY EntryFields
  <2>2. NextGridIndex = FirstFree(grids) /\ NextListIndex = FirstFree(lists)
    BY DEF NextGridIndex, NextListIndex
  <2> HIDE DEF grids, lists
  <2> QED BY <1>2, <2>1, <2>2, FirstFreeIsFree
<1>4. /\ cfg \in ConfigType /\ cfg.url = s.url
      /\ cfg.grid \in Nat /\ cfg.grid \notin grids /\ cfg.list \in Nat /\ cfg.list \notin lists
  BY <1>3, SettingsTyped
<1>5. /\ IsValidRtspUrl(s.url) /\ Cardinality(DOMAIN entries) < MaxChannels
      /\ entries' = [i \in all |-> IF i = id THEN cfg ELSE entries[i]]
      /\ ctrl' = [i \in all |-> IF i = id THEN NewController(id, cfg, TRUE) ELSE ctrl[i]]
  BY DEF AddChannel
<1>6. IsFiniteSet(all) /\ Cardinality(all) <= MaxChannels
  <2> HIDE DEF id
  <2>1. IsFiniteSet(all) /\ Cardinality(all) = Cardinality(DOMAIN entries) + 1
    BY <1>1, EntryFields, FS_AddElement
  <2> QED BY <1>5, <2>1, EntryFields, ChannelsAssumption
<1> HIDE DEF id, cfg
<1>7. ControllersFit'
  BY <1>1, <1>5 DEF IInv, NewController, ConnectUrl, ControllersFit,
         ConnectionFollowsConfig
<1>8. EntriesTyped(entries')
  <2>1. \A i \in all : entries'[i] \in ConfigType /\ IsValidRtspUrl(entries'[i].url)
    BY <1>1, <1>4, <1>5, EntryFields DEF IInv, EntriesTyped
  <2>2. entries' = [i \in all |-> entries'[i]] /\ all \subseteq Ids
    BY <1>1, <1>5, EntryFields
  <2> HIDE DEF all
  <2> QED BY <1>6, <2>1, <2>2 DEF EntriesTyped
<1>9. Apart(entries')
  <2>1. ASSUME NEW a \in all, NEW b \in all, a # b
        PROVE  entries'[a].grid # entries'[b].grid /\ entries'[a].list # entries'[b].list
    <3>1. CASE a = id
      BY <1>1, <1>4, <1>5, <2>1, <3>1
    <3>2. CASE b = id
      BY <1>1, <1>4, <1>5, <2>1, <3>2
    <3>3. CASE a # id /\ b # id
      BY <1>5, <2>1, <3>3 DEF IInv, Apart
    <3> QED BY <3>1, <3>2, <3>3
  <2>2. DOMAIN entries' = all
    BY <1>5
  <2> QED BY <2>1, <2>2 DEF Apart
<1> QED BY <1>7, <1>8, <1>9 DEF Kept

\* removeChannel.
LEMMA RemoveKeeps == ASSUME IInv, NEW id \in Ids, RemoveChannel(id) PROVE Kept
<1>1. /\ id \in DOMAIN entries
      /\ entries' = [i \in DOMAIN entries \ {id} |-> entries[i]]
      /\ ctrl' = [i \in DOMAIN ctrl \ {id} |-> ctrl[i]]
  BY DEF RemoveChannel
<1>2. ControllersFit'
  BY <1>1 DEF IInv, ControllersFit, ConnectionFollowsConfig
<1>3. Apart(entries')
  BY <1>1 DEF IInv, Apart
<1>4. EntriesTyped(entries')
  <2>1. Cardinality(DOMAIN entries \ {id}) <= MaxChannels
    <3>1. Cardinality(DOMAIN entries \ {id}) = Cardinality(DOMAIN entries) - 1
      BY <1>1, EntryFields, FS_RemoveElement
    <3> QED BY <3>1, EntryFields, ChannelsAssumption DEF IInv, EntriesTyped
  <2> QED BY <1>1, <2>1 DEF IInv, EntriesTyped
<1> QED BY <1>2, <1>3, <1>4 DEF Kept

\* updateChannel, its three ways.
LEMMA UpdateKeeps ==
    ASSUME IInv, NEW id \in Ids, NEW s \in Settings, UpdateChannel(id, s)
    PROVE  Kept
<1> DEFINE cfg == Config(s, entries[id].grid, entries[id].list)
<1>1. /\ IsValidRtspUrl(s.url) /\ id \in DOMAIN entries
      /\ entries' = [entries EXCEPT ![id] = cfg]
      /\ ctrl' = [ctrl EXCEPT ![id] = UpdatedController(id, cfg)]
  BY DEF UpdateChannel
<1>2. /\ cfg \in ConfigType /\ cfg.url = s.url
      /\ cfg.grid = entries[id].grid /\ cfg.list = entries[id].list
  BY <1>1, EntryFields, SettingsTyped
<1>3. /\ UpdatedController(id, cfg).url = ConnectUrl(id, cfg)
      /\ UpdatedController(id, cfg).relay = cfg.relay
  BY <1>1 DEF IInv, UpdatedController, NewController, ConnectUrl, Config,
         ControllersFit,
              ConnectionFollowsConfig
<1> HIDE DEF cfg
<1>4. ControllersFit'
  BY <1>1, <1>3 DEF IInv, ControllersFit, ConnectionFollowsConfig, ConnectUrl
<1>5. EntriesTyped(entries')
  BY <1>1, <1>2 DEF IInv, EntriesTyped
<1>6. Apart(entries')
  BY <1>1, <1>2, EntryFields DEF IInv, EntriesTyped, Apart
<1> QED BY <1>4, <1>5, <1>6 DEF Kept

\* swapGrid.
LEMMA SwapKeeps == ASSUME IInv, NEW a \in Ids, NEW b \in Ids, SwapGrid(a, b) PROVE Kept
<1>1. /\ a \in DOMAIN entries /\ b \in DOMAIN entries
      /\ entries' = [entries EXCEPT ![a] = InCell(entries[a], entries[b].grid),
                                    ![b] = InCell(entries[b], entries[a].grid)]
      /\ UNCHANGED ctrl
  BY DEF SwapGrid
<1>2. ASSUME NEW i \in DOMAIN entries
      PROVE  /\ entries'[i] \in ConfigType
             /\ entries'[i].url = entries[i].url /\ entries'[i].relay = entries[i].relay
             /\ entries'[i].list = entries[i].list
             /\ i = b => entries'[i].grid = entries[a].grid
             /\ i = a /\ a # b => entries'[i].grid = entries[b].grid
             /\ i # a /\ i # b => entries'[i].grid = entries[i].grid
  <2>0. entries = [j \in DOMAIN entries |-> entries[j]]
    BY DEF IInv, ControllersFit
  <2>1. CASE i = b
    <3>1. entries'[i] = InCell(entries[i], entries[a].grid)
      BY <1>1, <2>0, <2>1
    <3>2. /\ InCell(entries[i], entries[a].grid) \in ConfigType
          /\ InCell(entries[i], entries[a].grid).grid = entries[a].grid
          /\ InCell(entries[i], entries[a].grid).list = entries[i].list
          /\ InCell(entries[i], entries[a].grid).url = entries[i].url
          /\ InCell(entries[i], entries[a].grid).relay = entries[i].relay
      BY <1>1, EntryFields, CellTyped
    <3> QED BY <2>1, <3>1, <3>2
  <2>2. CASE i = a /\ a # b
    <3>1. entries'[i] = InCell(entries[i], entries[b].grid)
      BY <1>1, <2>0, <2>2
    <3>2. /\ InCell(entries[i], entries[b].grid) \in ConfigType
          /\ InCell(entries[i], entries[b].grid).grid = entries[b].grid
          /\ InCell(entries[i], entries[b].grid).list = entries[i].list
          /\ InCell(entries[i], entries[b].grid).url = entries[i].url
          /\ InCell(entries[i], entries[b].grid).relay = entries[i].relay
      BY <1>1, EntryFields, CellTyped
    <3> QED BY <2>2, <3>1, <3>2
  <2>3. CASE i # a /\ i # b
    BY <1>1, <2>0, <2>3, EntryFields
  <2> QED BY <2>1, <2>2, <2>3
<1>3. /\ DOMAIN entries' = DOMAIN entries
      /\ entries' = [i \in DOMAIN entries |-> entries'[i]]
  BY <1>1 DEF IInv, ControllersFit
<1>4. EntriesTyped(entries') /\ ControllersFit'
  BY <1>1, <1>2, <1>3, PlacesOnly
<1>5. Apart(entries')
  <2>1. ASSUME NEW i \in DOMAIN entries, NEW j \in DOMAIN entries, i # j
        PROVE  entries'[i].grid # entries'[j].grid /\ entries'[i].list # entries'[j].list
    BY <1>1, <1>2, <2>1 DEF IInv, Apart
  <2> QED BY <1>3, <2>1 DEF Apart
<1> QED BY <1>4, <1>5 DEF Kept

\* moveGrid: the one in the target takes the cell that becomes free.
LEMMA MoveKeeps ==
    ASSUME IInv, NEW id \in Ids, NEW cell \in 0 .. MaxCell, MoveGrid(id, cell)
    PROVE  Kept
<1>1. /\ id \in DOMAIN entries /\ entries' = Moved(id, cell) /\ UNCHANGED ctrl /\ cell \in Nat
  BY ChannelsAssumption DEF MoveGrid
<1>2. ASSUME NEW i \in DOMAIN entries
      PROVE  /\ entries'[i] \in ConfigType
             /\ entries'[i].url = entries[i].url /\ entries'[i].relay = entries[i].relay
             /\ entries'[i].list = entries[i].list
             /\ i = id => entries'[i].grid = cell
             /\ i # id /\ entries[i].grid = cell => entries'[i].grid = entries[id].grid
             /\ i # id /\ entries[i].grid # cell => entries'[i].grid = entries[i].grid
  <2>1. CASE i = id
    BY <1>1, <2>1, EntryFields, CellTyped DEF Moved
  <2>2. CASE i # id /\ entries[i].grid = cell
    <3>1. entries'[i] = InCell(entries[i], entries[id].grid)
      BY <1>1, <2>2 DEF Moved
    <3>2. /\ InCell(entries[i], entries[id].grid) \in ConfigType
          /\ InCell(entries[i], entries[id].grid).grid = entries[id].grid
          /\ InCell(entries[i], entries[id].grid).list = entries[i].list
          /\ InCell(entries[i], entries[id].grid).url = entries[i].url
          /\ InCell(entries[i], entries[id].grid).relay = entries[i].relay
      BY <1>1, EntryFields, CellTyped
    <3> QED BY <2>2, <3>1, <3>2
  <2>3. CASE i # id /\ entries[i].grid # cell
    BY <1>1, <2>3, EntryFields DEF Moved
  <2> QED BY <2>1, <2>2, <2>3
<1>3. /\ DOMAIN entries' = DOMAIN entries
      /\ entries' = [i \in DOMAIN entries |-> entries'[i]]
  BY <1>1 DEF Moved
<1>4. EntriesTyped(entries') /\ ControllersFit'
  BY <1>1, <1>2, <1>3, PlacesOnly
<1>5. Apart(entries')
  <2>1. ASSUME NEW i \in DOMAIN entries, NEW j \in DOMAIN entries, i # j
        PROVE  entries'[i].grid # entries'[j].grid /\ entries'[i].list # entries'[j].list
    BY <1>1, <1>2, <2>1 DEF IInv, Apart
  <2> QED BY <1>3, <2>1 DEF Apart
<1> QED BY <1>4, <1>5 DEF Kept

\* reorderList: positions in the order, then the others, are numbers apart,
\* and so are the ranks.
LEMMA ReorderKeeps == ASSUME IInv, NEW order \in Orders, ReorderList(order) PROVE Kept
<1> DEFINE D == DOMAIN entries
           Position(id) == IF id \in ToSet(order) THEN CHOOSE i \in DOMAIN order : order[i] = id
                                                 ELSE Len(order) + 1 + entries[id].list
           key == [id \in D |-> Position(id)]
<1>1. /\ entries' = [id \in D |->
            AtPlace(entries[id], Cardinality({e \in D : Position(e) < Position(id)}))]
      /\ UNCHANGED ctrl
  BY DEF ReorderList, Reordered
<1>2. order \in Seq(Ids) /\ DOMAIN order = 1 .. Len(order) /\ Len(order) \in Nat
  BY DEF Orders
<1>3. ASSUME NEW id \in D, id \in ToSet(order)
      PROVE  Position(id) \in 1 .. Len(order) /\ order[Position(id)] = id
  <2>1. \E i \in DOMAIN order : order[i] = id
    BY <1>3 DEF ToSet
  <2>2. Position(id) = CHOOSE i \in DOMAIN order : order[i] = id
    BY <1>3
  <2> HIDE DEF Position
  <2> QED BY <1>2, <2>1, <2>2
<1>4. ASSUME NEW id \in D, id \notin ToSet(order)
      PROVE  Position(id) = Len(order) + 1 + entries[id].list
  BY <1>4
<1> HIDE DEF Position
<1>5. ASSUME NEW id \in D PROVE Position(id) \in Nat
  BY <1>2, <1>3, <1>4, EntryFields
<1>6. ASSUME NEW a \in D, NEW b \in D, a # b PROVE Position(a) # Position(b)
  <2>1. CASE a \in ToSet(order) /\ b \in ToSet(order)
    BY <1>3, <1>6, <2>1
  <2>2. CASE a \notin ToSet(order) /\ b \notin ToSet(order)
    <3>1. entries[a].list # entries[b].list
      BY <1>6 DEF IInv, Apart
    <3> QED BY <1>2, <1>4, <2>2, <3>1, EntryFields
  <2>3. CASE a \in ToSet(order) /\ b \notin ToSet(order)
    BY <1>2, <1>3, <1>4, <2>3, EntryFields
  <2>4. CASE a \notin ToSet(order) /\ b \in ToSet(order)
    BY <1>2, <1>3, <1>4, <2>4, EntryFields
  <2> QED BY <2>1, <2>2, <2>3, <2>4
<1>7. key \in [D -> Nat] /\ \A a, b \in D : a # b => key[a] # key[b]
  BY <1>5, <1>6
<1> DEFINE r(id) == Cardinality(Lower(D, key, id))
<1>8. \A id \in D : {e \in D : Position(e) < Position(id)} = Lower(D, key, id)
  BY DEF Lower
<1>9. /\ \A id \in D : r(id) \in Nat
      /\ \A a, b \in D : a # b => r(a) # r(b)
  <2>1. IsFiniteSet(D) /\ Cardinality(D) \in Nat
    BY EntryFields
  <2> HIDE DEF D, key
  <2>2. /\ \A id \in D : r(id) \in 0 .. Cardinality(D) - 1
        /\ \A a, b \in D : a # b => r(a) # r(b)
    BY <1>7, <2>1, RanksAreNumbers
  <2> QED BY <2>1, <2>2
<1>10. entries' = [id \in D |-> AtPlace(entries[id], r(id))]
  BY <1>1, <1>8
<1> HIDE DEF r, key
<1>11. ASSUME NEW i \in DOMAIN entries
       PROVE  /\ entries'[i] \in ConfigType
              /\ entries'[i].url = entries[i].url /\ entries'[i].relay = entries[i].relay
              /\ entries'[i].grid = entries[i].grid /\ entries'[i].list = r(i)
  BY <1>9, <1>10, EntryFields, PlaceTyped
<1>12. /\ DOMAIN entries' = DOMAIN entries
       /\ entries' = [i \in DOMAIN entries |-> entries'[i]]
  BY <1>10
<1>13. EntriesTyped(entries') /\ ControllersFit'
  BY <1>1, <1>11, <1>12, PlacesOnly
<1>14. Apart(entries')
  <2>1. ASSUME NEW i \in DOMAIN entries, NEW j \in DOMAIN entries, i # j
        PROVE  entries'[i].grid # entries'[j].grid /\ entries'[i].list # entries'[j].list
    BY <1>9, <1>11, <2>1 DEF IInv, Apart
  <2> QED BY <1>12, <2>1 DEF Apart
<1> QED BY <1>13, <1>14 DEF Kept

-----------------------------------------------------------------------------
(* A file of a later version. *)

\* A run that has found a file of a later version knows it.
RefuseIsSet == running /\ file.kind = "future" => refuse

\* Once a run has read a file of a later version, load's refusal of every save
\* stands for the rest of that run.
THEOREM RefuseIsInvariant == Spec => []RefuseIsSet
<1>1. Init => RefuseIsSet
  BY DEF Init, RefuseIsSet
<1>2. RefuseIsSet /\ [Next]_vars => RefuseIsSet'
  <2> SUFFICES ASSUME RefuseIsSet, [Next]_vars PROVE RefuseIsSet'
    OBVIOUS
  <2>1. CASE Start
    BY <2>1 DEF Start, RefuseIsSet
  <2>2. CASE End
    BY <2>2 DEF End, RefuseIsSet
  <2>3. CASE running /\ Operate /\ UNCHANGED <<running, refuse>>
    <3>1. ASSUME NEW es, Persist(es), UNCHANGED <<running, refuse>> PROVE RefuseIsSet'
      BY <3>1 DEF Persist, RefuseIsSet
    <3>2. Persist(entries')
      BY <2>3 DEF Operate, AddChannel, RemoveChannel, UpdateChannel, SwapGrid,
             MoveGrid, ReorderList
    <3> QED BY <2>3, <3>1, <3>2
  <2>4. CASE UNCHANGED vars
    BY <2>4 DEF vars, RefuseIsSet
  <2> QED BY <2>1, <2>2, <2>3, <2>4 DEF Next
<1> QED BY <1>1, <1>2, PTL DEF Spec

\* A file of a later version is never written to: persist is refused in every
\* run that found one (JsonChannelRepository::m_refuseSave).
THEOREM LaterFileIsSafe == Spec => LaterFileIsKept
<1>1. RefuseIsSet /\ [Next]_vars => [file.kind = "future" => UNCHANGED file]_vars
  <2> SUFFICES ASSUME RefuseIsSet, Next, file.kind = "future" PROVE UNCHANGED file
    BY DEF vars
  <2>1. CASE Start \/ End
    BY <2>1 DEF Start, End
  <2>2. CASE running /\ Operate /\ UNCHANGED <<running, refuse>>
    <3>1. refuse
      BY <2>2 DEF RefuseIsSet
    <3>2. Persist(entries')
      BY <2>2 DEF Operate, AddChannel, RemoveChannel, UpdateChannel, SwapGrid,
             MoveGrid, ReorderList
    <3> QED BY <3>1, <3>2 DEF Persist
  <2> QED BY <2>1, <2>2 DEF Next
<1> QED BY <1>1, RefuseIsInvariant, PTL DEF Spec, LaterFileIsKept

-----------------------------------------------------------------------------
(* The theorems. *)

\* Every operation keeps the channels and saves them.
LEMMA OperateKeeps == ASSUME IInv, Operate PROVE Kept /\ Persist(entries')
<1>1. ASSUME NEW s \in Settings, AddChannel(s) PROVE Kept /\ Persist(entries')
  BY <1>1, AddKeeps DEF AddChannel
<1>2. ASSUME NEW id \in Ids, RemoveChannel(id) PROVE Kept /\ Persist(entries')
  BY <1>2, RemoveKeeps DEF RemoveChannel
<1>3. ASSUME NEW id \in Ids, NEW s \in Settings, UpdateChannel(id, s)
      PROVE  Kept /\ Persist(entries')
  BY <1>3, UpdateKeeps DEF UpdateChannel
<1>4. ASSUME NEW a \in Ids, NEW b \in Ids, SwapGrid(a, b) PROVE Kept /\ Persist(entries')
  BY <1>4, SwapKeeps DEF SwapGrid
<1>5. ASSUME NEW id \in Ids, NEW cell \in 0 .. MaxCell, MoveGrid(id, cell)
      PROVE  Kept /\ Persist(entries')
  BY <1>5, MoveKeeps DEF MoveGrid
<1>6. ASSUME NEW order \in Orders, ReorderList(order) PROVE Kept /\ Persist(entries')
  BY <1>6, ReorderKeeps DEF ReorderList
<1> QED BY <1>1, <1>2, <1>3, <1>4, <1>5, <1>6 DEF Operate

\* The inductive invariant holds in every state of every run of the program.
THEOREM Invariance == Spec => []IInv
<1>1. IInv /\ [Next]_vars => IInv'
  <2> SUFFICES ASSUME IInv, [Next]_vars PROVE IInv'
    OBVIOUS
  <2>1. CASE Start
    BY <2>1, StartKeepsIInv
  <2>2. CASE End
    BY <2>2, EndKeepsIInv
  <2>3. CASE running /\ Operate /\ UNCHANGED <<running, refuse>>
    BY <2>3, OperateKeeps, SaveKeepsIInv
  <2>4. CASE UNCHANGED vars
    BY <2>4 DEF vars, IInv, ControllersFit, ConnectionFollowsConfig,
           RestartKeepsChannels, Restored
  <2> QED BY <2>1, <2>2, <2>3, <2>4 DEF Next
<1> QED BY <1>1, InitIInv, PTL DEF Spec

\* m_entries never holds more than kDefaultMaxChannels, after restore from any
\* file included, and every entry has its controller (makeEntry).
THEOREM TypeCorrect == Spec => []TypeOK
<1>1. IInv => TypeOK
  BY DEF IInv, TypeOK, EntriesTyped, ControllersFit, Readable
<1> QED BY <1>1, Invariance, PTL

\* No two channels share a gridIndex or a listIndex, through addChannel,
\* removeChannel, swapGrid, moveGrid, reorderList and restore.
THEOREM PlacesStayApart == Spec => []PlacesAreDistinct
<1>1. IInv => PlacesAreDistinct
  BY DEF IInv, Apart, PlacesAreDistinct
<1> QED BY <1>1, Invariance, PTL

\* What persist has saved is what restore would bring back.
THEOREM RestartIsSafe == Spec => []RestartKeepsChannels
<1>1. IInv => RestartKeepsChannels
  BY DEF IInv
<1> QED BY <1>1, Invariance, PTL

\* The controller of every channel connects to what its configuration says,
\* whatever the file held and however often the program was restarted (makeEntry,
\* updateChannel).
THEOREM ConnectionsFit == Spec => []ConnectionFollowsConfig
<1>1. IInv => ConnectionFollowsConfig
  BY DEF IInv, ControllersFit
<1> QED BY <1>1, Invariance, PTL

\* No operation touches the connection of a channel that keeps its address and
\* mode (updateChannel, moveGrid, reorderList).
THEOREM NobodyElseIsCut == Spec => ConnectionsAreLeftAlone
<1> DEFINE A == running /\ running' =>
        \A id \in DOMAIN entries \cap DOMAIN entries' :
            ConnectUrl(id, entries'[id]) = ConnectUrl(id, entries[id]) => ctrl'[id] = ctrl[id]
<1>1. IInv /\ [Next]_vars => [A]_vars
  <2> SUFFICES ASSUME IInv, Next, running, running',
                      NEW id \in DOMAIN entries, id \in DOMAIN entries',
                      ConnectUrl(id, entries'[id]) = ConnectUrl(id, entries[id])
               PROVE  ctrl'[id] = ctrl[id]
    OBVIOUS
  <2>0. Operate /\ ctrl = [i \in DOMAIN entries |-> ctrl[i]]
    BY DEF Next, Start, End, IInv, ControllersFit
  <2>1. ASSUME NEW s \in Settings, AddChannel(s) PROVE ctrl'[id] = ctrl[id]
    <3>1. NextIdNumber # id
      BY EntryFields, NextIdIsNew
    <3> QED BY <2>1, <3>1 DEF AddChannel
  <2>2. ASSUME NEW i \in Ids, RemoveChannel(i) PROVE ctrl'[id] = ctrl[id]
    BY <2>0, <2>2 DEF RemoveChannel
  <2>3. ASSUME NEW i \in Ids, NEW s \in Settings, UpdateChannel(i, s) PROVE ctrl'[id] = ctrl[id]
    <3> DEFINE cfg == Config(s, entries[i].grid, entries[i].list)
    <3>1. /\ i \in DOMAIN entries /\ entries' = [entries EXCEPT ![i] = cfg]
          /\ ctrl' = [ctrl EXCEPT ![i] = UpdatedController(i, cfg)]
      BY <2>3 DEF UpdateChannel
    <3> HIDE DEF cfg
    <3>2. CASE i # id
      BY <2>0, <3>1, <3>2
    <3>3. CASE i = id
      <4>1. entries'[id] = cfg /\ ctrl'[id] = UpdatedController(id, cfg)
        BY <2>0, <3>1, <3>3 DEF IInv, ControllersFit
      <4>2. ConnectUrl(id, cfg) = ConnectUrl(id, entries[id])
        BY <4>1
      <4>3. cfg.relay \in BOOLEAN /\ entries[id].relay \in BOOLEAN
        BY <3>1, <3>3, EntryFields, SettingsTyped DEF cfg, ConfigType
      <4>4. /\ cfg.relay <=> entries[id].relay
            /\ ~cfg.relay => cfg.url = entries[id].url
        BY <4>2, <4>3 DEF ConnectUrl, RelayUrl
      <4> QED BY <4>1, <4>3, <4>4 DEF UpdatedController
    <3> QED BY <3>2, <3>3
  <2>4. ASSUME UNCHANGED ctrl PROVE ctrl'[id] = ctrl[id]
    BY <2>4
  <2> QED BY <2>0, <2>1, <2>2, <2>3, <2>4 DEF Operate, SwapGrid, MoveGrid, ReorderList
<1> QED BY <1>1, Invariance, PTL DEF Spec, ConnectionsAreLeftAlone

-----------------------------------------------------------------------------
(***************************************************************************)
(* How a run ends: the teardown over the control thread (ControlLoop), for *)
(* every number of channels and every length of a join.                    *)
(***************************************************************************)
\* The numbers of a set, one after the other.
LEMMA NthOfNumbers ==
    ASSUME NEW S \in SUBSET Nat, IsFiniteSet(S)
    PROVE  /\ Cardinality(S) \in Nat
           /\ \A n \in 1 .. Cardinality(S) : Nth(S, n) \in S
           /\ \A i \in S : \E n \in 1 .. Cardinality(S) : Nth(S, n) = i
           /\ \A m, n \in 1 .. Cardinality(S) : m < n => Nth(S, m) < Nth(S, n)
<1> DEFINE K == Cardinality(S)
           key == [i \in S |-> i]
           r(i) == Cardinality(Lower(S, key, i))
<1>1. K \in Nat
  BY FS_CardinalityType
<1>2. key \in [S -> Nat] /\ \A a, b \in S : a # b => key[a] # key[b]
  OBVIOUS
<1>3. /\ \A i \in S : r(i) \in 0 .. K - 1
      /\ \A a, b \in S : a # b => r(a) # r(b)
      /\ \A a, b \in S : key[a] < key[b] => r(a) < r(b)
      /\ \A n \in 0 .. K - 1 : \E i \in S : r(i) = n
  <2> HIDE DEF key
  <2> QED BY <1>2, RanksAreNumbers
<1>4. \A i \in S : Lower(S, key, i) = {j \in S : j < i} /\ key[i] = i
  BY DEF Lower
<1>5. \A i \in S : Cardinality({j \in S : j < i}) = r(i)
  BY <1>4
<1> HIDE DEF r, key
<1>6. ASSUME NEW n \in 1 .. K PROVE Nth(S, n) \in S /\ r(Nth(S, n)) = n - 1
  <2>1. n - 1 \in 0 .. K - 1
    BY <1>1
  <2>2. \E i \in S : Cardinality({j \in S : j < i}) = n - 1
    BY <1>3, <1>5, <2>1
  <2>3. Nth(S, n) \in S /\ Cardinality({j \in S : j < Nth(S, n)}) = n - 1
    BY <2>2 DEF Nth
  <2> QED BY <1>5, <2>3
<1>7. ASSUME NEW i \in S PROVE \E n \in 1 .. K : Nth(S, n) = i
  <2>1. r(i) + 1 \in 1 .. K /\ (r(i) + 1) - 1 = r(i)
    BY <1>1, <1>3
  <2>2. Nth(S, r(i) + 1) \in S /\ r(Nth(S, r(i) + 1)) = r(i)
    BY <1>6, <2>1
  <2> QED BY <1>3, <2>1, <2>2
<1>8. ASSUME NEW m \in 1 .. K, NEW n \in 1 .. K, m < n PROVE Nth(S, m) < Nth(S, n)
  <2> DEFINE a == Nth(S, m)
             b == Nth(S, n)
  <2>1. a \in S /\ b \in S /\ r(a) = m - 1 /\ r(b) = n - 1
    BY <1>6
  <2>2. a \in Nat /\ b \in Nat /\ key[a] = a /\ key[b] = b
    BY <1>4, <2>1
  <2> HIDE DEF a, b
  <2>3. a # b
    BY <1>1, <1>8, <2>1
  <2>4. b < a => r(b) < r(a)
    BY <1>3, <2>1, <2>2
  <2>5. a < b
    BY <1>1, <1>8, <2>1, <2>2, <2>3, <2>4
  <2> QED BY <2>5 DEF a, b
<1> QED BY <1>1, <1>6, <1>7, <1>8

\* What is left of a queue at some of its places is in it, in its order.
LEMMA AtKeepsOrder ==
    ASSUME NEW q \in Seq(Task), NEW S \in SUBSET DOMAIN q
    PROVE  /\ At(q, S) \in Seq(Task)
           /\ \A n \in DOMAIN At(q, S) : \E i \in S : At(q, S)[n] = q[i]
           /\ \A i \in S : \E n \in DOMAIN At(q, S) :
                 /\ At(q, S)[n] = q[i]
                 /\ \A m \in DOMAIN At(q, S) :
                       /\ n < m => \E j \in S : i < j /\ At(q, S)[m] = q[j]
                       /\ m < n => \E j \in S : j < i /\ At(q, S)[m] = q[j]
<1> DEFINE K == Cardinality(S)
           t == At(q, S)
<1>1. Len(q) \in Nat /\ DOMAIN q = 1 .. Len(q) /\ \A i \in DOMAIN q : q[i] \in Task
  OBVIOUS
<1>2. S \in SUBSET Nat /\ IsFiniteSet(S)
  <2>1. IsFiniteSet(1 .. Len(q))
    BY <1>1, FS_Interval
  <2> QED BY <1>1, <2>1, FS_Subset
<1>3. /\ K \in Nat
      /\ \A n \in 1 .. K : Nth(S, n) \in S
      /\ \A i \in S : \E n \in 1 .. K : Nth(S, n) = i
      /\ \A m, n \in 1 .. K : m < n => Nth(S, m) < Nth(S, n)
  BY <1>2, NthOfNumbers
<1>4. t = [n \in 1 .. K |-> q[Nth(S, n)]]
  BY DEF At
<1> HIDE DEF t, K
<1>5. t \in Seq(Task) /\ DOMAIN t = 1 .. K /\ \A n \in 1 .. K : t[n] = q[Nth(S, n)]
  BY <1>1, <1>3, <1>4
<1>6. ASSUME NEW i \in S
      PROVE  \E n \in DOMAIN t :
                /\ t[n] = q[i]
                /\ \A m \in DOMAIN t :
                      /\ n < m => \E j \in S : i < j /\ t[m] = q[j]
                      /\ m < n => \E j \in S : j < i /\ t[m] = q[j]
  <2>1. PICK n \in 1 .. K : Nth(S, n) = i
    BY <1>3
  <2>2. ASSUME NEW m \in 1 .. K, n < m PROVE \E j \in S : i < j /\ t[m] = q[j]
    BY <1>3, <1>5, <2>1, <2>2
  <2>3. ASSUME NEW m \in 1 .. K, m < n PROVE \E j \in S : j < i /\ t[m] = q[j]
    BY <1>3, <1>5, <2>1, <2>3
  <2> QED BY <1>5, <2>1, <2>2, <2>3
<1>7. \A n \in DOMAIN t : \E i \in S : t[n] = q[i]
  BY <1>3, <1>5
<1> QED BY <1>5, <1>6, <1>7 DEF t

-----------------------------------------------------------------------------
(* The invariant. *)

ControlType == [at   : {"waiting", "restart", "error", "teardown", "tick", "tickJoin",
                        "recTick", "exited"},
                ch   : 0 .. N, join : Int, mgr : BOOLEAN, rec : BOOLEAN]
IsEvent(t) == t.kind \in {"packet", "error"}
\* The queue holds the teardown, once, and behind it nothing but events of the
\* sources.
TeardownIn(q) ==
    \E i \in DOMAIN q :
        /\ q[i].kind = "teardown"
        /\ \A j \in DOMAIN q : (i < j => IsEvent(q[j])) /\ (j < i => q[j].kind # "teardown")

LoopTyped ==
    /\ queue \in Seq(Task)
    /\ \A i \in DOMAIN queue : IsEvent(queue[i]) => queue[i].ch \in Channels
    /\ channel \in [Channels -> [state : {"idle", "opening", "up", "down"}, age : Int]]
    /\ control \in ControlType
    /\ control.at = "tick" => control.ch \in Channels
    /\ main \in [at : ToSet(Teardown), awake : BOOLEAN]
    /\ ptrs \in [mgr : BOOLEAN, rec : BOOLEAN]

\* The teardown is not posted yet.
NotPosted == control.at # "teardown" /\ \A i \in DOMAIN queue : queue[i].kind # "teardown"
\* It waits in the queue.
Queued == control.at # "teardown" /\ TeardownIn(queue)
\* disconnectAll is on its way: the channels before control.ch are closed, and
\* only the others have events left.
Closing ==
    /\ control.at = "teardown" /\ control.ch \in Channels
    /\ \A i \in DOMAIN queue : IsEvent(queue[i]) /\ queue[i].ch >= control.ch
    /\ \A ch \in Channels : ch < control.ch => channel[ch].state = "idle"
\* It is over: every source is closed, and nobody is left to post.
Over ==
    /\ control.at \in {"waiting", "tick", "recTick", "exited"} /\ ~control.rec
    /\ queue = <<>>
    /\ \A ch \in Channels : channel[ch].state = "idle"

DrainInv ==
    /\ LoopTyped
    /\ main.at \in {"running", "posting"} => NotPosted
    /\ main.at = "draining" => Queued \/ Closing \/ Over
    /\ main.at \notin {"running", "posting", "draining"} => Over
    /\ main.at # "running" => ~ptrs.rec
    /\ control.rec => control.at = "recTick"

-----------------------------------------------------------------------------
\* What a close, or the packets of a unit of time, take from the queue does not
\* change the order of the rest.
LEMMA LeftInOrder ==
    ASSUME LoopTyped, NEW S \in SUBSET DOMAIN queue,
           \A i \in DOMAIN queue : ~IsEvent(queue[i]) => i \in S
    PROVE  /\ At(queue, S) \in Seq(Task)
           /\ \A n \in DOMAIN At(queue, S) : \E i \in S : At(queue, S)[n] = queue[i]
           /\ TeardownIn(queue) => TeardownIn(At(queue, S))
<1>0. queue \in Seq(Task)
  BY DEF LoopTyped
<1> DEFINE t == At(queue, S)
<1>1. /\ t \in Seq(Task)
      /\ \A n \in DOMAIN t : \E i \in S : t[n] = queue[i]
      /\ \A i \in S : \E n \in DOMAIN t :
            /\ t[n] = queue[i]
            /\ \A m \in DOMAIN t :
                  /\ n < m => \E j \in S : i < j /\ t[m] = queue[j]
                  /\ m < n => \E j \in S : j < i /\ t[m] = queue[j]
  BY <1>0, AtKeepsOrder
<1> HIDE DEF t
<1>2. ASSUME TeardownIn(queue) PROVE TeardownIn(t)
  <2>1. PICK i \in DOMAIN queue :
            /\ queue[i].kind = "teardown"
            /\ \A j \in DOMAIN queue :
                  (i < j => IsEvent(queue[j])) /\ (j < i => queue[j].kind # "teardown")
    BY <1>2 DEF TeardownIn
  <2>2. i \in S
    BY <2>1 DEF IsEvent
  <2>3. PICK n \in DOMAIN t :
            /\ t[n] = queue[i]
            /\ \A m \in DOMAIN t :
                  /\ n < m => \E j \in S : i < j /\ t[m] = queue[j]
                  /\ m < n => \E j \in S : j < i /\ t[m] = queue[j]
    BY <1>1, <2>2
  <2>4. ASSUME NEW m \in DOMAIN t
        PROVE  (n < m => IsEvent(t[m])) /\ (m < n => t[m].kind # "teardown")
    BY <2>1, <2>3
  <2> QED BY <2>1, <2>3, <2>4 DEF TeardownIn
<1> QED BY <1>1, <1>2 DEF t

\* A close takes the events of the channel from the queue and nothing else.
LEMMA WithoutShape ==
    ASSUME LoopTyped, NEW ch
    PROVE  /\ Without(queue, ch) \in Seq(Task)
           /\ \A n \in DOMAIN Without(queue, ch) :
                 /\ \E i \in DOMAIN queue : Without(queue, ch)[n] = queue[i]
                 /\ IsEvent(Without(queue, ch)[n]) => Without(queue, ch)[n].ch # ch
           /\ TeardownIn(queue) => TeardownIn(Without(queue, ch))
<1> DEFINE S == {i \in DOMAIN queue : queue[i].ch # ch \/ queue[i].kind \notin {"packet", "error"}}
<1>1. Without(queue, ch) = At(queue, S)
  BY DEF Without
<1>2. /\ S \in SUBSET DOMAIN queue
      /\ \A i \in DOMAIN queue : ~IsEvent(queue[i]) => i \in S
      /\ \A i \in S : IsEvent(queue[i]) => queue[i].ch # ch
  BY DEF IsEvent
<1> HIDE DEF S
<1>3. /\ At(queue, S) \in Seq(Task)
      /\ \A n \in DOMAIN At(queue, S) : \E i \in S : At(queue, S)[n] = queue[i]
      /\ TeardownIn(queue) => TeardownIn(At(queue, S))
  BY <1>2, LeftInOrder
<1> QED BY <1>1, <1>2, <1>3

\* A unit of time moves packets to the end of the queue, and adds some.
LEMMA ElapseShape ==
    ASSUME LoopTyped, Elapse, N \in Nat
    PROVE  /\ queue' \in Seq(Task)
           /\ \A n \in DOMAIN queue' :
                 \/ \E i \in DOMAIN queue : queue'[n] = queue[i]
                 \/ queue'[n].kind = "packet" /\ queue'[n].ch \in Delivering
           /\ TeardownIn(queue) => TeardownIn(queue')
<1> DEFINE S == {i \in DOMAIN queue : ~(queue[i].kind = "packet" /\ queue[i].ch \in Delivering)}
           K == Cardinality(Delivering)
           a == At(queue, S)
           b == [n \in 1 .. K |-> [kind |-> "packet", ch |-> Nth(Delivering, n)]]
<1>1. queue' = a \o b
  BY DEF Elapse
<1>2. /\ S \in SUBSET DOMAIN queue
      /\ \A i \in DOMAIN queue : ~IsEvent(queue[i]) => i \in S
  BY DEF IsEvent
<1>3. Delivering \in SUBSET Nat /\ IsFiniteSet(Delivering) /\ Delivering \subseteq Channels
  <2>1. Delivering \subseteq Channels
    BY DEF Delivering
  <2>2. IsFiniteSet(Channels) /\ Channels \subseteq Nat
    BY FS_Interval DEF Channels
  <2> QED BY <2>1, <2>2, FS_Subset
<1>4. K \in Nat /\ \A n \in 1 .. K : Nth(Delivering, n) \in Delivering
  BY <1>3, NthOfNumbers
<1> HIDE DEF S, K
<1>5. /\ a \in Seq(Task)
      /\ \A n \in DOMAIN a : \E i \in S : a[n] = queue[i]
      /\ TeardownIn(queue) => TeardownIn(a)
  BY <1>2, LeftInOrder
<1> HIDE DEF a
<1>6. /\ b \in Seq(Task) /\ Len(b) = K
      /\ \A n \in 1 .. K : b[n].kind = "packet" /\ b[n].ch \in Delivering
  <2>1. \A n \in 1 .. K : [kind |-> "packet", ch |-> Nth(Delivering, n)] \in Task
    <3>1. Channels \subseteq 0 .. N
      BY DEF Channels
    <3>2. \A n \in 1 .. K : Nth(Delivering, n) \in 0 .. N
      BY <1>3, <1>4, <3>1
    <3> QED BY <3>2 DEF Task
  <2> QED BY <1>4, <2>1
<1> HIDE DEF b
<1>7. /\ queue' \in Seq(Task) /\ Len(a) \in Nat
      /\ DOMAIN a = 1 .. Len(a) /\ DOMAIN queue' = 1 .. Len(a) + K
      /\ \A n \in 1 .. Len(a) : queue'[n] = a[n]
      /\ \A n \in 1 .. K : queue'[Len(a) + n] = b[n]
  <2>1. Len(a) \in Nat /\ DOMAIN a = 1 .. Len(a) /\ DOMAIN b = 1 .. K
    BY <1>4, <1>5, <1>6
  <2>2. queue' \in Seq(Task) /\ Len(queue') = Len(a) + K
    BY <1>1, <1>4, <1>5, <1>6
  <2>3. \A n \in 1 .. Len(a) : queue'[n] = a[n]
    BY <1>1, <1>4, <1>5, <1>6, <2>1
  <2>4. ASSUME NEW n \in 1 .. K PROVE queue'[Len(a) + n] = b[n]
    BY <1>1, <1>4, <1>5, <1>6, <2>1
  <2> QED BY <2>1, <2>2, <2>3, <2>4
<1>8. ASSUME NEW n \in DOMAIN queue', n \notin DOMAIN a
      PROVE  queue'[n].kind = "packet" /\ queue'[n].ch \in Delivering
  <2>1. n - Len(a) \in 1 .. K /\ Len(a) + (n - Len(a)) = n
    BY <1>4, <1>7, <1>8
  <2>2. queue'[n] = b[n - Len(a)]
    BY <1>7, <2>1
  <2> QED BY <1>6, <2>1, <2>2
<1>9. ASSUME NEW n \in DOMAIN a PROVE \E i \in DOMAIN queue : queue'[n] = queue[i]
  BY <1>2, <1>5, <1>7
<1>10. ASSUME TeardownIn(queue) PROVE TeardownIn(queue')
  <2>1. PICK n \in DOMAIN a :
            /\ a[n].kind = "teardown"
            /\ \A m \in DOMAIN a : (n < m => IsEvent(a[m])) /\ (m < n => a[m].kind # "teardown")
    BY <1>5, <1>10 DEF TeardownIn
  <2>2. n \in DOMAIN queue' /\ queue'[n] = a[n]
    BY <1>4, <1>7
  <2>3. ASSUME NEW m \in DOMAIN queue'
        PROVE  (n < m => IsEvent(queue'[m])) /\ (m < n => queue'[m].kind # "teardown")
    <3>1. CASE m \in DOMAIN a
      BY <1>7, <2>1, <3>1
    <3>2. CASE m \notin DOMAIN a
      BY <1>8, <3>2 DEF IsEvent
    <3> QED BY <3>1, <3>2
  <2> QED BY <2>1, <2>2, <2>3 DEF TeardownIn
<1> QED BY <1>7, <1>8, <1>9, <1>10

-----------------------------------------------------------------------------
(* The steps. *)

\* A step that leaves the main thread where it is.
LEMMA StageKept ==
    ASSUME DrainInv, LoopTyped', main'.at = main.at, ptrs' = ptrs,
           control'.rec => control'.at = "recTick",
           main.at \in {"running", "posting"} /\ NotPosted => NotPosted',
           main.at = "draining" /\ Queued => Queued' \/ Closing',
           main.at = "draining" /\ Closing => Closing' \/ Over',
           main.at \notin {"running", "posting"} /\ Over => Over'
    PROVE  DrainInv'
<1>1. main.at = "draining" => Queued' \/ Closing' \/ Over'
  BY DEF DrainInv
<1>2. main.at \notin {"running", "posting", "draining"} => Over'
  BY DEF DrainInv
<1>3. main.at \in {"running", "posting"} => NotPosted'
  BY DEF DrainInv
<1> QED BY <1>1, <1>2, <1>3 DEF DrainInv

\* To wake who drains leaves him where he is.
LEMMA NotifiedShape ==
    ASSUME main \in [at : ToSet(Teardown), awake : BOOLEAN]
    PROVE  Notified \in [at : ToSet(Teardown), awake : BOOLEAN] /\ Notified.at = main.at
  BY DEF Notified

\* The record of a thread that waits.
LEMMA WaitingShape ==
    ASSUME N \in Nat
    PROVE  /\ Waiting \in ControlType
           /\ Waiting.at = "waiting" /\ ~Waiting.rec /\ Waiting.ch = 0
  BY DEF Waiting, ControlType

\* The head of the queue is what runs; the rest stays.
LEMMA TailShape ==
    ASSUME LoopTyped, queue # <<>>
    PROVE  /\ Tail(queue) \in Seq(Task) /\ Head(queue) = queue[1] /\ 1 \in DOMAIN queue
           /\ \A n \in DOMAIN Tail(queue) : n + 1 \in DOMAIN queue /\ Tail(queue)[n] = queue[n + 1]
           /\ \A i \in DOMAIN queue : i # 1 => i - 1 \in DOMAIN Tail(queue) /\ (i - 1) + 1 = i
  BY DEF LoopTyped

\* A task begins: a packet is heard, anything else keeps the thread busy.
LEMMA RunTaskShape ==
    ASSUME LoopTyped, RunTask
    PROVE  LET t == Head(queue) IN
           /\ queue # <<>> /\ control.at = "waiting" /\ ptrs' = ptrs /\ camera' = camera
           /\ queue' = Tail(queue)
           /\ \/ /\ t.kind = "packet" /\ channel' = Set(t.ch, "up")
                 /\ control' = control /\ (main' = Notified \/ main' = main)
              \/ /\ t.kind = "teardown" /\ channel' = channel /\ main' = main
                 /\ control' = [Waiting EXCEPT !.at = "teardown", !.ch = 1, !.join = JoinTime]
              \/ /\ t.kind \in {"error", "restart"} /\ channel' = channel /\ main' = main
                 /\ control' = [Waiting EXCEPT !.at = t.kind, !.ch = t.ch, !.join = JoinTime]
<1> DEFINE t == Head(queue)
<1>0. queue # <<>> /\ control.at = "waiting" /\ ptrs' = ptrs /\ camera' = camera
  BY DEF RunTask, Free
<1>1. t \in Task
  BY <1>0, TailShape DEF LoopTyped
<1>2. t.kind \in {"packet", "error", "restart", "teardown"}
  BY <1>1 DEF Task
<1> HIDE DEF t
<1>3. CASE t.kind = "packet"
  BY <1>0, <1>3 DEF RunTask, t
<1>4. CASE t.kind = "teardown"
  BY <1>0, <1>4 DEF RunTask, t
<1>5. CASE t.kind \in {"error", "restart"}
  BY <1>0, <1>5 DEF RunTask, t
<1> QED BY <1>2, <1>3, <1>4, <1>5 DEF t

\* No task disturbs the teardown on its way.
LEMMA RunTaskKeeps ==
    ASSUME DrainInv, RunTask, N \in Nat \ {0}, JoinTime \in Nat
    PROVE  DrainInv'
<1> DEFINE t == Head(queue)
<1>0. LoopTyped /\ queue # <<>> /\ control.at = "waiting" /\ ptrs' = ptrs
  BY DEF DrainInv, RunTask, Free
<1>1. /\ queue' = Tail(queue)
      /\ \/ /\ t.kind = "packet" /\ channel' = Set(t.ch, "up")
            /\ control' = control /\ (main' = Notified \/ main' = main)
         \/ /\ t.kind = "teardown" /\ channel' = channel /\ main' = main
            /\ control' = [Waiting EXCEPT !.at = "teardown", !.ch = 1, !.join = JoinTime]
         \/ /\ t.kind \in {"error", "restart"} /\ channel' = channel /\ main' = main
            /\ control' = [Waiting EXCEPT !.at = t.kind, !.ch = t.ch, !.join = JoinTime]
  BY <1>0, RunTaskShape
<1>2. /\ Tail(queue) \in Seq(Task) /\ t = queue[1] /\ 1 \in DOMAIN queue /\ t \in Task
      /\ \A n \in DOMAIN Tail(queue) : n + 1 \in DOMAIN queue /\ Tail(queue)[n] = queue[n + 1]
      /\ \A i \in DOMAIN queue : i # 1 => i - 1 \in DOMAIN Tail(queue) /\ (i - 1) + 1 = i
      /\ DOMAIN queue \subseteq Nat \ {0} /\ DOMAIN Tail(queue) \subseteq Nat \ {0}
  <2>1. queue \in Seq(Task) /\ Tail(queue) \in Seq(Task) /\ t = queue[1] /\ 1 \in DOMAIN queue
    BY <1>0, TailShape DEF LoopTyped
  <2>2. DOMAIN queue \subseteq Nat \ {0} /\ DOMAIN Tail(queue) \subseteq Nat \ {0} /\ t \in Task
    BY <2>1
  <2> QED BY <1>0, <2>1, <2>2, TailShape
<1> HIDE DEF t
<1>3. main' \in [at : ToSet(Teardown), awake : BOOLEAN] /\ main'.at = main.at
  BY <1>0, <1>1, NotifiedShape DEF LoopTyped
<1>4. control' \in ControlType /\ ~control'.rec
  <2>1. t.ch \in 0 .. N
    BY <1>2 DEF Task
  <2>2. /\ Waiting = [at |-> "waiting", ch |-> 0, join |-> 0, mgr |-> FALSE, rec |-> FALSE]
        /\ 1 \in 0 .. N /\ JoinTime \in Int
    BY DEF Waiting
  <2>3. CASE control' = control
    BY <1>0, <2>3 DEF DrainInv, LoopTyped
  <2>4. CASE control' = [Waiting EXCEPT !.at = "teardown", !.ch = 1, !.join = JoinTime]
    BY <2>2, <2>4 DEF ControlType
  <2>5. CASE t.kind \in {"error", "restart"}
             /\ control' = [Waiting EXCEPT !.at = t.kind, !.ch = t.ch, !.join = JoinTime]
    BY <2>1, <2>2, <2>5 DEF ControlType
  <2> QED BY <1>1, <2>3, <2>4, <2>5
<1>5. channel' \in [Channels -> [state : {"idle", "opening", "up", "down"}, age : Int]]
  BY <1>0, <1>1, <1>2 DEF LoopTyped, Set
<1>6. \A n \in DOMAIN queue' : IsEvent(queue'[n]) => queue'[n].ch \in Channels
  BY <1>0, <1>1, <1>2 DEF LoopTyped
<1>11. control'.at # "tick"
  BY <1>0, <1>1 DEF Waiting
<1>7. LoopTyped'
  BY <1>0, <1>1, <1>2, <1>3, <1>4, <1>5, <1>6, <1>11 DEF LoopTyped, IsEvent
<1>8. control'.at = "teardown" <=> t.kind = "teardown"
  BY <1>0, <1>1 DEF Waiting
<1>9. NotPosted => NotPosted'
  BY <1>1, <1>2, <1>8 DEF NotPosted
<1>10. ASSUME Queued PROVE Queued' \/ Closing'
  <2>1. PICK i \in DOMAIN queue :
            /\ queue[i].kind = "teardown"
            /\ \A j \in DOMAIN queue :
                  (i < j => IsEvent(queue[j])) /\ (j < i => queue[j].kind # "teardown")
    BY <1>10 DEF Queued, TeardownIn
  <2>2. CASE i = 1
    <3>0. t.kind = "teardown"
      BY <1>2, <2>1, <2>2
    <3>1. control'.at = "teardown" /\ control'.ch = 1
      BY <1>1, <3>0 DEF Waiting
    <3>4. 1 \in Channels /\ \A ch \in Channels : ch \in Int /\ ch >= 1
      BY DEF Channels
    <3>2. ASSUME NEW n \in DOMAIN queue' PROVE IsEvent(queue'[n]) /\ queue'[n].ch >= 1
      <4>1. IsEvent(queue'[n])
        <5>1. n + 1 \in DOMAIN queue /\ 1 < n + 1 /\ queue'[n] = queue[n + 1]
          BY <1>1, <1>2
        <5> QED BY <2>1, <2>2, <5>1
      <4> QED BY <1>6, <3>4, <4>1
    <3>3. \A ch \in Channels : ~(ch < 1)
      BY <3>4
    <3> QED BY <3>1, <3>2, <3>3, <3>4 DEF Closing, IsEvent
  <2>3. CASE i # 1
    <3>1. i - 1 \in DOMAIN queue' /\ queue'[i - 1].kind = "teardown"
      BY <1>1, <1>2, <2>1, <2>3
    <3>2. ASSUME NEW m \in DOMAIN queue'
          PROVE  (i - 1 < m => IsEvent(queue'[m])) /\ (m < i - 1 => queue'[m].kind # "teardown")
      BY <1>1, <1>2, <2>1
    <3>3. control'.at # "teardown"
      <4>1. 1 < i
        BY <1>2, <2>3
      <4> QED BY <1>2, <1>8, <2>1, <4>1
    <3> QED BY <3>1, <3>2, <3>3 DEF Queued, TeardownIn
  <2> QED BY <2>2, <2>3
<1> QED BY <1>0, <1>3, <1>4, <1>7, <1>9, <1>10, StageKept DEF Closing, Over

\* What setting a channel's state does.
LEMMA SetShape ==
    ASSUME LoopTyped, NEW ch, NEW state \in {"idle", "opening", "up", "down"}
    PROVE  /\ Set(ch, state) \in [Channels -> [state : {"idle", "opening", "up", "down"}, age : Int]]
           /\ \A c \in Channels : c # ch => Set(ch, state)[c] = channel[c]
           /\ ch \in Channels => Set(ch, state)[ch].state = state
<1> DEFINE R == [state : {"idle", "opening", "up", "down"}, age : Int]
           new == [state |-> state, age |-> 0]
<1>1. new \in R /\ new.state = state
  OBVIOUS
<1>2. channel \in [Channels -> R]
  BY DEF LoopTyped
<1>3. Set(ch, state) = [channel EXCEPT ![ch] = new]
  BY DEF Set
<1> HIDE DEF R, new
<1>4. Set(ch, state) \in [Channels -> R] /\ \A c \in Channels : c # ch => Set(ch, state)[c] = channel[c]
  BY <1>1, <1>2, <1>3
<1>5. ch \in Channels => Set(ch, state)[ch] = new
  BY <1>2, <1>3
<1> QED BY <1>1, <1>4, <1>5 DEF R

\* A close by a task or by the tick leaves the teardown where it is.
LEMMA CloseKeeps ==
    ASSUME DrainInv, control.at \in {"error", "restart", "tickJoin"},
           NEW state \in {"down", "opening"}, channel' = Set(control.ch, state),
           queue' = Without(queue, control.ch),
           control' \in ControlType, control'.at # "teardown",
           control'.rec => control'.at = "recTick",
           control'.at = "tick" => control'.ch \in Channels,
           main' = Notified \/ main' = main, ptrs' = ptrs
    PROVE  DrainInv'
<1>0. LoopTyped
  BY DEF DrainInv
<1>1. main' \in [at : ToSet(Teardown), awake : BOOLEAN] /\ main'.at = main.at
  BY <1>0, NotifiedShape DEF LoopTyped
<1>2. channel' \in [Channels -> [state : {"idle", "opening", "up", "down"}, age : Int]]
  BY <1>0, SetShape
<1>3. /\ queue' \in Seq(Task)
      /\ \A n \in DOMAIN queue' : \E i \in DOMAIN queue : queue'[n] = queue[i]
      /\ TeardownIn(queue) => TeardownIn(queue')
  BY <1>0, WithoutShape
<1>4. \A n \in DOMAIN queue' : IsEvent(queue'[n]) => queue'[n].ch \in Channels
  BY <1>0, <1>3 DEF LoopTyped
<1>5. LoopTyped'
  BY <1>0, <1>1, <1>2, <1>3, <1>4 DEF LoopTyped, IsEvent
<1>6. NotPosted => NotPosted'
  BY <1>3 DEF NotPosted
<1>7. Queued => Queued'
  BY <1>3 DEF Queued, TeardownIn, IsEvent
<1> QED BY <1>1, <1>5, <1>6, <1>7, StageKept DEF Closing, Over

\* What the tick is at after a channel.
LEMMA AdvancedShape ==
    ASSUME LoopTyped, N \in Nat
    PROVE  /\ Advanced \in ControlType /\ Advanced.at \in {"tick", "recTick"}
           /\ Advanced.at = "tick" => Advanced.ch \in Channels
           /\ Advanced.rec => Advanced.rec = control.rec \/ (Advanced.at = "recTick" /\ ptrs.rec)
<1>0. control \in ControlType /\ ptrs \in [mgr : BOOLEAN, rec : BOOLEAN]
  BY DEF LoopTyped
<1>1. /\ control.ch \in 0 .. N /\ ptrs.rec \in BOOLEAN
      /\ control.mgr \in BOOLEAN /\ control.rec \in BOOLEAN
      /\ control = [at |-> control.at, ch |-> control.ch, join |-> control.join,
                    mgr |-> control.mgr, rec |-> control.rec]
  BY <1>0 DEF ControlType
<1>2. CASE control.ch < N
  <2>1. Advanced = [control EXCEPT !.at = "tick", !.ch = @ + 1, !.join = 0]
    BY <1>2 DEF Advanced
  <2>2. control.ch + 1 \in 0 .. N /\ control.ch + 1 \in Channels
    BY <1>1, <1>2 DEF Channels
  <2>3. Advanced = [at |-> "tick", ch |-> control.ch + 1, join |-> 0,
                    mgr |-> control.mgr, rec |-> control.rec]
    BY <1>1, <2>1
  <2> QED BY <1>1, <2>2, <2>3 DEF ControlType
<1>3. CASE ~(control.ch < N)
  <2>1. Advanced = [control EXCEPT !.at = "recTick", !.join = 0, !.rec = ptrs.rec]
    BY <1>3 DEF Advanced
  <2>2. Advanced = [at |-> "recTick", ch |-> control.ch, join |-> 0,
                    mgr |-> control.mgr, rec |-> ptrs.rec]
    BY <1>1, <2>1
  <2> QED BY <1>1, <2>2 DEF ControlType
<1> QED BY <1>2, <1>3

\* The closes after an error, for a restart and by the tick.
LEMMA ClosesKeep ==
    ASSUME DrainInv, ErrorHandled \/ RestartHandled \/ StallClosed, N \in Nat
    PROVE  DrainInv'
<1>1. CASE ErrorHandled
  BY <1>1, CloseKeeps, WaitingShape DEF ErrorHandled
<1>2. CASE RestartHandled
  BY <1>2, CloseKeeps, WaitingShape DEF RestartHandled
<1>3. CASE StallClosed
  <2>1. /\ Advanced \in ControlType /\ Advanced.at # "teardown"
        /\ Advanced.at = "tick" => Advanced.ch \in Channels
    BY AdvancedShape DEF DrainInv
  <2>2. Advanced.rec => Advanced.at = "recTick"
    <3>1. ~control.rec
      BY <1>3 DEF StallClosed, DrainInv
    <3>2. control.rec \in BOOLEAN /\ Advanced.rec \in BOOLEAN
      BY <2>1 DEF DrainInv, LoopTyped, ControlType
    <3> QED BY <3>1, <3>2, AdvancedShape DEF DrainInv
  <2> QED BY <1>3, <2>1, <2>2, CloseKeeps DEF StallClosed
<1> QED BY <1>1, <1>2, <1>3

\* disconnectAll closes one channel after the other, and after the last there is
\* nothing left.
LEMMA DisconnectedKeeps ==
    ASSUME DrainInv, Disconnected, N \in Nat, JoinTime \in Nat
    PROVE  DrainInv'
<1>0. LoopTyped /\ control.at = "teardown" /\ ptrs' = ptrs
  BY DEF DrainInv, Disconnected
<1>1. main' \in [at : ToSet(Teardown), awake : BOOLEAN] /\ main'.at = main.at
  BY <1>0, NotifiedShape DEF LoopTyped, Disconnected
<1>2. channel' = Set(control.ch, "idle")
  BY DEF Disconnected
<1>3. channel' \in [Channels -> [state : {"idle", "opening", "up", "down"}, age : Int]]
  BY <1>0, <1>2, SetShape
<1>4. /\ queue' \in Seq(Task)
      /\ \A n \in DOMAIN queue' :
            /\ \E i \in DOMAIN queue : queue'[n] = queue[i]
            /\ IsEvent(queue'[n]) => queue'[n].ch # control.ch
  BY <1>0, WithoutShape DEF Disconnected
<1>5. \A n \in DOMAIN queue' : IsEvent(queue'[n]) => queue'[n].ch \in Channels
  BY <1>0, <1>4 DEF LoopTyped
<1>6. control.ch \in 0 .. N
  BY <1>0 DEF LoopTyped, ControlType
<1>7. CASE control.ch < N
  <2>1. control' = [control EXCEPT !.ch = @ + 1, !.join = JoinTime]
    BY <1>7 DEF Disconnected
  <2>2. control.ch + 1 \in 0 .. N
    BY <1>6, <1>7
  <2>3. /\ control' \in ControlType /\ control'.at = "teardown"
        /\ control'.ch = control.ch + 1 /\ control'.rec = control.rec
    <3>1. /\ control.mgr \in BOOLEAN /\ control.rec \in BOOLEAN /\ JoinTime \in Int
          /\ control = [at |-> control.at, ch |-> control.ch, join |-> control.join,
                        mgr |-> control.mgr, rec |-> control.rec]
      BY <1>0 DEF LoopTyped, ControlType
    <3>2. control' = [at |-> "teardown", ch |-> control.ch + 1, join |-> JoinTime,
                      mgr |-> control.mgr, rec |-> control.rec]
      BY <1>0, <2>1, <3>1
    <3> QED BY <2>2, <3>1, <3>2 DEF ControlType
  <2>4. LoopTyped'
    BY <1>0, <1>1, <1>3, <1>4, <1>5, <2>3 DEF LoopTyped, IsEvent
  <2>5. ASSUME Closing PROVE Closing'
    <3>1. control.ch \in Channels /\ control.ch + 1 \in Channels
      BY <1>6, <1>7, <2>5 DEF Closing, Channels
    <3>2. ASSUME NEW n \in DOMAIN queue' PROVE IsEvent(queue'[n]) /\ queue'[n].ch >= control.ch + 1
      <4>1. PICK i \in DOMAIN queue : queue'[n] = queue[i]
        BY <1>4
      <4>2. IsEvent(queue'[n]) /\ queue'[n].ch >= control.ch
        BY <2>5, <4>1 DEF Closing
      <4>3. queue'[n].ch # control.ch /\ queue'[n].ch \in Int
        BY <1>4, <1>5, <4>2 DEF Channels
      <4> QED BY <1>6, <4>2, <4>3
    <3>3. ASSUME NEW ch \in Channels, ch < control.ch + 1 PROVE channel'[ch].state = "idle"
      <4>1. CASE ch = control.ch
        BY <1>0, <1>2, <3>1, <4>1, SetShape
      <4>2. CASE ch # control.ch
        <5>1. ch < control.ch
          BY <1>6, <3>3, <4>2 DEF Channels
        <5>2. channel'[ch] = channel[ch]
          BY <1>0, <1>2, <4>2, SetShape
        <5> QED BY <2>5, <5>1, <5>2 DEF Closing
      <4> QED BY <4>1, <4>2
    <3> QED BY <2>3, <3>1, <3>2, <3>3 DEF Closing, IsEvent
  <2>6. ~control.rec
    BY <1>0 DEF DrainInv
  <2> QED BY <1>0, <1>1, <2>3, <2>4, <2>5, <2>6, StageKept DEF NotPosted, Queued, Over
<1>8. CASE ~(control.ch < N)
  <2>1. control' = Waiting
    BY <1>8 DEF Disconnected
  <2>2. LoopTyped'
    BY <1>0, <1>1, <1>3, <1>4, <1>5, <2>1, WaitingShape DEF LoopTyped, IsEvent
  <2>3. ASSUME Closing PROVE Over'
    <3>1. control.ch = N /\ control.ch \in Channels
      BY <1>6, <1>8, <2>3 DEF Closing
    <3>2. ASSUME NEW n \in DOMAIN queue' PROVE FALSE
      <4>1. PICK i \in DOMAIN queue : queue'[n] = queue[i]
        BY <1>4
      <4>2. IsEvent(queue'[n]) /\ queue'[n].ch >= N
        BY <2>3, <3>1, <4>1 DEF Closing
      <4> QED BY <1>4, <1>5, <3>1, <4>2 DEF Channels
    <3>3. queue' = <<>>
      BY <1>4, <3>2
    <3>4. ASSUME NEW ch \in Channels PROVE channel'[ch].state = "idle"
      <4>1. CASE ch = control.ch
        BY <1>0, <1>2, <3>1, <4>1, SetShape
      <4>2. CASE ch # control.ch
        <5>1. ch < control.ch
          BY <3>1, <4>2 DEF Channels
        <5>2. channel'[ch] = channel[ch]
          BY <1>0, <1>2, <4>2, SetShape
        <5> QED BY <2>3, <5>1, <5>2 DEF Closing
      <4> QED BY <4>1, <4>2
    <3> QED BY <2>1, <3>3, <3>4, WaitingShape DEF Over
  <2> QED BY <1>0, <1>1, <2>1, <2>2, <2>3, StageKept, WaitingShape DEF NotPosted, Queued, Over
<1> QED BY <1>7, <1>8

\* A tick that begins after the teardown finds no recordings.
LEMMA TickBeginsKeeps ==
    ASSUME DrainInv, TickBegins, N \in Nat \ {0}
    PROVE  DrainInv'
<1>0. /\ LoopTyped /\ control.at = "waiting" /\ ptrs' = ptrs /\ channel' = channel /\ queue' = queue
      /\ main' = Notified /\ ptrs.mgr \in BOOLEAN /\ ptrs.rec \in BOOLEAN
  BY DEF DrainInv, LoopTyped, TickBegins, Free
<1>1. control' = [at |-> IF ptrs.mgr THEN "tick" ELSE "recTick", ch |-> 1, join |-> 0,
                  mgr |-> ptrs.mgr, rec |-> ~ptrs.mgr /\ ptrs.rec]
  BY DEF TickBegins, Waiting
<1>2. 1 \in 0 .. N /\ 1 \in Channels
  BY DEF Channels
<1>3. /\ control'.ch \in Channels
      /\ control'.at \in {"tick", "recTick"} /\ control'.rec = (~ptrs.mgr /\ ptrs.rec)
      /\ control'.rec => control'.at = "recTick"
  BY <1>0, <1>1, <1>2
<1>4. control' \in ControlType
  <2>1. (~ptrs.mgr /\ ptrs.rec) \in BOOLEAN
    OBVIOUS
  <2>2. (IF ptrs.mgr THEN "tick" ELSE "recTick") \in {"tick", "recTick"}
    OBVIOUS
  <2> QED BY <1>0, <1>1, <1>2, <2>1, <2>2 DEF ControlType
<1>5. main' \in [at : ToSet(Teardown), awake : BOOLEAN] /\ main'.at = main.at
  BY <1>0, NotifiedShape DEF LoopTyped
<1>6. LoopTyped'
  BY <1>0, <1>3, <1>4, <1>5 DEF LoopTyped, IsEvent
<1>7. main.at # "running" => ~control'.rec
  BY <1>3 DEF DrainInv
<1>8. (NotPosted => NotPosted') /\ (Queued => Queued')
  BY <1>0, <1>3 DEF NotPosted, Queued, TeardownIn, IsEvent
<1>9. ~Closing
  BY <1>0 DEF Closing
<1>10. main.at # "running" /\ Over => Over'
  BY <1>0, <1>3, <1>7 DEF Over
<1> QED BY <1>0, <1>3, <1>5, <1>6, <1>8, <1>9, <1>10, StageKept

\* tickAll closes and opens no channel that was closed for good.
LEMMA TickChannelKeeps ==
    ASSUME DrainInv, TickChannel, N \in Nat, JoinTime \in Nat
    PROVE  DrainInv'
<1> DEFINE ch == control.ch
<1>0. /\ LoopTyped /\ control.at = "tick" /\ ptrs' = ptrs /\ queue' = queue /\ main' = main
      /\ \/ /\ Stalls(ch) /\ channel' = channel
            /\ control' = [control EXCEPT !.at = "tickJoin", !.join = JoinTime]
         \/ /\ ~Stalls(ch) /\ control' = Advanced
            /\ channel' = channel \/ (channel[ch].state = "down" /\ channel' = Set(ch, "opening"))
  BY DEF DrainInv, TickChannel
<1>1. ~control.rec /\ control.rec \in BOOLEAN
  BY <1>0 DEF DrainInv, LoopTyped, ControlType
<1>2. /\ control' \in ControlType /\ control'.at # "teardown"
      /\ control'.rec => control'.at = "recTick"
      /\ control'.at = "tick" => control'.ch \in Channels
      /\ Stalls(ch) \/ (control'.at \in {"tick", "recTick"} /\ (control'.rec => ptrs.rec))
  <2>1. CASE Stalls(ch)
    <3>1. /\ control.mgr \in BOOLEAN /\ control.ch \in 0 .. N /\ JoinTime \in Int
          /\ control = [at |-> control.at, ch |-> control.ch, join |-> control.join,
                        mgr |-> control.mgr, rec |-> control.rec]
      BY <1>0 DEF LoopTyped, ControlType
    <3>2. control' = [at |-> "tickJoin", ch |-> control.ch, join |-> JoinTime,
                      mgr |-> control.mgr, rec |-> control.rec]
      BY <1>0, <2>1, <3>1
    <3> QED BY <1>1, <2>1, <3>1, <3>2 DEF ControlType
  <2>2. CASE ~Stalls(ch)
    <3>1. Advanced.rec \in BOOLEAN
      BY <1>0, AdvancedShape DEF ControlType
    <3> QED BY <1>0, <1>1, <2>2, <3>1, AdvancedShape
  <2> QED BY <2>1, <2>2
<1>3. channel' \in [Channels -> [state : {"idle", "opening", "up", "down"}, age : Int]]
  BY <1>0, SetShape DEF LoopTyped
<1>4. LoopTyped'
  BY <1>0, <1>2, <1>3 DEF LoopTyped, IsEvent
<1>5. (NotPosted => NotPosted') /\ (Queued => Queued')
  BY <1>0, <1>2 DEF NotPosted, Queued, TeardownIn, IsEvent
<1>6. ASSUME main.at # "running", Over PROVE Over'
  <2>1. ~ptrs.rec
    BY <1>6 DEF DrainInv
  <2>2. ~Stalls(ch) /\ channel' = channel
    <3>1. ch \in Channels
      BY <1>0 DEF LoopTyped
    <3> QED BY <1>0, <1>6, <3>1 DEF Over, Stalls
  <2> QED BY <1>0, <1>2, <1>6, <2>1, <2>2 DEF Over
<1> QED BY <1>0, <1>2, <1>4, <1>5, <1>6, StageKept DEF Closing

\* The tick of the recordings returns, or the executor exits.
LEMMA RecTickKeeps ==
    ASSUME DrainInv, RecTick \/ Exit, N \in Nat
    PROVE  DrainInv'
<1>0. /\ LoopTyped /\ ptrs' = ptrs /\ queue' = queue /\ main' = main /\ channel' = channel
      /\ control.at # "teardown" /\ control'.at \in {"waiting", "exited"}
  BY WaitingShape DEF DrainInv, RecTick, Exit, Free, Waiting
<1>1. control' \in ControlType /\ ~control'.rec
  <2>1. CASE RecTick
    BY <2>1, WaitingShape DEF RecTick
  <2>2. CASE Exit
    <3>1. control' = [at |-> "exited", ch |-> 0, join |-> 0, mgr |-> FALSE, rec |-> FALSE]
      BY <2>2 DEF Exit, Waiting
    <3> QED BY <3>1 DEF ControlType
  <2> QED BY <2>1, <2>2
<1>2. LoopTyped'
  BY <1>0, <1>1 DEF LoopTyped, IsEvent
<1>3. (NotPosted => NotPosted') /\ (Queued => Queued')
  BY <1>0 DEF NotPosted, Queued, TeardownIn, IsEvent
<1>4. Over => Over'
  BY <1>0, <1>1 DEF Over
<1> QED BY <1>0, <1>1, <1>2, <1>3, <1>4, StageKept DEF Closing

\* A task put behind all others.
LEMMA PostedShape ==
    ASSUME LoopTyped, NEW kind \in {"packet", "error", "restart", "teardown"}, NEW ch \in 0 .. N
    PROVE  /\ Posted(queue, kind, ch) \in Seq(Task)
           /\ Len(queue) \in Nat /\ DOMAIN queue = 1 .. Len(queue)
           /\ DOMAIN Posted(queue, kind, ch) = 1 .. Len(queue) + 1
           /\ \A i \in 1 .. Len(queue) : Posted(queue, kind, ch)[i] = queue[i]
           /\ Posted(queue, kind, ch)[Len(queue) + 1] = [kind |-> kind, ch |-> ch]
<1> DEFINE task == [kind |-> kind, ch |-> ch]
<1>1. task \in Task /\ queue \in Seq(Task)
  BY DEF LoopTyped, Task
<1>2. Posted(queue, kind, ch) = Append(queue, task)
  BY DEF Posted
<1> HIDE DEF task
<1>3. /\ Append(queue, task) \in Seq(Task)
      /\ Len(queue) \in Nat /\ DOMAIN queue = 1 .. Len(queue)
      /\ DOMAIN Append(queue, task) = 1 .. Len(queue) + 1
      /\ \A i \in 1 .. Len(queue) : Append(queue, task)[i] = queue[i]
      /\ Append(queue, task)[Len(queue) + 1] = task
  BY <1>1
<1> QED BY <1>2, <1>3 DEF task

\* A closed source reports nothing.
LEMMA ReportKeeps ==
    ASSUME DrainInv, NEW ch \in Channels, ReportError(ch), N \in Nat
    PROVE  DrainInv'
<1>0. /\ LoopTyped /\ queue' = Posted(queue, "error", ch) /\ ch \in 0 .. N
      /\ channel' = channel /\ control' = control /\ ptrs' = ptrs /\ main' = main
      /\ Live(ch) /\ ~(control.at = "teardown" /\ control.ch = ch)
  BY DEF DrainInv, ReportError, Channels
<1>1. /\ queue' \in Seq(Task)
      /\ Len(queue) \in Nat /\ DOMAIN queue = 1 .. Len(queue)
      /\ DOMAIN queue' = 1 .. Len(queue) + 1
      /\ \A i \in 1 .. Len(queue) : queue'[i] = queue[i]
      /\ queue'[Len(queue) + 1] = [kind |-> "error", ch |-> ch]
  BY <1>0, PostedShape
<1>2. /\ queue'[Len(queue) + 1].kind = "error" /\ queue'[Len(queue) + 1].ch = ch
      /\ IsEvent(queue'[Len(queue) + 1])
  BY <1>1 DEF IsEvent
<1>3. \A n \in DOMAIN queue' : IsEvent(queue'[n]) => queue'[n].ch \in Channels
  <2>1. \A n \in 1 .. Len(queue) : IsEvent(queue'[n]) => queue'[n].ch \in Channels
    BY <1>0, <1>1 DEF LoopTyped
  <2>2. \A n \in DOMAIN queue' : n \in 1 .. Len(queue) \/ n = Len(queue) + 1
    BY <1>1
  <2> QED BY <1>2, <2>1, <2>2
<1>4. LoopTyped'
  BY <1>0, <1>1, <1>3 DEF LoopTyped, IsEvent
<1>5. NotPosted => NotPosted'
  BY <1>0, <1>1, <1>2 DEF NotPosted
<1>6. ASSUME Queued PROVE Queued'
  <2>1. PICK i \in DOMAIN queue :
            /\ queue[i].kind = "teardown"
            /\ \A j \in DOMAIN queue :
                  (i < j => IsEvent(queue[j])) /\ (j < i => queue[j].kind # "teardown")
    BY <1>6 DEF Queued, TeardownIn
  <2>2. i \in DOMAIN queue' /\ queue'[i] = queue[i]
    BY <1>1
  <2>3. ASSUME NEW m \in DOMAIN queue'
        PROVE  (i < m => IsEvent(queue'[m])) /\ (m < i => queue'[m].kind # "teardown")
    BY <1>1, <1>2, <2>1
  <2> QED BY <1>0, <1>6, <2>1, <2>2, <2>3 DEF Queued, TeardownIn, IsEvent
<1>7. ASSUME Closing PROVE Closing'
  <2>1. ch >= control.ch
    <3>1. ~(ch < control.ch)
      BY <1>0, <1>7 DEF Closing, Live
    <3> QED BY <1>7, <3>1 DEF Closing, Channels
  <2>2. \A n \in DOMAIN queue' : IsEvent(queue'[n]) /\ queue'[n].ch >= control.ch
    BY <1>1, <1>2, <1>7, <2>1 DEF Closing
  <2> QED BY <1>0, <1>7, <2>2 DEF Closing, IsEvent
<1>8. ~Over
  BY <1>0 DEF Over, Live
<1> QED BY <1>0, <1>4, <1>5, <1>6, <1>7, <1>8, StageKept DEF DrainInv

\* A camera fails or is back.
LEMMA CameraKeeps ==
    ASSUME DrainInv, NEW ch \in Channels, CameraChanges(ch)
    PROVE  DrainInv'
<1>1. /\ channel' = channel /\ queue' = queue /\ control' = control /\ ptrs' = ptrs /\ main' = main
  BY DEF CameraChanges
<1> QED BY <1>1 DEF DrainInv, LoopTyped, NotPosted, Queued, TeardownIn, Closing, Over, IsEvent

\* In a unit of time only open sources deliver.
LEMMA ElapseKeeps == ASSUME DrainInv, Elapse, N \in Nat PROVE DrainInv'
<1>0. /\ LoopTyped /\ ptrs' = ptrs /\ main' = main
      /\ control \in ControlType
  BY DEF DrainInv, LoopTyped, Elapse
<1>1. /\ control' \in ControlType /\ control'.at = control.at /\ control'.ch = control.ch
      /\ control'.rec = control.rec
  <2>1. /\ control.at \in {"waiting", "restart", "error", "teardown", "tick", "tickJoin",
                           "recTick", "exited"}
        /\ control.ch \in 0 .. N /\ control.join \in Int
        /\ control.mgr \in BOOLEAN /\ control.rec \in BOOLEAN
        /\ control = [at |-> control.at, ch |-> control.ch, join |-> control.join,
                      mgr |-> control.mgr, rec |-> control.rec]
    BY <1>0 DEF ControlType
  <2>2. PICK rest \in Int : control' = [control EXCEPT !.join = rest]
    <3>1. control' = [control EXCEPT !.join = IF @ = 0 THEN 0 ELSE @ - 1]
      BY DEF Elapse
    <3>2. (IF control.join = 0 THEN 0 ELSE control.join - 1) \in Int
      BY <2>1
    <3>3. control' = [control EXCEPT !.join = IF control.join = 0 THEN 0 ELSE control.join - 1]
      BY <2>1, <3>1
    <3> QED BY <3>2, <3>3
  <2>3. control' = [at |-> control.at, ch |-> control.ch, join |-> rest,
                    mgr |-> control.mgr, rec |-> control.rec]
    BY <2>1, <2>2
  <2> QED BY <2>1, <2>3 DEF ControlType
<1>2. /\ channel' \in [Channels -> [state : {"idle", "opening", "up", "down"}, age : Int]]
      /\ \A ch \in Channels : channel'[ch].state = channel[ch].state
  <2> DEFINE R == [state : {"idle", "opening", "up", "down"}, age : Int]
             f(ch) == IF channel[ch].state = "up" /\ channel[ch].age < StallTimeout
                      THEN [channel[ch] EXCEPT !.age = @ + 1] ELSE channel[ch]
  <2>1. channel' = [ch \in Channels |-> f(ch)]
    BY DEF Elapse
  <2>2. ASSUME NEW ch \in Channels PROVE f(ch) \in R /\ f(ch).state = channel[ch].state
    <3>1. /\ channel[ch] = [state |-> channel[ch].state, age |-> channel[ch].age]
          /\ channel[ch].age \in Int /\ channel[ch].state \in {"idle", "opening", "up", "down"}
      BY <1>0 DEF LoopTyped
    <3>2. f(ch) = channel[ch] \/ f(ch) = [state |-> channel[ch].state, age |-> channel[ch].age + 1]
      BY <3>1
    <3> HIDE DEF f
    <3> QED BY <3>1, <3>2
  <2> HIDE DEF f, R
  <2>3. channel' \in [Channels -> R] /\ \A ch \in Channels : channel'[ch].state = channel[ch].state
    BY <2>1, <2>2
  <2> QED BY <2>3 DEF R
<1>3. /\ queue' \in Seq(Task)
      /\ \A n \in DOMAIN queue' :
            \/ \E i \in DOMAIN queue : queue'[n] = queue[i]
            \/ queue'[n].kind = "packet" /\ queue'[n].ch \in Delivering
      /\ TeardownIn(queue) => TeardownIn(queue')
  BY <1>0, ElapseShape
<1>4. \A ch \in Delivering : ch \in Channels /\ Live(ch)
  BY DEF Delivering
<1>5. \A n \in DOMAIN queue' : IsEvent(queue'[n]) => queue'[n].ch \in Channels
  BY <1>0, <1>3, <1>4 DEF LoopTyped
<1>6. LoopTyped'
  BY <1>0, <1>1, <1>2, <1>3, <1>5 DEF LoopTyped, IsEvent
<1>7. NotPosted => NotPosted'
  BY <1>1, <1>3 DEF NotPosted
<1>8. Queued => Queued'
  BY <1>1, <1>3 DEF Queued, TeardownIn, IsEvent
<1>9. ASSUME Closing PROVE Closing'
  <2>1. ASSUME NEW n \in DOMAIN queue' PROVE IsEvent(queue'[n]) /\ queue'[n].ch >= control.ch
    <3>1. CASE \E i \in DOMAIN queue : queue'[n] = queue[i]
      BY <1>9, <3>1 DEF Closing
    <3>2. CASE queue'[n].kind = "packet" /\ queue'[n].ch \in Delivering
      <4>1. queue'[n].ch \in Channels /\ ~(queue'[n].ch < control.ch)
        BY <1>4, <1>9, <3>2 DEF Closing, Live
      <4> QED BY <1>9, <3>2, <4>1 DEF Closing, Channels, IsEvent
    <3> QED BY <1>3, <3>1, <3>2
  <2> QED BY <1>1, <1>2, <1>9, <2>1 DEF Closing, IsEvent
<1>10. ASSUME Over PROVE Over'
  <2>1. \A n \in DOMAIN queue' : FALSE
    <3>1. DOMAIN queue = {}
      BY <1>10 DEF Over
    <3> QED BY <1>3, <1>4, <1>10, <3>1 DEF Over, Live
  <2>2. queue' = <<>>
    BY <1>3, <2>1
  <2> QED BY <1>1, <1>2, <1>10, <2>2 DEF Over
<1>11. control'.rec => control'.at = "recTick"
  BY <1>1 DEF DrainInv
<1> QED BY <1>0, <1>6, <1>7, <1>8, <1>9, <1>10, <1>11, StageKept

\* A command comes before the teardown, while the event loop runs.
LEMMA CommandKeeps ==
    ASSUME DrainInv, NEW ch \in Channels, Command(ch), N \in Nat
    PROVE  DrainInv'
<1>0. /\ LoopTyped /\ queue' = Posted(queue, "restart", ch) /\ ch \in 0 .. N
      /\ channel' = channel /\ control' = control /\ ptrs' = ptrs /\ main' = main
      /\ main.at = "running"
  BY DEF DrainInv, Command, Channels
<1>1. /\ queue' \in Seq(Task)
      /\ DOMAIN queue' = 1 .. Len(queue) + 1 /\ Len(queue) \in Nat
      /\ DOMAIN queue = 1 .. Len(queue)
      /\ \A i \in 1 .. Len(queue) : queue'[i] = queue[i]
      /\ queue'[Len(queue) + 1] = [kind |-> "restart", ch |-> ch]
  BY <1>0, PostedShape
<1>2. queue'[Len(queue) + 1].kind = "restart" /\ ~IsEvent(queue'[Len(queue) + 1])
  BY <1>1 DEF IsEvent
<1>3. \A n \in DOMAIN queue' : n \in DOMAIN queue \/ n = Len(queue) + 1
  BY <1>1
<1>4. LoopTyped'
  BY <1>0, <1>1, <1>2, <1>3 DEF LoopTyped, IsEvent
<1>5. NotPosted => NotPosted'
  BY <1>0, <1>1, <1>2, <1>3 DEF NotPosted
<1> QED BY <1>0, <1>4, <1>5, StageKept DEF DrainInv

\* Where the main thread goes after exec has returned.
LEMMA TeardownPoints ==
    ToSet(Teardown) = {"running", "posting", "draining", "clearing", "returning",
                       "recorderGone", "managerGone", "joining", "done"}
<1>1. DOMAIN Teardown = 1 .. 9
  BY DEF Teardown
<1>2. ToSet(Teardown) = {Teardown[i] : i \in 1 .. 9}
  BY <1>1 DEF ToSet
<1> QED BY <1>2 DEF Teardown

\* The main thread goes on.
LEMMA MainKeeps ==
    ASSUME DrainInv, ExecReturns \/ Main, N \in Nat
    PROVE  DrainInv'
<1>0. LoopTyped /\ channel' = channel /\ control' = control
  BY DEF DrainInv, ExecReturns, Main, PostTeardown, DrainLooks, ClearManager, Destroy
<1>1. CASE ExecReturns
  <2>1. /\ main' = [at |-> "posting", awake |-> FALSE] /\ main.at = "running"
        /\ ptrs' = [ptrs EXCEPT !.rec = FALSE] /\ queue' = queue
    BY <1>1 DEF ExecReturns, Goes
  <2>2. ptrs' \in [mgr : BOOLEAN, rec : BOOLEAN] /\ ~ptrs'.rec
    BY <1>0, <2>1 DEF LoopTyped
  <2>3. LoopTyped'
    BY <1>0, <2>1, <2>2, TeardownPoints DEF LoopTyped, IsEvent
  <2> QED BY <1>0, <2>1, <2>2, <2>3 DEF DrainInv, NotPosted
<1>2. CASE PostTeardown
  <2>1. /\ main' = [at |-> "draining", awake |-> TRUE] /\ main.at = "posting"
        /\ queue' = Posted(queue, "teardown", 0) /\ ptrs' = ptrs
    BY <1>2 DEF PostTeardown
  <2>2. /\ queue' \in Seq(Task)
        /\ DOMAIN queue' = 1 .. Len(queue) + 1 /\ Len(queue) \in Nat
        /\ DOMAIN queue = 1 .. Len(queue)
        /\ \A i \in 1 .. Len(queue) : queue'[i] = queue[i]
        /\ queue'[Len(queue) + 1] = [kind |-> "teardown", ch |-> 0]
    BY <1>0, <2>1, PostedShape
  <2>3. /\ queue'[Len(queue) + 1].kind = "teardown" /\ ~IsEvent(queue'[Len(queue) + 1])
        /\ \A n \in DOMAIN queue' : n \in DOMAIN queue \/ n = Len(queue) + 1
    BY <2>2 DEF IsEvent
  <2>4. LoopTyped'
    BY <1>0, <2>1, <2>2, <2>3, TeardownPoints DEF LoopTyped, IsEvent
  <2>5. NotPosted
    BY <2>1 DEF DrainInv
  <2>6. \A n \in DOMAIN queue' : /\ ~(Len(queue) + 1 < n)
                                 /\ n < Len(queue) + 1 => queue'[n].kind # "teardown"
    BY <2>2, <2>5 DEF NotPosted
  <2>7. Queued'
    BY <1>0, <2>2, <2>3, <2>5, <2>6 DEF Queued, TeardownIn, NotPosted, IsEvent
  <2> QED BY <1>0, <2>1, <2>4, <2>7 DEF DrainInv
<1>3. CASE DrainLooks
  <2>1. /\ main.at = "draining" /\ queue' = queue /\ ptrs' = ptrs
        /\ main' = IF Idle THEN [at |-> "clearing", awake |-> FALSE]
                           ELSE [main EXCEPT !.awake = FALSE]
    BY <1>3 DEF DrainLooks
  <2>2. CASE Idle
    <3>1. Over
      <4>1. ~Queued
        <5>1. DOMAIN queue = {}
          BY <2>2 DEF Idle
        <5> QED BY <5>1 DEF Queued, TeardownIn
      <4>2. ~Closing
        BY <2>2 DEF Idle, Busy, Closing
      <4> QED BY <2>1, <4>1, <4>2 DEF DrainInv
    <3>2. main' = [at |-> "clearing", awake |-> FALSE]
      BY <2>1, <2>2
    <3>3. LoopTyped'
      BY <1>0, <2>1, <3>2, TeardownPoints DEF LoopTyped, IsEvent
    <3> QED BY <1>0, <2>1, <3>1, <3>2, <3>3 DEF DrainInv, Over
  <2>3. CASE ~Idle
    <3>1. main' \in [at : ToSet(Teardown), awake : BOOLEAN] /\ main'.at = main.at
      BY <1>0, <2>1, <2>3 DEF LoopTyped
    <3>2. LoopTyped'
      BY <1>0, <2>1, <3>1 DEF LoopTyped, IsEvent
    <3>3. (Queued => Queued') /\ (Closing => Closing') /\ (Over => Over')
      BY <1>0, <2>1 DEF Queued, TeardownIn, Closing, Over, IsEvent
    <3> QED BY <1>0, <2>1, <3>1, <3>2, <3>3, StageKept DEF DrainInv
  <2> QED BY <2>2, <2>3
<1>4. CASE ClearManager \/ Destroy
  <2>1. /\ main.at \in {"clearing", "returning", "recorderGone", "managerGone", "joining"}
        /\ \E to \in {"returning", "recorderGone", "managerGone", "joining", "done"} :
              main' = [at |-> to, awake |-> FALSE]
        /\ queue' = queue
    <3>1. CASE ClearManager
      BY <3>1 DEF ClearManager, Goes
    <3>2. CASE Destroy
      <4>1. queue' = queue
        BY <3>2 DEF Destroy
      <4>2. CASE Goes("returning", "recorderGone")
        BY <4>1, <4>2 DEF Goes
      <4>3. CASE Goes("recorderGone", "managerGone")
        BY <4>1, <4>3 DEF Goes
      <4>4. CASE Goes("managerGone", "joining")
        BY <4>1, <4>4 DEF Goes
      <4>5. CASE Goes("joining", "done")
        BY <4>1, <4>5 DEF Goes
      <4> QED BY <3>2, <4>2, <4>3, <4>4, <4>5 DEF Destroy
    <3> QED BY <1>4, <3>1, <3>2
  <2>4. /\ main'.at \in {"returning", "recorderGone", "managerGone", "joining", "done"}
        /\ main' \in [at : ToSet(Teardown), awake : BOOLEAN]
    BY <2>1, TeardownPoints
  <2>2. ptrs' \in [mgr : BOOLEAN, rec : BOOLEAN] /\ ptrs'.rec = ptrs.rec
    BY <1>0, <1>4 DEF ClearManager, Destroy, LoopTyped
  <2>3. LoopTyped'
    BY <1>0, <2>1, <2>2, <2>4 DEF LoopTyped, IsEvent
  <2> QED BY <1>0, <2>1, <2>2, <2>3, <2>4 DEF DrainInv, Over
<1> QED BY <1>1, <1>2, <1>3, <1>4 DEF Main

-----------------------------------------------------------------------------
(* The theorem. *)

\* It holds when the program has started.
LEMMA DrainInvStart == ASSUME LoopInit, N \in Nat PROVE DrainInv
<1>1. /\ DOMAIN queue = {} /\ queue \in Seq(Task)
  BY DEF LoopInit
<1>2. channel \in [Channels -> [state : {"idle", "opening", "up", "down"}, age : Int]]
  BY DEF LoopInit
<1>3. control \in ControlType /\ control.at = "waiting" /\ ~control.rec
  BY WaitingShape DEF LoopInit
<1>4. /\ main \in [at : ToSet(Teardown), awake : BOOLEAN] /\ main.at = "running"
      /\ ptrs \in [mgr : BOOLEAN, rec : BOOLEAN]
  BY TeardownPoints DEF LoopInit
<1>5. LoopTyped
  BY <1>1, <1>2, <1>3, <1>4 DEF LoopTyped
<1> QED BY <1>1, <1>3, <1>4, <1>5 DEF DrainInv, NotPosted

\* Wherever the control thread and the main thread are, the teardown is where
\* it has to be.
THEOREM DrainInvariance == LoopSpec => []DrainInv
<1>0. N \in Nat \ {0} /\ N \in Nat /\ JoinTime \in Nat
  BY ControlLoopAssumption
<1>1. LoopInit => DrainInv
  BY <1>0, DrainInvStart
<1>2. DrainInv /\ [LoopNext]_loopVars => DrainInv'
  <2> SUFFICES ASSUME DrainInv, [LoopNext]_loopVars PROVE DrainInv'
    OBVIOUS
  <2>1. CASE Executor
    BY <1>0, <2>1, RunTaskKeeps, ClosesKeep, DisconnectedKeeps, TickBeginsKeeps,
       TickChannelKeeps, RecTickKeeps DEF Executor
  <2>2. CASE Main \/ ExecReturns
    BY <1>0, <2>2, MainKeeps
  <2>3. CASE Elapse
    BY <1>0, <2>3, ElapseKeeps
  <2>4. CASE Environment
    BY <1>0, <2>4, ReportKeeps, CameraKeeps, CommandKeeps DEF Environment
  <2>5. CASE UNCHANGED loopVars
    BY <2>5
    DEF loopVars, DrainInv, LoopTyped, NotPosted, Queued, TeardownIn, Closing, Over, IsEvent
  <2> QED BY <2>1, <2>2, <2>3, <2>4, <2>5 DEF LoopNext, Done
<1> QED BY <1>1, <1>2, PTL DEF LoopSpec

\* When drain has returned and the teardown goes on, no task is queued or
\* running, every source is closed, and no tick holds the recordings.
THEOREM DrainIsFinal == LoopSpec => []DrainLeavesNothing
<1>1. DrainInv => DrainLeavesNothing
  <2> SUFFICES ASSUME DrainInv PROVE DrainLeavesNothing
    OBVIOUS
  <2>1. ASSUME Reached("clearing") \/ Reached("recorderGone")
        PROVE  main.at \notin {"running", "posting", "draining"}
    <3>1. PICK i, j \in DOMAIN Teardown :
             /\ Teardown[i] \in {"clearing", "recorderGone"}
             /\ Teardown[j] = main.at /\ i <= j
      BY <2>1 DEF Reached
    <3>2. DOMAIN Teardown = 1 .. 9
      BY DEF Teardown
    <3>3. i >= 4
      BY <3>1, <3>2 DEF Teardown
    <3>4. j \in 4 .. 9
      BY <3>1, <3>2, <3>3
    <3> QED BY <3>1, <3>4 DEF Teardown
  <2>2. Over => /\ queue = <<>> /\ ~Busy /\ ~control.rec
                /\ \A ch \in Channels : ~Live(ch)
    BY DEF Over, Busy, Live
  <2> QED BY <2>1, <2>2 DEF DrainInv, DrainLeavesNothing
<1> QED BY <1>1, DrainInvariance, PTL

-----------------------------------------------------------------------------
(* What a tick has heard. *)

InQueue(q, kind, ch) == \E i \in DOMAIN q : q[i].kind = kind /\ q[i].ch = ch

\* A channel that is up and whose camera sends has been heard, or a packet or
\* the error that will close it waits in the queue, or it is being closed.
Heard ==
    \A ch \in Channels :
        camera[ch] /\ channel[ch].state = "up" =>
            \/ channel[ch].age = 0
            \/ InQueue(queue, "packet", ch) \/ InQueue(queue, "error", ch)
            \/ control.at = "error" /\ control.ch = ch
HeardInv == camera \in [Channels -> BOOLEAN] /\ Heard

\* A close of one channel leaves the events of the others in the queue.
LEMMA WithoutHas ==
    ASSUME LoopTyped, NEW ch, NEW c, c # ch, NEW kind, InQueue(queue, kind, c)
    PROVE  InQueue(Without(queue, ch), kind, c)
<1> DEFINE S == {i \in DOMAIN queue : queue[i].ch # ch \/ queue[i].kind \notin {"packet", "error"}}
<1>1. Without(queue, ch) = At(queue, S)
  BY DEF Without
<1>2. PICK i \in DOMAIN queue : queue[i].kind = kind /\ queue[i].ch = c
  BY DEF InQueue
<1>3. i \in S /\ S \in SUBSET DOMAIN queue
  BY <1>2
<1> HIDE DEF S
<1>4. PICK n \in DOMAIN At(queue, S) : At(queue, S)[n] = queue[i]
  <2>1. queue \in Seq(Task)
    BY DEF LoopTyped
  <2> QED BY <1>3, <2>1, AtKeepsOrder
<1> QED BY <1>1, <1>2, <1>4 DEF InQueue

\* After a unit of time every channel that delivers has a packet in the queue,
\* and an error that waited still waits.
LEMMA ElapseHas ==
    ASSUME LoopTyped, Elapse, N \in Nat, NEW ch \in Channels
    PROVE  /\ ch \in Delivering => InQueue(queue', "packet", ch)
           /\ InQueue(queue, "error", ch) => InQueue(queue', "error", ch)
<1> DEFINE S == {i \in DOMAIN queue : ~(queue[i].kind = "packet" /\ queue[i].ch \in Delivering)}
           K == Cardinality(Delivering)
           a == At(queue, S)
           b == [n \in 1 .. K |-> [kind |-> "packet", ch |-> Nth(Delivering, n)]]
<1>1. queue' = a \o b
  BY DEF Elapse
<1>2. /\ K \in Nat
      /\ \A n \in 1 .. K : Nth(Delivering, n) \in Delivering
      /\ \A i \in Delivering : \E n \in 1 .. K : Nth(Delivering, n) = i
  <2>1. Delivering \subseteq Channels
    BY DEF Delivering
  <2>2. IsFiniteSet(Channels) /\ Channels \subseteq Nat
    BY FS_Interval DEF Channels
  <2> QED BY <2>1, <2>2, FS_Subset, NthOfNumbers
<1>3. S \in SUBSET DOMAIN queue /\ queue \in Seq(Task)
  BY DEF LoopTyped
<1>4. \A i \in DOMAIN queue : queue[i].kind = "error" => i \in S
  OBVIOUS
<1> HIDE DEF S, K
<1>5. a \in Seq(Task) /\ \A i \in S : \E n \in DOMAIN a : a[n] = queue[i]
  BY <1>3, AtKeepsOrder
<1>6. b \in Seq([kind : {"packet"}, ch : Delivering]) /\ Len(b) = K
  BY <1>2
<1>7. \A n \in 1 .. K : b[n].kind = "packet" /\ b[n].ch = Nth(Delivering, n)
  OBVIOUS
<1> HIDE DEF a, b
<1>8. /\ Len(a) \in Nat /\ DOMAIN a = 1 .. Len(a) /\ DOMAIN queue' = 1 .. Len(a) + K
      /\ \A n \in 1 .. Len(a) : queue'[n] = a[n]
      /\ \A n \in 1 .. K : Len(a) + n \in DOMAIN queue' /\ queue'[Len(a) + n] = b[n]
  <2>1. Len(a) \in Nat /\ DOMAIN a = 1 .. Len(a) /\ DOMAIN b = 1 .. K
    BY <1>2, <1>5, <1>6
  <2>2. Len(queue') = Len(a) + K /\ DOMAIN queue' = 1 .. Len(a) + K
    BY <1>1, <1>2, <1>5, <1>6
  <2>3. \A n \in 1 .. Len(a) : queue'[n] = a[n]
    BY <1>1, <1>2, <1>5, <1>6, <2>1
  <2>4. ASSUME NEW n \in 1 .. K PROVE Len(a) + n \in DOMAIN queue' /\ queue'[Len(a) + n] = b[n]
    <3>1. Len(a) + n \in DOMAIN queue'
      BY <1>2, <2>1, <2>2
    <3>2. queue'[Len(a) + n] = b[n]
      BY <1>1, <1>2, <1>5, <1>6, <2>1
    <3> QED BY <3>1, <3>2
  <2> QED BY <2>1, <2>2, <2>3, <2>4
<1>9. ASSUME ch \in Delivering PROVE InQueue(queue', "packet", ch)
  <2>1. PICK n \in 1 .. K : Nth(Delivering, n) = ch
    BY <1>2, <1>9
  <2>2. Len(a) + n \in DOMAIN queue' /\ queue'[Len(a) + n] = b[n]
    BY <1>8
  <2> QED BY <1>7, <2>1, <2>2 DEF InQueue
<1>10. ASSUME InQueue(queue, "error", ch) PROVE InQueue(queue', "error", ch)
  <2>1. PICK i \in DOMAIN queue : queue[i].kind = "error" /\ queue[i].ch = ch
    BY <1>10 DEF InQueue
  <2>2. PICK n \in DOMAIN a : a[n] = queue[i]
    BY <1>4, <1>5, <2>1
  <2>3. n \in DOMAIN queue' /\ queue'[n] = a[n]
    BY <1>2, <1>8
  <2> QED BY <2>1, <2>2, <2>3 DEF InQueue
<1> QED BY <1>9, <1>10

\* What is posted goes behind what waits.
LEMMA PostedHas ==
    ASSUME LoopTyped, NEW k, NEW c, NEW kind, NEW ch, InQueue(queue, kind, ch)
    PROVE  InQueue(Posted(queue, k, c), kind, ch)
<1>1. PICK i \in DOMAIN queue : queue[i].kind = kind /\ queue[i].ch = ch
  BY DEF InQueue
<1>2. queue \in Seq(Task)
  BY DEF LoopTyped
<1>3. Posted(queue, k, c) = Append(queue, [kind |-> k, ch |-> c])
  BY DEF Posted
<1>4. i \in DOMAIN Posted(queue, k, c) /\ Posted(queue, k, c)[i] = queue[i]
  BY <1>2, <1>3
<1> QED BY <1>1, <1>4 DEF InQueue

\* The task that runs takes its own event from the queue, and answers for it.
LEMMA RunTaskHears ==
    ASSUME LoopTyped, HeardInv, RunTask, N \in Nat
    PROVE  HeardInv'
<1> DEFINE t == Head(queue)
<1>1. /\ queue # <<>> /\ control.at = "waiting" /\ camera' = camera /\ queue' = Tail(queue)
      /\ \/ /\ t.kind = "packet" /\ channel' = Set(t.ch, "up")
         \/ /\ t.kind \in {"teardown", "restart"} /\ channel' = channel
         \/ /\ t.kind = "error" /\ channel' = channel
            /\ control'.at = "error" /\ control'.ch = t.ch
  BY RunTaskShape DEF Waiting
<1>2. /\ t = queue[1]
      /\ \A i \in DOMAIN queue : i # 1 => i - 1 \in DOMAIN Tail(queue) /\ Tail(queue)[i - 1] = queue[i]
  BY <1>1, TailShape
<1>3. \A kind, ch : InQueue(queue, kind, ch) =>
          InQueue(queue', kind, ch) \/ (t.kind = kind /\ t.ch = ch)
  BY <1>1, <1>2 DEF InQueue
<1>4. channel \in [Channels -> [state : {"idle", "opening", "up", "down"}, age : Int]]
  BY DEF LoopTyped
<1> HIDE DEF t
<1>5. ASSUME NEW ch \in Channels, camera'[ch], channel'[ch].state = "up"
      PROVE  \/ channel'[ch].age = 0
             \/ InQueue(queue', "packet", ch) \/ InQueue(queue', "error", ch)
             \/ control'.at = "error" /\ control'.ch = ch
  <2>1. CASE t.kind = "packet" /\ t.ch = ch
    <3>1. channel'[ch] = [state |-> "up", age |-> 0]
      BY <1>1, <1>4, <2>1 DEF Set
    <3> QED BY <3>1
  <2>2. CASE ~(t.kind = "packet" /\ t.ch = ch)
    <3>1. channel'[ch] = channel[ch]
      BY <1>1, <1>4, <2>2 DEF Set
    <3>2. \/ channel[ch].age = 0
          \/ InQueue(queue, "packet", ch) \/ InQueue(queue, "error", ch)
      BY <1>1, <1>5, <3>1 DEF HeardInv, Heard
    <3> QED BY <1>1, <1>3, <2>2, <3>1, <3>2
  <2> QED BY <2>1, <2>2
<1> QED BY <1>1, <1>5 DEF HeardInv, Heard

\* A close leaves the channel down, and the others as they are.
LEMMA CloseHears ==
    ASSUME LoopTyped, HeardInv, NEW state \in {"idle", "down", "opening"},
           channel' = Set(control.ch, state), queue' = Without(queue, control.ch),
           camera' = camera
    PROVE  HeardInv'
<1>1. channel \in [Channels -> [state : {"idle", "opening", "up", "down"}, age : Int]]
  BY DEF LoopTyped
<1>2. ASSUME NEW ch \in Channels, camera'[ch], channel'[ch].state = "up"
      PROVE  \/ channel'[ch].age = 0
             \/ InQueue(queue', "packet", ch) \/ InQueue(queue', "error", ch)
  <2>1. ch # control.ch
    BY <1>1, <1>2 DEF Set
  <2>2. channel'[ch] = channel[ch]
    BY <1>1, <2>1 DEF Set
  <2>3. \/ channel[ch].age = 0
        \/ InQueue(queue, "packet", ch) \/ InQueue(queue, "error", ch)
    BY <1>2, <2>1, <2>2 DEF HeardInv, Heard
  <2> QED BY <2>1, <2>2, <2>3, WithoutHas
<1> QED BY <1>2 DEF HeardInv, Heard

\* A unit of time makes a channel older, and puts its packet into the queue.
LEMMA ElapseHears == ASSUME LoopTyped, HeardInv, Elapse, N \in Nat PROVE HeardInv'
<1>1. /\ camera' = camera
      /\ control' = [control EXCEPT !.join = IF @ = 0 THEN 0 ELSE @ - 1]
      /\ channel \in [Channels -> [state : {"idle", "opening", "up", "down"}, age : Int]]
      /\ queue \in Seq(Task)
  BY DEF Elapse, LoopTyped
<1>2. ASSUME NEW ch \in Channels, camera[ch], channel'[ch].state = "up"
      PROVE  InQueue(queue', "packet", ch) \/ InQueue(queue', "error", ch)
  <2>1. channel[ch].state = "up"
    <3>1. channel'[ch] = IF channel[ch].state = "up" /\ channel[ch].age < StallTimeout
                         THEN [channel[ch] EXCEPT !.age = @ + 1] ELSE channel[ch]
      BY DEF Elapse
    <3> QED BY <1>1, <1>2, <3>1
  <2>2. CASE InQueue(queue, "error", ch)
    BY <2>2, ElapseHas
  <2>3. CASE ~InQueue(queue, "error", ch)
    <3>1. [kind |-> "error", ch |-> ch] \notin ToSet(queue)
      BY <1>1, <2>3 DEF InQueue, ToSet
    <3>2. ch \in Delivering
      BY <1>2, <2>1, <3>1 DEF Delivering, Live
    <3> QED BY <3>2, ElapseHas
  <2> QED BY <2>2, <2>3
<1> QED BY <1>1, <1>2 DEF HeardInv, Heard

\* A step that posts at most, and opens or closes no channel but by its state.
LEMMA StepHears ==
    ASSUME LoopTyped, HeardInv, control.at # "error" \/ control' = control,
           camera' = camera,
           \A ch \in Channels : channel'[ch] = channel[ch] \/ channel'[ch].state # "up",
           queue' = queue \/ \E k, c : queue' = Posted(queue, k, c)
    PROVE  HeardInv'
<1>1. \A kind, ch : InQueue(queue, kind, ch) => InQueue(queue', kind, ch)
  BY PostedHas
<1> QED BY <1>1 DEF HeardInv, Heard

\* The tick, the reports, the commands and the main thread.
LEMMA OthersHear ==
    ASSUME LoopTyped, HeardInv,
           \/ TickBegins \/ TickChannel \/ RecTick \/ Exit \/ Main \/ ExecReturns
           \/ \E ch \in Channels : ReportError(ch) \/ Command(ch)
    PROVE  HeardInv'
<1>1. channel \in [Channels -> [state : {"idle", "opening", "up", "down"}, age : Int]]
  BY DEF LoopTyped
<1>2. CASE TickBegins \/ RecTick \/ Exit
  BY <1>2, StepHears DEF TickBegins, RecTick, Exit, Free
<1>3. CASE TickChannel
  <2>1. channel' = channel \/ channel' = Set(control.ch, "opening")
    BY <1>3 DEF TickChannel
  <2>2. \A ch \in Channels : channel'[ch] = channel[ch] \/ channel'[ch].state # "up"
    BY <1>1, <2>1 DEF Set
  <2>3. control.at = "tick" /\ camera' = camera /\ queue' = queue
    BY <1>3 DEF TickChannel
  <2> QED BY <2>2, <2>3, StepHears
<1>4. CASE Main \/ ExecReturns
  BY <1>4, StepHears DEF Main, ExecReturns, PostTeardown, DrainLooks, ClearManager, Destroy
<1>5. CASE \E ch \in Channels : ReportError(ch) \/ Command(ch)
  BY <1>5, StepHears DEF ReportError, Command
<1> QED BY <1>2, <1>3, <1>4, <1>5

\* A camera that comes back is not up yet.
LEMMA CameraHears ==
    ASSUME LoopTyped, HeardInv, NEW ch \in Channels, CameraChanges(ch)
    PROVE  HeardInv'
<1>1. /\ channel' = channel /\ queue' = queue /\ control' = control
      /\ camera' = [camera EXCEPT ![ch] = ~@] /\ (camera[ch] \/ channel[ch].state # "up")
  BY DEF CameraChanges
<1>2. camera' \in [Channels -> BOOLEAN]
  BY <1>1 DEF HeardInv
<1>3. \A c \in Channels : camera'[c] /\ channel[c].state = "up" => camera[c]
  BY <1>1 DEF HeardInv
<1> QED BY <1>1, <1>2, <1>3 DEF HeardInv, Heard

\* No close in a task, of whatever channel and length, makes a channel whose
\* camera sends look older to the tick that follows.
THEOREM TicksHearAll == LoopSpec => TicksBeginHeard
<1>0. N \in Nat
  BY ControlLoopAssumption
<1>1. LoopInit => HeardInv
  <2> SUFFICES ASSUME LoopInit PROVE HeardInv
    OBVIOUS
  <2>1. \A ch \in Channels : channel[ch].state # "up"
    BY DEF LoopInit
  <2> QED BY <2>1 DEF LoopInit, HeardInv, Heard
<1>2. DrainInv /\ HeardInv /\ [LoopNext]_loopVars => HeardInv'
  <2> SUFFICES ASSUME LoopTyped, HeardInv, [LoopNext]_loopVars PROVE HeardInv'
    BY DEF DrainInv
  <2>1. CASE RunTask
    BY <1>0, <2>1, RunTaskHears
  <2>2. CASE ErrorHandled \/ RestartHandled \/ StallClosed \/ Disconnected
    BY <2>2, CloseHears DEF ErrorHandled, RestartHandled, StallClosed, Disconnected
  <2>3. CASE Elapse
    BY <1>0, <2>3, ElapseHears
  <2>4. CASE TickBegins \/ TickChannel \/ RecTick \/ Exit \/ Main \/ ExecReturns
    BY <2>4, OthersHear
  <2>5. CASE Environment
    BY <2>5, OthersHear, CameraHears DEF Environment
  <2>6. CASE UNCHANGED loopVars
    BY <2>6 DEF loopVars, HeardInv, Heard, InQueue
  <2> QED BY <2>1, <2>2, <2>3, <2>4, <2>5, <2>6 DEF LoopNext, Executor, Done
<1>3. DrainInv /\ HeardInv /\ [LoopNext]_loopVars =>
        [control.at = "waiting" /\ control'.at = "tick" =>
            \A ch \in Channels : camera[ch] /\ channel[ch].state = "up" => channel[ch].age = 0]_loopVars
  <2> SUFFICES ASSUME LoopTyped, HeardInv, LoopNext, control.at = "waiting", control'.at = "tick",
                      NEW ch \in Channels, camera[ch], channel[ch].state = "up"
               PROVE  channel[ch].age = 0
    BY DEF DrainInv, loopVars
  <2>1. queue = <<>>
    <3>1. CASE TickBegins
      BY <3>1 DEF TickBegins, QueueFirst
    <3>2. CASE RunTask
      <4>1. control'.at # "tick"
        <5>1. \/ control' = control
              \/ control' = [Waiting EXCEPT !.at = "teardown", !.ch = 1, !.join = JoinTime]
              \/ \E k \in {"error", "restart"} :
                    control' = [Waiting EXCEPT !.at = k, !.ch = Head(queue).ch, !.join = JoinTime]
          BY <3>2, RunTaskShape
        <5> QED BY <5>1 DEF Waiting
      <4> QED BY <4>1
    <3>3. CASE Elapse
      BY <3>3 DEF Elapse, LoopTyped, ControlType
    <3>4. CASE Exit
      BY <3>4 DEF Exit
    <3>5. CASE ErrorHandled \/ RestartHandled \/ Disconnected \/ TickChannel \/ StallClosed \/ RecTick
      BY <3>5 DEF ErrorHandled, RestartHandled, Disconnected, TickChannel, StallClosed, RecTick
    <3>6. CASE Main \/ ExecReturns \/ Environment \/ Done
      <4>1. control' = control
        BY <3>6 DEF Main, ExecReturns, Environment, Done, loopVars, PostTeardown, DrainLooks,
                    ClearManager, Destroy, ReportError, CameraChanges, Command
      <4> QED BY <4>1
    <3> QED BY <3>1, <3>2, <3>3, <3>4, <3>5, <3>6 DEF LoopNext, Executor
  <2> QED BY <2>1 DEF HeardInv, Heard, InQueue
<1> QED BY <1>1, <1>2, <1>3, DrainInvariance, PTL DEF LoopSpec, TicksBeginHeard
=============================================================================
