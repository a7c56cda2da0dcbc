------------------------ MODULE ClientRequests_proofs ------------------------
(***************************************************************************)
(* The safety properties of ClientRequests, for any options, any number of *)
(* them, and any calls that share the client.                              *)
(***************************************************************************)
EXTENDS ClientRequests, SequenceTheorems, FiniteSetTheorems, TLAPS

-----------------------------------------------------------------------------
(* Places in a list, and the k-th of a set of them.                        *)

LEMMA PlacesFinite ==
    ASSUME NEW S, NEW opts \in Seq(S), NEW kind
    PROVE  /\ OfKind(opts, kind) \subseteq 1..Len(opts)
           /\ OfKind(opts, kind) \subseteq Int
           /\ IsFiniteSet(OfKind(opts, kind))
<1>1. OfKind(opts, kind) \subseteq 1..Len(opts)
  BY DEF OfKind
<1>2. IsFiniteSet(1..Len(opts))
  BY FS_Interval
<1> QED  BY <1>1, <1>2, FS_Subset

LEMMA UpToFinite ==
    ASSUME NEW S \in SUBSET Int, IsFiniteSet(S), NEW i
    PROVE  IsFiniteSet(UpTo(S, i)) /\ Cardinality(UpTo(S, i)) \in Nat
BY FS_Subset, FS_CardinalityType DEF UpTo

(* No two places have as many places up to them. *)
LEMMA RanksDiffer ==
    ASSUME NEW S \in SUBSET Int, IsFiniteSet(S), NEW i \in S, NEW j \in S, i < j
    PROVE  Cardinality(UpTo(S, i)) < Cardinality(UpTo(S, j))
<1>1. UpTo(S, i) \subseteq UpTo(S, j) /\ j \in UpTo(S, j) /\ j \notin UpTo(S, i)
  <2>1. i \in Int /\ j \in Int
    OBVIOUS
  <2>2. ASSUME NEW x \in S, x <= i PROVE x <= j
    <3>1. x \in Int
      OBVIOUS
    <3> QED  BY <2>1, <2>2, <3>1
  <2>3. j <= j /\ ~(j <= i)
    BY <2>1
  <2> QED  BY <2>2, <2>3 DEF UpTo
<1>2. /\ IsFiniteSet(UpTo(S, j))
      /\ Cardinality(UpTo(S, i)) \in Nat /\ Cardinality(UpTo(S, j)) \in Nat
  BY UpToFinite
<1>3. /\ Cardinality(UpTo(S, i)) <= Cardinality(UpTo(S, j))
      /\ Cardinality(UpTo(S, i)) # Cardinality(UpTo(S, j))
  BY <1>1, <1>2, FS_Subset
<1> QED  BY <1>2, <1>3

LEMMA NthIs ==
    ASSUME NEW S \in SUBSET Int, IsFiniteSet(S), NEW i \in S
    PROVE  Nth(S, Cardinality(UpTo(S, i))) = i
<1> DEFINE k == Cardinality(UpTo(S, i))
<1>1. ASSUME NEW j \in S, Cardinality(UpTo(S, j)) = k PROVE j = i
  <2>1. ~(i < j) /\ ~(j < i)
    BY <1>1, RanksDiffer, UpToFinite
  <2> QED  BY <2>1
<1> QED  BY <1>1 DEF Nth

-----------------------------------------------------------------------------
(* What a loop over options has gathered when it has applied n of them.    *)

SoFar(opts, kind, n) == UpTo(OfKind(opts, kind), n)

(* v is the value of the last option of a kind, or none. *)
Latest(opts, kind, n, none, v) ==
    \/ SoFar(opts, kind, n) = {} /\ v = none
    \/ \E m \in SoFar(opts, kind, n) :
         (\A j \in SoFar(opts, kind, n) : j <= m) /\ v = opts[m].value

(* eds are the editors, in the order of the options. *)
InOrder(opts, n, eds) ==
    /\ eds \in Seq(Fns)
    /\ Len(eds) = Cardinality(SoFar(opts, "editor", n))
    /\ \A k \in 1..Len(eds) :
         \E i \in SoFar(opts, "editor", n) :
            /\ Cardinality(UpTo(OfKind(opts, "editor"), i)) = k
            /\ eds[k] = opts[i].value

FieldsType == [Server : BaseURLs, Client : Doers \cup {NULL}, RequestEditors : Seq(Fns)]

Gathered(opts, n, base, f) ==
    /\ f \in FieldsType
    /\ Latest(opts, "base", n, base, f.Server)
    /\ Latest(opts, "doer", n, NULL, f.Client)
    /\ InOrder(opts, n, f.RequestEditors)

LEMMA NothingGathered ==
    ASSUME NEW opts \in Seq(Options), NEW base \in BaseURLs
    PROVE  Gathered(opts, 0, base, Fields(base))
<1>1. \A kind : SoFar(opts, kind, 0) = {}
  BY PlacesFinite DEF SoFar, UpTo
<1>2. Fields(base) \in FieldsType
  BY DEF Fields, FieldsType
<1>3. InOrder(opts, 0, <<>>)
  BY <1>1, FS_EmptySet DEF InOrder
<1> QED  BY <1>1, <1>2, <1>3 DEF Gathered, Latest, Fields

(* The next option is the last of its kind, and leaves the others alone. *)
LEMMA NextPlace ==
    ASSUME NEW opts \in Seq(Options), NEW n \in Nat, n < Len(opts), NEW kind
    PROVE  SoFar(opts, kind, n + 1) =
             IF opts[n + 1].kind = kind
             THEN SoFar(opts, kind, n) \cup {n + 1} ELSE SoFar(opts, kind, n)
<1>1. DOMAIN opts = 1..Len(opts)
  BY LenProperties
<1> QED  BY <1>1 DEF SoFar, UpTo, OfKind

LEMMA NextLatest ==
    ASSUME NEW opts \in Seq(Options), NEW n \in Nat, n < Len(opts),
           NEW kind, NEW none, NEW v, Latest(opts, kind, n, none, v)
    PROVE  Latest(opts, kind, n + 1, none,
                  IF opts[n + 1].kind = kind THEN opts[n + 1].value ELSE v)
<1>1. CASE opts[n + 1].kind = kind
  <2>1. n + 1 \in SoFar(opts, kind, n + 1)
    BY <1>1, NextPlace
  <2>2. \A j \in SoFar(opts, kind, n + 1) : j <= n + 1
    BY DEF SoFar, UpTo
  <2> QED  BY <1>1, <2>1, <2>2 DEF Latest
<1>2. CASE opts[n + 1].kind # kind
  BY <1>2, NextPlace DEF Latest
<1> QED  BY <1>1, <1>2

(* A new editor comes at the end, and has all those before it up to it.    *)
LEMMA NextEditor ==
    ASSUME NEW opts \in Seq(Options), NEW n \in Nat, n < Len(opts),
           NEW eds, InOrder(opts, n, eds), opts[n + 1].kind = "editor",
           opts[n + 1].value \in Fns
    PROVE  InOrder(opts, n + 1, Append(eds, opts[n + 1].value))
<1> DEFINE places == OfKind(opts, "editor")
           now == SoFar(opts, "editor", n)
           then == SoFar(opts, "editor", n + 1)
           longer == Append(eds, opts[n + 1].value)
<1>1. then = now \cup {n + 1} /\ n + 1 \notin now
  BY NextPlace DEF SoFar, UpTo
<1>2. IsFiniteSet(now)
  BY PlacesFinite, UpToFinite DEF SoFar
<1>3. Cardinality(then) = Cardinality(now) + 1
  BY <1>1, <1>2, FS_AddElement
<1>4. /\ longer \in Seq(Fns) /\ Len(longer) = Len(eds) + 1 /\ Len(eds) \in Nat
      /\ \A k \in 1..Len(eds) : longer[k] = eds[k]
      /\ longer[Len(eds) + 1] = opts[n + 1].value
  BY AppendProperties, LenProperties DEF InOrder
<1>5. Len(longer) = Cardinality(then)
  BY <1>3, <1>4 DEF InOrder
<1>6. ASSUME NEW k \in 1..Len(longer)
      PROVE  \E i \in then : Cardinality(UpTo(places, i)) = k /\ longer[k] = opts[i].value
  <2>1. CASE k = Len(eds) + 1
    <3>1. UpTo(places, n + 1) = then
      BY DEF SoFar
    <3> QED  BY <1>1, <1>4, <1>5, <2>1, <3>1
  <2>2. CASE k # Len(eds) + 1
    <3>1. k \in 1..Len(eds)
      BY <1>4, <2>2
    <3>2. PICK i \in now : Cardinality(UpTo(places, i)) = k /\ eds[k] = opts[i].value
      BY <3>1 DEF InOrder
    <3> QED  BY <1>1, <1>4, <3>1, <3>2
  <2> QED  BY <2>1, <2>2
<1> QED  BY <1>4, <1>5, <1>6 DEF InOrder

LEMMA NoNewEditor ==
    ASSUME NEW opts \in Seq(Options), NEW n \in Nat, n < Len(opts),
           NEW eds, InOrder(opts, n, eds), opts[n + 1].kind # "editor"
    PROVE  InOrder(opts, n + 1, eds)
<1>1. SoFar(opts, "editor", n + 1) = SoFar(opts, "editor", n)
  BY NextPlace
<1> QED  BY <1>1 DEF InOrder

LEMMA OptionKinds ==
    ASSUME NEW o \in Options
    PROVE  \/ o.kind = "doer" /\ o.value \in Doers \cup {NULL}
           \/ o.kind = "editor" /\ o.value \in Fns
           \/ o.kind = "base" /\ o.value \in BaseURLs
BY DEF Options, WithHTTPClient, WithRequestEditorFn, WithBaseURL

(* One turn of the loop. *)
LEMMA GatherOne ==
    ASSUME NEW opts \in Seq(Options), NEW n \in Nat, n < Len(opts), NEW base,
           NEW f, Gathered(opts, n, base, f)
    PROVE  Gathered(opts, n + 1, base, SetField(f, opts[n + 1]))
<1> DEFINE o == opts[n + 1]
           g == SetField(f, o)
<1>1. o \in Options
  BY ElementOfSeq, LenProperties
<1>2. f \in FieldsType
  BY DEF Gathered
<1> SUFFICES /\ g \in FieldsType
             /\ g.Server = IF o.kind = "base" THEN o.value ELSE f.Server
             /\ g.Client = IF o.kind = "doer" THEN o.value ELSE f.Client
             /\ g.RequestEditors = IF o.kind = "editor" THEN Append(f.RequestEditors, o.value)
                                   ELSE f.RequestEditors
  <2>1. /\ Latest(opts, "base", n + 1, base, IF o.kind = "base" THEN o.value ELSE f.Server)
        /\ Latest(opts, "doer", n + 1, NULL, IF o.kind = "doer" THEN o.value ELSE f.Client)
    BY NextLatest DEF Gathered
  <2>2. InOrder(opts, n + 1, IF o.kind = "editor" THEN Append(f.RequestEditors, o.value)
                             ELSE f.RequestEditors)
    BY <1>1, NextEditor, NoNewEditor, OptionKinds DEF Gathered
  <2> QED  BY <2>1, <2>2 DEF Gathered
<1>3. CASE o.kind = "doer" /\ o.value \in Doers \cup {NULL}
  BY <1>2, <1>3 DEF SetField, FieldsType
<1>4. CASE o.kind = "editor" /\ o.value \in Fns
  <2>1. Append(f.RequestEditors, o.value) \in Seq(Fns)
    BY <1>2, <1>4, AppendProperties DEF FieldsType
  <2> QED  BY <1>2, <1>4, <2>1 DEF SetField, FieldsType
<1>5. CASE o.kind = "base" /\ o.value \in BaseURLs
  BY <1>2, <1>5 DEF SetField, FieldsType
<1> QED  BY <1>1, <1>3, <1>4, <1>5, OptionKinds

(* The end of the loop: what the properties call the values of the list.   *)
LEMMA LatestAtTheEnd ==
    ASSUME NEW opts \in Seq(Options), NEW kind, NEW none, NEW v,
           Latest(opts, kind, Len(opts), none, v)
    PROVE  v = LastOf(opts, kind, none)
<1> DEFINE places == OfKind(opts, kind)
<1>1. /\ places \subseteq Int /\ IsFiniteSet(places)
      /\ SoFar(opts, kind, Len(opts)) = places
  BY PlacesFinite, LenProperties DEF SoFar, UpTo
<1>2. CASE places = {}
  BY <1>1, <1>2 DEF Latest, LastOf
<1>3. CASE places # {}
  <2>1. PICK m \in places : (\A j \in places : j <= m) /\ v = opts[m].value
    BY <1>1, <1>3 DEF Latest
  <2>2. UpTo(places, m) = places
    BY <2>1 DEF UpTo
  <2> DEFINE size == Cardinality(places)
  <2>3. size \in Nat \ {0}
    BY <1>1, <1>3, FS_CardinalityType, FS_EmptySet
  <2>4. Nth(places, size) = m
    BY <1>1, <2>2, NthIs
  <2>5. Len(Values(opts, kind)) = size /\ Values(opts, kind)[size] = opts[m].value
    BY <2>3, <2>4 DEF Values
  <2> QED  BY <1>3, <2>1, <2>5 DEF LastOf, Last
<1> QED  BY <1>2, <1>3

LEMMA EditorsAtTheEnd ==
    ASSUME NEW opts \in Seq(Options), NEW eds, InOrder(opts, Len(opts), eds)
    PROVE  eds = Values(opts, "editor")
<1> DEFINE places == OfKind(opts, "editor")
<1>1. /\ places \subseteq Int /\ IsFiniteSet(places)
      /\ SoFar(opts, "editor", Len(opts)) = places
  BY PlacesFinite, LenProperties DEF SoFar, UpTo
<1>2. /\ eds \in [1..Len(eds) -> Fns] /\ Len(eds) = Cardinality(places)
  BY <1>1, LenProperties DEF InOrder
<1>3. ASSUME NEW k \in 1..Len(eds) PROVE eds[k] = opts[Nth(places, k)].value
  <2>1. PICK i \in places : Cardinality(UpTo(places, i)) = k /\ eds[k] = opts[i].value
    BY <1>1 DEF InOrder
  <2>2. Nth(places, k) = i
    BY <1>1, <2>1, NthIs
  <2> QED  BY <2>1, <2>2
<1>4. eds = [k \in 1..Len(eds) |-> eds[k]]
  BY <1>2
<1> QED  BY <1>2, <1>3, <1>4 DEF Values

-----------------------------------------------------------------------------
(* New hands its config over as options, and NewClient gathers them again. *)

(* Whether an HTTP client comes before the editors. *)
Leading(cfg) == IF cfg.Client = NULL THEN 0 ELSE 1

LEMMA HandedOptions ==
    ASSUME NEW cfg \in FieldsType
    PROVE  /\ apiOpts(cfg) \in Seq(Options)
           /\ Len(apiOpts(cfg)) = Leading(cfg) + Len(cfg.RequestEditors)
           /\ Leading(cfg) = 1 =>
                apiOpts(cfg)[1] = [kind |-> "doer", value |-> cfg.Client]
           /\ \A i \in 1..Len(cfg.RequestEditors) :
                apiOpts(cfg)[Leading(cfg) + i] =
                    [kind |-> "editor", value |-> cfg.RequestEditors[i]]
<1> DEFINE eds == cfg.RequestEditors
           doer == IF cfg.Client = NULL THEN <<>>
                   ELSE <<[kind |-> "doer", value |-> cfg.Client]>>
           rest == [k \in DOMAIN eds |-> [kind |-> "editor", value |-> eds[k]]]
<1>1. eds \in Seq(Fns) /\ Len(eds) \in Nat /\ DOMAIN eds = 1..Len(eds)
  BY LenProperties DEF FieldsType
<1>2. \A k \in 1..Len(eds) : [kind |-> "editor", value |-> eds[k]] \in Options
  BY <1>1, ElementOfSeq DEF Options, WithRequestEditorFn
<1>3. rest \in Seq(Options) /\ Len(rest) = Len(eds)
  BY <1>1, <1>2, IsASeq
<1>4. /\ doer \in Seq(Options) /\ Len(doer) = Leading(cfg)
      /\ Leading(cfg) = 1 => doer[1] = [kind |-> "doer", value |-> cfg.Client]
  <2>1. [kind |-> "doer", value |-> cfg.Client] \in Options
    BY DEF FieldsType, Options, WithHTTPClient
  <2> QED  BY <2>1 DEF Leading
<1>5. apiOpts(cfg) = doer \o rest
  BY DEF apiOpts
<1> HIDE DEF doer
<1>6. /\ doer \o rest \in Seq(Options)
      /\ Len(doer \o rest) = Len(doer) + Len(rest)
      /\ \A i \in 1..Len(doer) + Len(rest) :
            (doer \o rest)[i] = IF i <= Len(doer) THEN doer[i] ELSE rest[i - Len(doer)]
  BY <1>3, <1>4, ConcatProperties
<1>7. Leading(cfg) \in {0, 1}
  BY DEF Leading
<1>8. Leading(cfg) = 1 => apiOpts(cfg)[1] = [kind |-> "doer", value |-> cfg.Client]
  BY <1>1, <1>3, <1>4, <1>5, <1>6
<1>9. ASSUME NEW i \in 1..Len(eds)
      PROVE  apiOpts(cfg)[Leading(cfg) + i] = [kind |-> "editor", value |-> eds[i]]
  <2>1. apiOpts(cfg)[Leading(cfg) + i] = rest[i]
    BY <1>1, <1>3, <1>4, <1>5, <1>6, <1>7
  <2> QED  BY <1>1, <2>1
<1> QED  BY <1>3, <1>4, <1>5, <1>6, <1>8, <1>9

(* The fields when n of the options that cfg was handed over as are applied. *)
Refilled(cfg, n, f) ==
    /\ f.Server = cfg.Server
    /\ f.Client = IF n = 0 THEN NULL ELSE cfg.Client
    /\ f.RequestEditors = SubSeq(cfg.RequestEditors, 1, n - Leading(cfg))

LEMMA NothingRefilled ==
    ASSUME NEW cfg \in FieldsType
    PROVE  Fields(cfg.Server) \in FieldsType /\ Refilled(cfg, 0, Fields(cfg.Server))
<1>1. SubSeq(cfg.RequestEditors, 1, 0 - Leading(cfg)) = <<>>
  <2>1. Leading(cfg) \in {0, 1}
    BY DEF Leading
  <2> QED  BY <2>1, SubSeqEmpty
<1>2. Fields(cfg.Server) \in FieldsType
  BY DEF Fields, FieldsType
<1> QED  BY <1>1, <1>2 DEF Refilled, Fields

LEMMA RefillOne ==
    ASSUME NEW cfg \in FieldsType, NEW n \in Nat, n < Len(apiOpts(cfg)),
           NEW f \in FieldsType, Refilled(cfg, n, f)
    PROVE  /\ SetField(f, apiOpts(cfg)[n + 1]) \in FieldsType
           /\ Refilled(cfg, n + 1, SetField(f, apiOpts(cfg)[n + 1]))
           /\ apiOpts(cfg)[n + 1].kind # "base"
<1> DEFINE eds == cfg.RequestEditors
           o == apiOpts(cfg)[n + 1]
           g == SetField(f, o)
<1>1. eds \in Seq(Fns) /\ Len(eds) \in Nat /\ Leading(cfg) \in {0, 1}
  BY LenProperties DEF FieldsType, Leading
<1>2. CASE n < Leading(cfg)
  <2>1. n = 0 /\ Leading(cfg) = 1
    BY <1>1, <1>2
  <2>2. o = [kind |-> "doer", value |-> cfg.Client]
    BY <2>1, HandedOptions
  <2>3. g = [f EXCEPT !.Client = cfg.Client] /\ o.kind # "base"
    BY <2>2 DEF SetField
  <2>4. SubSeq(eds, 1, 0 - 1) = <<>> /\ SubSeq(eds, 1, 1 - 1) = <<>>
    BY SubSeqEmpty
  <2> QED  BY <2>1, <2>3, <2>4 DEF Refilled, FieldsType
<1>3. CASE ~(n < Leading(cfg))
  <2> DEFINE k == n - Leading(cfg)
  <2>1. k \in Nat /\ k + 1 \in 1..Len(eds) /\ n + 1 = Leading(cfg) + (k + 1)
    <3>1. Len(apiOpts(cfg)) = Leading(cfg) + Len(eds)
      BY HandedOptions
    <3> QED  BY <1>1, <1>3, <3>1
  <2> HIDE DEF k
  <2>2. o = [kind |-> "editor", value |-> eds[k + 1]]
    BY <2>1, HandedOptions
  <2>3. eds[k + 1] \in Fns
    BY <1>1, <2>1, ElementOfSeq
  <2>4. /\ g = [f EXCEPT !.RequestEditors = Append(f.RequestEditors, eds[k + 1])]
        /\ o.kind # "base"
    BY <2>2 DEF SetField
  <2>5. f.RequestEditors = SubSeq(eds, 1, k) /\ f.RequestEditors \in Seq(Fns)
    BY DEF Refilled, FieldsType, k
  <2>6. SubSeq(eds, 1, k + 1) = SubSeq(eds, 1, k) \o <<eds[k + 1]>>
    <3>1. /\ 1 \in 1..Len(eds) /\ k + 1 \in 1..Len(eds) /\ (k + 1) - 1 = k
      BY <1>1, <2>1
    <3>2. SubSeq(eds, 1, k + 1) = SubSeq(eds, 1, (k + 1) - 1) \o <<eds[k + 1]>>
      BY <1>1, <3>1, SubSeqRecursiveSecond
    <3> QED  BY <3>1, <3>2
  <2>7. Append(f.RequestEditors, eds[k + 1]) = SubSeq(eds, 1, k + 1)
    BY <2>3, <2>5, <2>6, AppendIsConcat
  <2>8. Append(f.RequestEditors, eds[k + 1]) \in Seq(Fns)
    BY <2>3, <2>5, AppendProperties
  <2>9. f.Client = cfg.Client
    BY <1>1, <1>3 DEF Refilled, Leading
  <2>10. (n + 1) - Leading(cfg) = k + 1 /\ n + 1 # 0
    BY <1>1, <2>1
  <2> QED  BY <2>4, <2>7, <2>8, <2>9, <2>10 DEF Refilled, FieldsType
<1> QED  BY <1>2, <1>3

LEMMA RefilledAtTheEnd ==
    ASSUME NEW cfg \in FieldsType, NEW f \in FieldsType,
           Refilled(cfg, Len(apiOpts(cfg)), f)
    PROVE  f = cfg
<1> DEFINE eds == cfg.RequestEditors
<1>1. eds \in Seq(Fns) /\ Len(eds) \in Nat /\ Leading(cfg) \in {0, 1}
  BY LenProperties DEF FieldsType, Leading
<1>2. /\ Len(apiOpts(cfg)) = Leading(cfg) + Len(eds)
      /\ Len(apiOpts(cfg)) - Leading(cfg) = Len(eds)
  <2>1. Len(apiOpts(cfg)) = Leading(cfg) + Len(eds)
    BY HandedOptions
  <2> QED  BY <1>1, <2>1
<1>3. f.RequestEditors = eds
  BY <1>1, <1>2, SubSeqFull DEF Refilled
<1>4. f.Client = cfg.Client
  <2>1. f.Client = IF Len(apiOpts(cfg)) = 0 THEN NULL ELSE cfg.Client
    BY DEF Refilled
  <2>2. CASE cfg.Client = NULL
    BY <2>1, <2>2
  <2>3. CASE cfg.Client # NULL
    <3>1. Leading(cfg) = 1
      BY <2>3 DEF Leading
    <3>2. Len(apiOpts(cfg)) # 0
      BY <1>1, <1>2, <3>1
    <3> QED  BY <2>1, <3>2
  <2> QED  BY <2>2, <2>3
<1> QED  BY <1>3, <1>4 DEF Refilled, FieldsType

-----------------------------------------------------------------------------
(* Construction.                                                           *)

(* The client that a list of options and a base URL are for. *)
ClientOf(opts, base) ==
    LET doer == LastOf(opts, "doer", NULL)
    IN  [Server |-> WithSlash(LastOf(opts, "base", base)),
         Client |-> IF doer = NULL THEN FreshClient ELSE doer,
         RequestEditors |-> Values(opts, "editor")]

Sound(opts, base) ==
    /\ LastOf(opts, "base", base) \in BaseURLs
    /\ LastOf(opts, "doer", NULL) \in Doers \cup {NULL}
    /\ Values(opts, "editor") \in Seq(Fns)

GivenType == [base : BaseURLs, options : SeqOf(Options, MaxOptions)]

MakingType ==
    [in : {"none", "New", "NewClient"}, options : Seq(Options), applied : Nat,
     fields : [Server : BaseURLs \cup {NULL}, Client : Doers \cup {NULL},
               RequestEditors : Seq(Fns)]]

(* The loop over the options given, in either constructor. *)
Gathering ==
    /\ making.in \in {"New", "NewClient"}
    /\ making.options = given.options
    /\ Gathered(given.options, making.applied, given.base, making.fields)

(* NewClient's loop over what New hands over to it. *)
Refilling ==
    /\ making.in = "NewClient" /\ making.fields \in FieldsType
    /\ \E cfg \in FieldsType :
        /\ Gathered(given.options, Len(given.options), given.base, cfg)
        /\ making.options = apiOpts(cfg)
        /\ Refilled(cfg, making.applied, making.fields)

MakingInv ==
    /\ making \in MakingType /\ making.applied <= Len(making.options)
    /\ \/ given = Unmade /\ making = Nobody /\ client = NULL
       \/ given \in GivenType /\ making = Nobody
       \/ given \in GivenType /\ client = NULL /\ (Gathering \/ Refilling)
    /\ client # NULL =>
        client = ClientOf(given.options, given.base) /\ Sound(given.options, given.base)

LEMMA GivenOptions ==
    ASSUME NEW n \in Nat, NEW S, NEW opts \in SeqOf(S, n)
    PROVE  opts \in Seq(S)
BY SeqDef DEF SeqOf

LEMMA ClientGathered ==
    ASSUME NEW opts \in Seq(Options), NEW base, NEW f,
           Gathered(opts, Len(opts), base, f)
    PROVE  /\ Sound(opts, base)
           /\ [f EXCEPT !.Server = WithSlash(@),
                        !.Client = IF @ = NULL THEN FreshClient ELSE @]
                = ClientOf(opts, base)
<1>1. /\ f.Server = LastOf(opts, "base", base)
      /\ f.Client = LastOf(opts, "doer", NULL)
      /\ f.RequestEditors = Values(opts, "editor")
      /\ f \in FieldsType
  BY LatestAtTheEnd, EditorsAtTheEnd DEF Gathered
<1>2. Sound(opts, base)
  BY <1>1 DEF Sound, FieldsType
<1>3. [f EXCEPT !.Server = WithSlash(@), !.Client = IF @ = NULL THEN FreshClient ELSE @]
        = [Server |-> WithSlash(f.Server),
           Client |-> IF f.Client = NULL THEN FreshClient ELSE f.Client,
           RequestEditors |-> f.RequestEditors]
  <2> DEFINE server == WithSlash(f.Server)
             doer == IF f.Client = NULL THEN FreshClient ELSE f.Client
  <2> HIDE DEF server, doer
  <2> DEFINE g == [f EXCEPT !.Server = server]
  <2>1. f = [Server |-> f.Server, Client |-> f.Client, RequestEditors |-> f.RequestEditors]
    BY <1>1 DEF FieldsType
  <2>2. [f EXCEPT !.Server = server, !.Client = doer] = [g EXCEPT !.Client = doer]
    BY <2>1
  <2>3. g = [Server |-> server, Client |-> f.Client, RequestEditors |-> f.RequestEditors]
    BY <2>1
  <2> HIDE DEF g
  <2>4. [g EXCEPT !.Client = doer]
          = [Server |-> server, Client |-> doer, RequestEditors |-> f.RequestEditors]
    BY <2>3
  <2> QED  BY <2>2, <2>4 DEF server, doer
<1> QED  BY <1>1, <1>2, <1>3 DEF ClientOf

LEMMA LoopTyped ==
    ASSUME NEW constructor \in {"none", "New", "NewClient"}, NEW opts \in Seq(Options),
           NEW server \in BaseURLs \cup {NULL}
    PROVE  /\ Loop(constructor, server, opts) \in MakingType
           /\ 0 <= Len(opts)
BY LenProperties DEF Loop, Fields, MakingType

LEMMA NobodyTyped == Nobody \in MakingType /\ Nobody.applied <= Len(Nobody.options)
<1>1. <<>> \in Seq(Options) /\ Len(<<>>) = 0
  OBVIOUS
<1>2. Nobody \in MakingType
  BY <1>1, LoopTyped DEF Nobody
<1> QED  BY <1>1, <1>2 DEF Nobody, Loop

LEMMA InitMaking == Init => MakingInv
BY NobodyTyped DEF Init, MakingInv

LEMMA BeginMaking ==
    ASSUME MakingInv, NEW constructor \in {"New", "NewClient"}, NEW base \in BaseURLs,
           NEW opts \in SeqOf(Options, MaxOptions), Begin(constructor, base, opts)
    PROVE  MakingInv'
<1>1. opts \in Seq(Options)
  BY GivenOptions, BoundAssumption
<1>2. /\ given' = [base |-> base, options |-> opts]
      /\ making' = Loop(constructor, base, opts)
      /\ client' = client /\ given = Unmade
  BY DEF Begin
<1>3. client = NULL
  BY <1>2, NullAssumption DEF MakingInv, GivenType, Unmade
<1>4. given' \in GivenType /\ given'.base = base /\ given'.options = opts
  BY <1>2 DEF GivenType
<1>5. making' \in MakingType /\ making'.applied <= Len(making'.options)
  BY <1>1, <1>2, LoopTyped DEF Loop
<1>6. Gathering'
  BY <1>1, <1>2, <1>4, NothingGathered DEF Gathering, Loop
<1> QED  BY <1>2, <1>3, <1>4, <1>5, <1>6 DEF MakingInv

LEMMA ApplyOptionMaking == ASSUME MakingInv, ApplyOption PROVE MakingInv'
<1> DEFINE n == making.applied
           opts == making.options
           o == opts[n + 1]
<1>1. /\ n < Len(opts) /\ n \in Nat /\ opts \in Seq(Options)
      /\ given' = given /\ client' = client
  BY DEF ApplyOption, MakingInv, MakingType
<1>2. given \in GivenType /\ client = NULL /\ (Gathering \/ Refilling)
  <2>1. making # Nobody
    BY <1>1 DEF Nobody, Loop
  <2> QED  BY <2>1 DEF MakingInv
<1>3. CASE o.kind = "base" /\ ~o.value.parses
  <2>1. making' = Nobody
    BY <1>3 DEF ApplyOption
  <2> QED  BY <1>1, <1>2, <2>1, NobodyTyped DEF MakingInv
<1>4. CASE ~(o.kind = "base" /\ ~o.value.parses)
  <2> DEFINE f == SetField(making.fields, o)
  <2>1. making' = [making EXCEPT !.applied = n + 1, !.fields = f]
    BY <1>4 DEF ApplyOption
  <2>2. making \in MakingType
    BY DEF MakingInv
  <2>3. /\ making'.in = making.in /\ making'.options = opts
        /\ making'.applied = n + 1 /\ making'.fields = f
    BY <2>1, <2>2 DEF MakingType
  <2>4. f \in FieldsType /\ (Gathering' \/ Refilling')
    <3>1. CASE Gathering
      <4>1. given.options = opts /\ given.options \in Seq(Options)
        BY <1>1, <3>1 DEF Gathering
      <4>2. Gathered(opts, n + 1, given.base, f)
        BY <1>1, <3>1, <4>1, GatherOne DEF Gathering
      <4> QED  BY <1>1, <2>3, <3>1, <4>1, <4>2 DEF Gathering, Gathered
    <3>2. CASE Refilling
      <4>1. PICK cfg \in FieldsType :
              /\ Gathered(given.options, Len(given.options), given.base, cfg)
              /\ opts = apiOpts(cfg)
              /\ Refilled(cfg, n, making.fields)
        BY <3>2 DEF Refilling
      <4>2. f \in FieldsType /\ Refilled(cfg, n + 1, f)
        BY <1>1, <3>2, <4>1, RefillOne DEF Refilling
      <4> QED  BY <1>1, <2>3, <3>2, <4>1, <4>2 DEF Refilling
    <3> QED  BY <1>2, <3>1, <3>2
  <2> HIDE DEF f
  <2>5. making' \in MakingType
    <3> DEFINE counted == [making EXCEPT !.applied = n + 1]
    <3>1. f \in [Server : BaseURLs \cup {NULL}, Client : Doers \cup {NULL},
                 RequestEditors : Seq(Fns)]
      BY <2>4 DEF FieldsType
    <3>2. making' = [counted EXCEPT !.fields = f]
      BY <2>1, <2>2 DEF MakingType
    <3>3. counted \in MakingType
      BY <1>1, <2>2 DEF MakingType
    <3> HIDE DEF counted
    <3> QED  BY <3>1, <3>2, <3>3 DEF MakingType
  <2>6. making'.applied <= Len(making'.options)
    BY <1>1, <2>3, LenProperties
  <2> QED  BY <1>1, <1>2, <2>4, <2>5, <2>6 DEF MakingInv
<1> QED  BY <1>3, <1>4

(* At the end of New's or NewClient's own loop all options are gathered.   *)
LEMMA AllGathered ==
    ASSUME MakingInv, making.in # "none", making.applied = Len(making.options)
    PROVE  /\ given \in GivenType /\ client = NULL /\ making.fields \in FieldsType
           /\ Gathered(given.options, Len(given.options), given.base, making.fields)
<1>1. making # Nobody
  BY DEF Nobody, Loop
<1>2. CASE Gathering
  BY <1>1, <1>2 DEF MakingInv, Gathering, Gathered
<1>3. CASE Refilling
  <2>1. PICK cfg \in FieldsType :
          /\ Gathered(given.options, Len(given.options), given.base, cfg)
          /\ Refilled(cfg, Len(apiOpts(cfg)), making.fields)
    BY <1>3 DEF Refilling
  <2>2. making.fields = cfg
    BY <1>3, <2>1, RefilledAtTheEnd DEF Refilling
  <2> QED  BY <1>1, <2>1, <2>2 DEF MakingInv
<1> QED  BY <1>1, <1>2, <1>3 DEF MakingInv

LEMMA HandOverMaking == ASSUME MakingInv, HandOver PROVE MakingInv'
<1> DEFINE cfg == making.fields
<1>1. /\ given \in GivenType /\ client = NULL /\ cfg \in FieldsType
      /\ Gathered(given.options, Len(given.options), given.base, cfg)
  BY AllGathered DEF HandOver
<1>2. /\ making' = Loop("NewClient", cfg.Server, apiOpts(cfg))
      /\ given' = given /\ client' = client
  BY DEF HandOver
<1> HIDE DEF cfg
<1>3. apiOpts(cfg) \in Seq(Options) /\ cfg.Server \in BaseURLs
  BY <1>1, HandedOptions DEF FieldsType
<1>4. making' \in MakingType /\ making'.applied <= Len(making'.options)
  BY <1>2, <1>3, LoopTyped DEF Loop
<1>5. /\ making'.in = "NewClient" /\ making'.options = apiOpts(cfg)
      /\ making'.applied = 0 /\ making'.fields = Fields(cfg.Server)
  BY <1>2 DEF Loop
<1>6. Fields(cfg.Server) \in FieldsType /\ Refilled(cfg, 0, Fields(cfg.Server))
  BY <1>1, NothingRefilled
<1>7. Refilling'
  BY <1>1, <1>2, <1>5, <1>6 DEF Refilling
<1> QED  BY <1>1, <1>2, <1>4, <1>7 DEF MakingInv

LEMMA NewClientMaking == ASSUME MakingInv, NewClient PROVE MakingInv'
<1>1. /\ given \in GivenType
      /\ Gathered(given.options, Len(given.options), given.base, making.fields)
  BY AllGathered DEF NewClient
<1>2. given.options \in Seq(Options)
  BY <1>1, GivenOptions, BoundAssumption DEF GivenType
<1>3. client' = ClientOf(given.options, given.base) /\ Sound(given.options, given.base)
  BY <1>1, <1>2, ClientGathered DEF NewClient
<1> QED  BY <1>1, <1>3, NobodyTyped DEF NewClient, MakingInv

-----------------------------------------------------------------------------
(* URLs.                                                                   *)

Segments == STRING \cup {""}

URLType == [parses : BOOLEAN, path : Seq(Segments), hasQuery : BOOLEAN]

LEMMA FrontOfAppend ==
    ASSUME NEW S, NEW s \in Seq(S), NEW e \in S
    PROVE  /\ Append(s, e) \in Seq(S) /\ Append(s, e) # <<>>
           /\ Last(Append(s, e)) = e /\ Front(Append(s, e)) = s
<1> DEFINE t == Append(s, e)
<1>1. /\ t \in Seq(S) /\ t # <<>> /\ Len(t) = Len(s) + 1 /\ Len(s) \in Nat
      /\ t[Len(s) + 1] = e
      /\ \A i \in 1..Len(s) : t[i] = s[i] /\ s[i] \in S
  BY AppendProperties, LenProperties, ElementOfSeq
<1> HIDE DEF t
<1>2. Front(t) = SubSeq(t, 1, Len(s))
  BY <1>1 DEF Front
<1>3. /\ SubSeq(t, 1, Len(s)) \in Seq(S) /\ Len(SubSeq(t, 1, Len(s))) = Len(s)
      /\ \A i \in 1..Len(s) : SubSeq(t, 1, Len(s))[i] = s[i]
  BY <1>1, SubSeqProperties
<1>4. SubSeq(t, 1, Len(s)) = s
  BY <1>3, SeqEqual
<1> QED  BY <1>1, <1>2, <1>4 DEF Last, t

LEMMA SegmentsTyped == "" \in Segments
BY DEF Segments

LEMMA URLsTyped == BaseURLs \subseteq URLType
<1>1. \A s \in Seq(STRING) : s \in Seq(Segments)
  BY SeqMonotonic DEF Segments
<1> QED  BY <1>1, URLsAssumption DEF URLType

LEMMA SlashedURL ==
    ASSUME NEW u \in BaseURLs
    PROVE  /\ u.path \in Seq(Segments)
           /\ WithSlash(u).parses = u.parses
           /\ WithSlash(u).hasQuery = u.hasQuery
           /\ WithSlash(u).path = IF EndsInSlash(u) \/ u.hasQuery THEN u.path
                                  ELSE Append(u.path, "")
<1>1. u \in URLType
  BY URLsTyped
<1> USE DEF URLType
<1>2. CASE EndsInSlash(u) \/ u.hasQuery
  BY <1>1, <1>2 DEF WithSlash
<1>3. CASE ~(EndsInSlash(u) \/ u.hasQuery)
  <2>1. WithSlash(u) = [u EXCEPT !.path = Append(u.path, "")]
    BY <1>3 DEF WithSlash
  <2> QED  BY <1>1, <1>3, <2>1
<1> QED  BY <1>2, <1>3

(* NewClient's slash is there, unless it went into a query. *)
LEMMA SlashIsThere ==
    ASSUME NEW u \in BaseURLs
    PROVE  EndsInSlash(WithSlash(u)) \/ WithSlash(u).hasQuery
<1>1. CASE EndsInSlash(u) \/ u.hasQuery
  BY <1>1 DEF WithSlash
<1>2. CASE ~(EndsInSlash(u) \/ u.hasQuery)
  <2>1. Append(u.path, "") # <<>> /\ Last(Append(u.path, "")) = ""
    <3>1. u.path \in Seq(Segments)
      BY SlashedURL
    <3> QED  BY <3>1, SegmentsTyped, FrontOfAppend, Zenon
  <2>2. WithSlash(u).path = Append(u.path, "") /\ WithSlash(u).hasQuery = u.hasQuery
    BY <1>2, SlashedURL
  <2> QED  BY <1>2, <2>1, <2>2 DEF EndsInSlash
<1> QED  BY <1>1, <1>2

(* What is resolved against a base URL with its slash goes below its path. *)
LEMMA ResolvedBelow ==
    ASSUME NEW u \in BaseURLs, ~u.hasQuery, NEW path
    PROVE  Resolve(WithSlash(u), path).path =
             (IF EndsInSlash(u) THEN Front(u.path) ELSE u.path) \o path
<1> DEFINE w == WithSlash(u)
<1>1. Resolve(w, path).path = (IF w.path = <<>> THEN <<>> ELSE Front(w.path)) \o path
  <2>1. w \in URLType
    <3>1. u \in URLType
      BY URLsTyped
    <3>2. Append(u.path, "") \in Seq(Segments)
      BY <3>1, SegmentsTyped, AppendProperties DEF URLType
    <3> QED  BY <3>1, <3>2 DEF WithSlash, URLType
  <2> HIDE DEF w
  <2> QED  BY <2>1 DEF Resolve, URLType
<1>2. CASE EndsInSlash(u)
  <2>1. w.path = u.path
    BY <1>2, SlashedURL
  <2> QED  BY <1>1, <1>2, <2>1 DEF EndsInSlash
<1>3. CASE ~EndsInSlash(u)
  <2>1. w.path = Append(u.path, "") /\ u.path \in Seq(Segments)
    BY <1>3, SlashedURL
  <2>2. Append(u.path, "") # <<>> /\ Front(Append(u.path, "")) = u.path
    BY <2>1, SegmentsTyped, FrontOfAppend, Zenon
  <2> QED  BY <1>1, <1>3, <2>1, <2>2
<1> QED  BY <1>2, <1>3

-----------------------------------------------------------------------------
(* Calls.                                                                  *)

Requests ==
    {Resolve(WithSlash(u), OperationPath(o)) : u \in BaseURLs, o \in Operations}

CallType ==
    [at : {"idle", "editing", "failed", "sent"}, operation : Operations \cup {NULL},
     own : Seq(Fns), url : Requests \cup {NULL}, todo : Seq(Fns), edits : Seq(Fns),
     doer : Doers \cup {FreshClient, NULL}]

(* What a request that is being edited, or is out, has behind it and ahead. *)
UnderWay(c) ==
    /\ client # NULL /\ client.Server.parses
    /\ call[c].url = Resolve(client.Server, OperationPath(call[c].operation))
    /\ call[c].edits \o call[c].todo = client.RequestEditors \o call[c].own

CallInv(c) ==
    /\ call[c].at # "idle" => client # NULL
    /\ call[c].at \in {"editing", "sent"} => UnderWay(c)
    /\ call[c].at = "sent" => call[c].todo = <<>> /\ call[c].doer = client.Client

CallsInv == call \in [Calls -> CallType] /\ \A c \in Calls : CallInv(c)

RequestsInv == MakingInv /\ CallsInv

LEMMA IdleTyped == Idle \in CallType
BY DEF Idle, CallType

LEMMA InitCalls == Init => CallsInv
<1> SUFFICES ASSUME Init PROVE CallsInv
  OBVIOUS
<1>1. call \in [Calls -> CallType]
  BY IdleTyped DEF Init
<1>2. \A c \in Calls : call[c].at = "idle"
  BY DEF Init, Idle
<1> QED  BY <1>1, <1>2 DEF CallsInv, CallInv

LEMMA HeadThenTail ==
    ASSUME NEW S, NEW s \in Seq(S), s # <<>>
    PROVE  s = <<Head(s)>> \o Tail(s)
<1>1. Len(s) \in Nat \ {0}
  BY EmptySeq
<1>2. SubSeq(s, 1, Len(s)) = <<s[1]>> \o SubSeq(s, 1 + 1, Len(s))
  BY <1>1, SubSeqRecursiveFirst
<1>3. SubSeq(s, 1, Len(s)) = s /\ SubSeq(s, 1 + 1, Len(s)) = Tail(s)
  BY SubSeqFull, TailIsSubSeq
<1> QED  BY <1>2, <1>3

(* An editor that has run goes from the front of those to come to the end  *)
(* of those that have.                                                     *)
LEMMA FirstMoved ==
    ASSUME NEW S, NEW edits \in Seq(S), NEW todo \in Seq(S), todo # <<>>
    PROVE  Append(edits, Head(todo)) \o Tail(todo) = edits \o todo
<1>1. ASSUME NEW h \in S, NEW t \in Seq(S)
      PROVE  Append(edits, h) \o t = edits \o (<<h>> \o t)
  <2>1. Append(edits, h) = edits \o <<h>> /\ <<h>> \in Seq(S)
    BY AppendIsConcat
  <2> DEFINE one == <<h>>
  <2> HIDE DEF one
  <2>2. (edits \o one) \o t = edits \o (one \o t)
    BY <2>1, ConcatAssociative DEF one
  <2> QED  BY <2>1, <2>2 DEF one
<1>2. Head(todo) \in S /\ Tail(todo) \in Seq(S)
  BY HeadTailProperties
<1>3. todo = <<Head(todo)>> \o Tail(todo)
  BY HeadThenTail
<1> QED  BY <1>1, <1>2, <1>3, Zenon

(* The calls that do not move, while the client stays what it is. *)
LEMMA OthersStay ==
    ASSUME CallsInv, UNCHANGED client, NEW c \in Calls, NEW record \in CallType,
           call' = [call EXCEPT ![c] = record], CallInv(c)'
    PROVE  CallsInv'
<1>1. call' \in [Calls -> CallType]
  BY DEF CallsInv
<1>2. ASSUME NEW d \in Calls PROVE CallInv(d)'
  <2>1. CASE d = c
    BY <2>1
  <2>2. CASE d # c
    <3>1. call'[d] = call[d]
      BY <2>2 DEF CallsInv
    <3> QED  BY <3>1 DEF CallsInv, CallInv, UnderWay
  <2> QED  BY <2>1, <2>2
<1> QED  BY <1>1, <1>2 DEF CallsInv

(* The client that a call meets. *)
LEMMA ClientTyped ==
    ASSUME MakingInv, client # NULL
    PROVE  /\ \E u \in BaseURLs : client.Server = WithSlash(u)
           /\ client.Client \in Doers \cup {FreshClient}
           /\ client.RequestEditors \in Seq(Fns)
BY DEF MakingInv, ClientOf, Sound

LEMMA StartCalls == ASSUME MakingInv, CallsInv, NEW c \in Calls, Start(c) PROVE CallsInv'
<1>1. PICK o \in Operations, own \in SeqOf(Fns, 1) : Step(c, "idle", NewRequest(o, own))
  BY DEF Start
<1>2. client # NULL /\ client' = client /\ call' = [call EXCEPT ![c] = NewRequest(o, own)]
  BY <1>1 DEF Start, Step
<1>3. own \in Seq(Fns)
  BY GivenOptions
<1>4. PICK u \in BaseURLs : client.Server = WithSlash(u)
  BY <1>2, ClientTyped
<1>5. client.RequestEditors \in Seq(Fns) /\ Editors(own) \in Seq(Fns)
  BY <1>2, <1>3, ClientTyped, ConcatProperties DEF Editors
<1>6. call \in [Calls -> CallType]
  BY DEF CallsInv
<1> DEFINE record == NewRequest(o, own)
<1>7. CASE client.Server.parses
  <2> DEFINE url == Resolve(client.Server, OperationPath(o))
             todo == Editors(own)
  <2>1. record = [at |-> "editing", operation |-> o, own |-> own, url |-> url,
                  todo |-> todo, edits |-> <<>>, doer |-> NULL]
    BY <1>7 DEF NewRequest, Idle
  <2>2. url \in Requests
    BY <1>4 DEF Requests
  <2> HIDE DEF record, url, todo
  <2>3. record \in CallType
    BY <1>3, <1>5, <2>1, <2>2 DEF CallType, todo
  <2>4. call'[c] = record
    BY <1>2, <1>6 DEF record
  <2>5. <<>> \o todo = client.RequestEditors \o own
    BY <1>5, ConcatEmptySeq DEF Editors, todo
  <2>6. CallInv(c)'
    <3>1. /\ call'[c].at = "editing" /\ call'[c].operation = o /\ call'[c].own = own
          /\ call'[c].url = url /\ call'[c].todo = todo /\ call'[c].edits = <<>>
      BY <2>1, <2>4
    <3>2. call'[c].url = Resolve(client'.Server, OperationPath(call'[c].operation))
      BY <1>2, <3>1 DEF url
    <3>3. call'[c].edits \o call'[c].todo = client'.RequestEditors \o call'[c].own
      BY <1>2, <2>5, <3>1
    <3> QED  BY <1>2, <1>7, <3>1, <3>2, <3>3 DEF CallInv, UnderWay
  <2> QED  BY <1>2, <2>3, <2>6, OthersStay DEF record
<1>8. CASE ~client.Server.parses
  <2>1. record = [at |-> "failed", operation |-> o, own |-> own, url |-> NULL,
                  todo |-> <<>>, edits |-> <<>>, doer |-> NULL]
    BY <1>8 DEF NewRequest, Idle
  <2> HIDE DEF record
  <2>2. record \in CallType
    BY <1>3, <2>1 DEF CallType
  <2>3. call'[c] = record
    BY <1>2, <1>6 DEF record
  <2>4. CallInv(c)'
    BY <1>2, <2>1, <2>3 DEF CallInv
  <2> QED  BY <1>2, <2>2, <2>4, OthersStay DEF record
<1> QED  BY <1>7, <1>8

LEMMA EditCalls == ASSUME MakingInv, CallsInv, NEW c \in Calls, Edit(c) PROVE CallsInv'
<1> DEFINE r == call[c]
           moved == [r EXCEPT !.todo = Tail(@), !.edits = Append(@, Head(r.todo))]
<1>1. /\ r.todo # <<>> /\ r.at = "editing" /\ client' = client
      /\ call' = [call EXCEPT ![c] = moved]
  BY DEF Edit, Step
<1>2. r \in CallType /\ UnderWay(c)
  BY <1>1 DEF CallsInv, CallInv
<1>3. /\ r.todo \in Seq(Fns) /\ r.edits \in Seq(Fns)
      /\ Head(r.todo) \in Fns /\ Tail(r.todo) \in Seq(Fns)
      /\ Append(r.edits, Head(r.todo)) \in Seq(Fns)
  BY <1>1, <1>2, HeadTailProperties, AppendProperties DEF CallType
<1>4. /\ moved.at = "editing" /\ moved.operation = r.operation /\ moved.own = r.own
      /\ moved.url = r.url /\ moved.todo = Tail(r.todo)
      /\ moved.edits = Append(r.edits, Head(r.todo))
  BY <1>1, <1>2 DEF CallType
<1>5. moved \in CallType
  <2> DEFINE half == [r EXCEPT !.todo = Tail(r.todo)]
  <2>1. moved = [half EXCEPT !.edits = Append(r.edits, Head(r.todo))]
    BY <1>2 DEF CallType
  <2>2. half \in CallType
    BY <1>2, <1>3 DEF CallType
  <2> HIDE DEF half
  <2> QED  BY <1>3, <2>1, <2>2 DEF CallType
<1>6. Append(r.edits, Head(r.todo)) \o Tail(r.todo) = r.edits \o r.todo
  BY <1>1, <1>3, FirstMoved
<1> HIDE DEF moved
<1>7. call'[c] = moved
  BY <1>1 DEF CallsInv
<1>8. CallInv(c)'
  <2>1. call'[c].url = Resolve(client'.Server, OperationPath(call'[c].operation))
    BY <1>1, <1>2, <1>4, <1>7 DEF UnderWay
  <2>2. call'[c].edits \o call'[c].todo = client'.RequestEditors \o call'[c].own
    BY <1>1, <1>2, <1>4, <1>6, <1>7 DEF UnderWay
  <2> QED  BY <1>1, <1>2, <1>4, <1>7, <2>1, <2>2 DEF CallInv, UnderWay
<1> QED  BY <1>1, <1>5, <1>8, OthersStay

LEMMA EditFailsCalls ==
    ASSUME MakingInv, CallsInv, NEW c \in Calls, EditFails(c) PROVE CallsInv'
<1> DEFINE failed == [call[c] EXCEPT !.at = "failed"]
<1>1. /\ call[c].at = "editing" /\ client' = client
      /\ call' = [call EXCEPT ![c] = failed]
  BY DEF EditFails, Step
<1>2. call[c] \in CallType /\ UnderWay(c)
  BY <1>1 DEF CallsInv, CallInv
<1>3. failed \in CallType /\ failed.at = "failed"
  BY <1>2 DEF CallType
<1> HIDE DEF failed
<1>4. call'[c] = failed
  BY <1>1 DEF CallsInv
<1>5. CallInv(c)'
  BY <1>1, <1>2, <1>3, <1>4 DEF CallInv, UnderWay
<1> QED  BY <1>1, <1>3, <1>5, OthersStay

LEMMA DoCalls == ASSUME MakingInv, CallsInv, NEW c \in Calls, Do(c) PROVE CallsInv'
<1> DEFINE r == call[c]
           sent == [r EXCEPT !.at = "sent", !.doer = client.Client]
<1>1. /\ r.todo = <<>> /\ r.at = "editing" /\ client' = client
      /\ call' = [call EXCEPT ![c] = sent]
  BY DEF Do, Step
<1>2. r \in CallType /\ UnderWay(c)
  BY <1>1 DEF CallsInv, CallInv
<1>3. client.Client \in Doers \cup {FreshClient}
  BY <1>2, ClientTyped DEF UnderWay
<1>4. /\ sent.at = "sent" /\ sent.operation = r.operation /\ sent.own = r.own
      /\ sent.url = r.url /\ sent.todo = r.todo /\ sent.edits = r.edits
      /\ sent.doer = client.Client
  BY <1>2 DEF CallType
<1>5. sent \in CallType
  <2> DEFINE half == [r EXCEPT !.at = "sent"]
  <2>1. sent = [half EXCEPT !.doer = client.Client]
    BY <1>2 DEF CallType
  <2>2. half \in CallType
    BY <1>2 DEF CallType
  <2> HIDE DEF half
  <2> QED  BY <1>3, <2>1, <2>2 DEF CallType
<1> HIDE DEF sent
<1>6. call'[c] = sent
  BY <1>1 DEF CallsInv
<1>7. CallInv(c)'
  <2>1. call'[c].url = Resolve(client'.Server, OperationPath(call'[c].operation))
    BY <1>1, <1>2, <1>4, <1>6 DEF UnderWay
  <2>2. call'[c].edits \o call'[c].todo = client'.RequestEditors \o call'[c].own
    BY <1>1, <1>2, <1>4, <1>6 DEF UnderWay
  <2> QED  BY <1>1, <1>2, <1>4, <1>6, <2>1, <2>2 DEF CallInv, UnderWay
<1> QED  BY <1>1, <1>5, <1>7, OthersStay

-----------------------------------------------------------------------------
(* The specification.                                                      *)

LEMMA NextRequests == RequestsInv /\ [Next]_vars => RequestsInv'
<1> SUFFICES ASSUME MakingInv, CallsInv, [Next]_vars PROVE MakingInv' /\ CallsInv'
  BY DEF RequestsInv
(* A call never changes the client, nor what it is made from. *)
<1>1. ASSUME UNCHANGED <<given, making, client>> PROVE MakingInv'
  BY <1>1 DEF MakingInv, Gathering, Refilling
(* Construction moves no call, and there is none before there is a client. *)
<1>2. ASSUME UNCHANGED call, client' = client \/ client = NULL PROVE CallsInv'
  <2>1. CASE client' = client
    BY <1>2, <2>1 DEF CallsInv, CallInv, UnderWay
  <2>2. CASE client = NULL
    <3>1. ASSUME NEW c \in Calls PROVE call[c].at = "idle"
      BY <2>2 DEF CallsInv, CallInv, CallType
    <3> QED  BY <1>2, <3>1 DEF CallsInv, CallInv
  <2> QED  BY <1>2, <2>1, <2>2
<1>3. CASE New \/ NewClientWithResponses
  <2>1. PICK constructor \in {"New", "NewClient"}, base \in BaseURLs,
             opts \in SeqOf(Options, MaxOptions) : Begin(constructor, base, opts)
    <3>1. SeqOf(WithHTTPClient \cup WithRequestEditorFn, MaxOptions)
            \subseteq SeqOf(Options, MaxOptions)
      <4>1. ASSUME NEW S, NEW T, S \subseteq T, NEW m PROVE [1..m -> S] \subseteq [1..m -> T]
        BY <4>1
      <4> QED  BY <4>1 DEF SeqOf, Options
    <3>2. CASE New
      BY <3>1, <3>2 DEF New
    <3>3. CASE NewClientWithResponses
      BY <3>3 DEF NewClientWithResponses, Options
    <3> QED  BY <1>3, <3>2, <3>3
  <2> QED  BY <1>2, <2>1, BeginMaking DEF Begin
<1>4. CASE ApplyOption
  BY <1>2, <1>4, ApplyOptionMaking DEF ApplyOption
<1>5. CASE HandOver
  BY <1>2, <1>5, HandOverMaking DEF HandOver
<1>6. CASE NewClient
  <2>1. client = NULL
    BY <1>6, AllGathered DEF NewClient
  <2> QED  BY <1>2, <1>6, <2>1, NewClientMaking DEF NewClient
<1>7. ASSUME NEW c \in Calls, Start(c) \/ Edit(c) \/ EditFails(c) \/ Do(c)
      PROVE  MakingInv' /\ CallsInv'
  <2>1. UNCHANGED <<given, making, client>>
    BY <1>7 DEF Start, Edit, EditFails, Do
  <2> QED  BY <1>1, <1>7, <2>1, StartCalls, EditCalls, EditFailsCalls, DoCalls
<1>8. CASE UNCHANGED vars
  BY <1>1, <1>2, <1>8 DEF vars
<1> QED  BY <1>3, <1>4, <1>5, <1>6, <1>7, <1>8 DEF Next

LEMMA RequestsInductive == Spec => []RequestsInv
<1>1. Init => RequestsInv
  BY InitMaking, InitCalls DEF RequestsInv
<1> QED  BY <1>1, NextRequests, PTL DEF Spec

(* The variables keep their types, and a client that was made has a server *)
(* with its slash and an HTTP client (openapi_gen.go:127-150).             *)
THEOREM TypeCorrect == Spec => []TypeOK
<1>1. ASSUME RequestsInv PROVE TypeOK
  <2> USE <1>1 DEF RequestsInv
  <2>1. given = Unmade \/ given \in GivenType
    BY DEF MakingInv
  <2>2. /\ making.in \in {"none", "New", "NewClient"}
        /\ making.applied \in 0..Len(making.options)
    BY LenProperties DEF MakingInv, MakingType
  <2>3. ASSUME client # NULL
        PROVE  /\ EndsInSlash(client.Server) \/ client.Server.hasQuery
               /\ client.Client \in Doers \cup {FreshClient}
               /\ client.RequestEditors \in Seq(Fns)
    BY <2>3, ClientTyped, SlashIsThere
  <2>4. ASSUME NEW c \in Calls
        PROVE  /\ call[c].at \in {"idle", "editing", "failed", "sent"}
               /\ call[c].todo \in Seq(Fns) /\ call[c].edits \in Seq(Fns)
    BY DEF CallsInv, CallType
  <2> QED  BY <2>1, <2>2, <2>3, <2>4 DEF TypeOK, GivenType
<1> QED  BY <1>1, RequestsInductive, PTL

(* What is known of a request that is out. *)
LEMMA SentIsKnown ==
    ASSUME RequestsInv, NEW c \in Calls, Sent(c)
    PROVE  /\ UnderWay(c) /\ call[c].todo = <<>> /\ call[c].doer = client.Client
           /\ call[c] \in CallType
           /\ client = ClientOf(given.options, given.base)
           /\ Sound(given.options, given.base)
BY DEF RequestsInv, CallsInv, CallInv, UnderWay, MakingInv, Sent

(* A request goes below the path of the base URL in force, with or without *)
(* its slash (client.go:67, openapi_gen.go:111-114, 136-145, 219-236).     *)
THEOREM GoesBelowTheBase == Spec => []RequestsGoBelowTheBase
<1>1. ASSUME RequestsInv, NEW c \in Calls, Sent(c)
      PROVE  /\ Base.parses
             /\ ~Base.hasQuery =>
                  LET dir == IF EndsInSlash(Base) THEN Front(Base.path) ELSE Base.path
                  IN  call[c].url.path = dir \o OperationPath(call[c].operation)
  <2>1. /\ Base \in BaseURLs /\ client.Server = WithSlash(Base)
        /\ client.Server.parses
        /\ call[c].url = Resolve(client.Server, OperationPath(call[c].operation))
    <3>1. UnderWay(c) /\ Sound(given.options, given.base)
      BY <1>1, SentIsKnown
    <3>2. client = ClientOf(given.options, given.base)
      BY <1>1, SentIsKnown
    <3>3. client.Server = WithSlash(Base)
      BY <3>2 DEF ClientOf, Base
    <3> QED  BY <3>1, <3>3 DEF UnderWay, Sound, Base
  <2>2. Base.parses
    BY <2>1, SlashedURL
  <2> QED  BY <2>1, <2>2, ResolvedBelow
<1>2. RequestsInv => RequestsGoBelowTheBase
  BY <1>1 DEF RequestsGoBelowTheBase
<1> QED  BY <1>2, RequestsInductive, PTL

(* A request that goes out has been through every editor of the options,   *)
(* in order, and its call's own after them, however many calls share the   *)
(* client (client.go:47-50, openapi_gen.go:352-364).                       *)
THEOREM EditedInOrder == Spec => []SentRequestsAreEdited
<1>1. ASSUME RequestsInv, NEW c \in Calls, Sent(c)
      PROVE  call[c].edits = Values(given.options, "editor") \o call[c].own
  <2>1. /\ call[c].edits \in Seq(Fns) /\ call[c].todo = <<>>
        /\ call[c].edits \o call[c].todo = client.RequestEditors \o call[c].own
        /\ client.RequestEditors = Values(given.options, "editor")
    <3>1. UnderWay(c) /\ call[c] \in CallType /\ call[c].todo = <<>>
      BY <1>1, SentIsKnown
    <3>2. client = ClientOf(given.options, given.base)
      BY <1>1, SentIsKnown
    <3>3. client.RequestEditors = Values(given.options, "editor")
      BY <3>2 DEF ClientOf
    <3> QED  BY <3>1, <3>3 DEF UnderWay, CallType
  <2> QED  BY <2>1, ConcatEmptySeq
<1>2. RequestsInv => SentRequestsAreEdited
  BY <1>1 DEF SentRequestsAreEdited
<1> QED  BY <1>2, RequestsInductive, PTL

(* A request goes to the HTTP client given last, when that is one, through *)
(* both sets of options (client.go:43-45, 60-62, openapi_gen.go:146-149).  *)
THEOREM GoesToTheLastDoer == Spec => []SentToTheLastDoer
<1>1. ASSUME RequestsInv, NEW c \in Calls, Sent(c)
      PROVE  LET doer == LastOf(given.options, "doer", NULL)
             IN  doer # NULL => call[c].doer = doer
  BY <1>1, SentIsKnown DEF ClientOf
<1>2. RequestsInv => SentToTheLastDoer
  BY <1>1 DEF SentToTheLastDoer
<1> QED  BY <1>2, RequestsInductive, PTL
=============================================================================
