--------------------------- MODULE ServingProofs ---------------------------
(***************************************************************************)
(* Theorems of Config and Policy: the limits, the retention and the chunks *)
(* of a process that serves, and the types its policy accepts, for every   *)
(* number, unit and list of tokens.                                        *)
(***************************************************************************)
EXTENDS Serving, TLAPS

----------------------------------------------------------------------------
(* Division.                                                               *)

LEMMA DivFacts ==
  ASSUME NEW k \in Int, NEW u \in Nat \ {0}
  PROVE  /\ k \div u \in Int /\ u * (k \div u) \in Int
         /\ u * (k \div u) <= k /\ k < u * (k \div u) + u
OBVIOUS

\* A number that u divides is its quotient times u.
LEMMA DivExact ==
  ASSUME NEW k \in Int, NEW u \in Nat \ {0}, k % u = 0
  PROVE  (k \div u) * u = k
OBVIOUS

\* The guard of ParseBytes compares the product, without forming it.
LEMMA GuardFacts ==
  ASSUME NEW n \in Int, NEW u \in Nat \ {0}, NEW k \in Int
  PROVE  n > k \div u <=> n * u > k
OBVIOUS

\* A product within int64 is not wrapped.
LEMMA WrapFacts ==
  ASSUME NEW n \in Int
  PROVE  /\ Wrapped(n) \in Int
         /\ 0 <= n /\ n <= MaxInt => Wrapped(n) = n
<1>1. MaxInt \in Nat
  BY ConfigAssumption
<1>2. Wrapped(n) \in Int
  BY <1>1 DEF Wrapped
<1>3. ASSUME 0 <= n, n <= MaxInt
      PROVE  Wrapped(n) = n
  BY <1>1, <1>3 DEF Wrapped
<1> QED
  BY <1>2, <1>3

----------------------------------------------------------------------------
(* Limits.                                                                 *)

LEMMA BaseFacts ==
  /\ MiB \in Nat /\ MiB >= 4 /\ Binary \in Nat /\ Binary >= 2
  /\ GiB \in Nat /\ GiB = Binary * MiB /\ Ceiling = 10 * GiB /\ Slack = MiB
  /\ MaxInt \in Nat /\ Ceiling + Slack <= MaxInt /\ Ceiling \in Nat /\ Ceiling > 0
  /\ ByteUnits \subseteq Nat \ {0}
<1>1. Binary \in Nat /\ Binary >= 2 /\ Decimal \in Nat \ {0} /\ MaxInt \in Nat
      /\ Ceiling + Slack <= MaxInt
  BY ConfigAssumption
<1>2. MiB \in Nat /\ MiB >= 4
  BY <1>1 DEF MiB
<1>3. GiB \in Nat /\ GiB > 0
  BY <1>1, <1>2 DEF GiB
<1>4. Decimal * Decimal \in Nat \ {0}
  BY <1>1
<1>5. Decimal * Decimal * Decimal \in Nat \ {0}
  BY <1>1, <1>4
<1>6. ByteUnits \subseteq Nat \ {0}
  BY <1>2, <1>3, <1>4, <1>5 DEF ByteUnits
<1> QED
  BY <1>1, <1>2, <1>3, <1>6 DEF Ceiling, Slack, GiB

\* Whatever Limits accepts is positive, at most the ceiling, and an int64.
LEMMA LimitFacts ==
  ASSUME NEW text, text = Unset \/ text \in [number : Int, unit : ByteUnits],
         NEW bytes \in Limits(text)
  PROVE  bytes \in Int /\ 0 < bytes /\ bytes <= Ceiling
<1>1. CASE text = Unset
  BY <1>1, BaseFacts DEF Limits
<1>2. CASE text # Unset
  <2>1. text.number \in Int /\ text.unit \in Nat
    BY <1>2, BaseFacts
  <2>2. text.number * text.unit \in Int
    BY <2>1
  <2>3. bytes \in ParseBytes(text) /\ 0 < bytes /\ bytes <= Ceiling
    BY <1>2 DEF Limits
  <2>4. bytes = Wrapped(text.number * text.unit)
    BY <2>3 DEF ParseBytes
  <2> QED
    BY <2>2, <2>3, <2>4, WrapFacts
<1> QED
  BY <1>1, <1>2

LEMMA LimitsHold == LimitsExact
<1> SUFFICES ASSUME NEW text \in Texts(ByteUnits), text.number >= 0
             PROVE  Limits(text) = {text.number * text.unit} \cap (1 .. Ceiling)
  BY DEF LimitsExact
<1> DEFINE n == text.number
           u == text.unit
           top == MaxInt - Slack
<1>1. n \in Nat /\ u \in Nat \ {0} /\ text # Unset
  <2>1. text \in [number : Int, unit : Nat]
    BY ConfigAssumption, BaseFacts DEF Texts
  <2>2. u \in ByteUnits
    BY DEF Texts
  <2> QED
    BY <2>1, <2>2, BaseFacts, ConfigAssumption
<1>2. n * u \in Nat /\ n <= n * u
  <2> HIDE DEF n, u
  <2> QED
    BY <1>1
<1>3. /\ top \in Int /\ Ceiling <= top /\ top <= MaxInt /\ MaxInt \in Nat /\ Ceiling \in Nat
      /\ Slack \in Nat
  BY BaseFacts
<1>4. Limits(text) = {bytes \in ParseBytes(text) : 0 < bytes /\ bytes <= Ceiling}
  BY <1>1 DEF Limits
<1>5. CASE n > MaxInt \/ n > top \div u
  <2>1. ParseBytes(text) = {}
    BY <1>1, <1>3, <1>5 DEF ParseBytes
  <2>2. n * u > Ceiling
    <3>1. CASE n > MaxInt
      <4> HIDE DEF n, u
      <4> QED
        BY <1>1, <1>2, <1>3, <3>1
    <3>2. CASE n > top \div u
      <4> HIDE DEF n, u, top
      <4>1. n * u > top
        BY <1>1, <1>3, <3>2, GuardFacts
      <4> QED
        BY <1>2, <1>3, <4>1
    <3> QED
      BY <1>5, <3>1, <3>2
  <2> QED
    BY <1>2, <1>3, <1>4, <2>1, <2>2
<1>6. CASE ~(n > MaxInt) /\ ~(n > top \div u)
  <2>1. n * u <= top
    <3> HIDE DEF n, u, top
    <3> QED
      BY <1>1, <1>2, <1>3, <1>6, GuardFacts
  <2>2. Wrapped(n * u) = n * u
    <3> HIDE DEF n, u, top
    <3> QED
      BY <1>2, <1>3, <2>1, WrapFacts
  <2>3. ParseBytes(text) = {n * u}
    BY <1>1, <1>3, <1>6, <2>2 DEF ParseBytes
  <2> HIDE DEF n, u
  <2> QED
    BY <1>2, <1>3, <1>4, <2>3 DEF n, u
<1> QED
  BY <1>5, <1>6

\* The configuration of an environment that sets both limits by text.
LEMMA LoadedHold == LoadedLimitsServe
<1> SUFFICES ASSUME NEW text \in {Unset} \cup Texts(ByteUnits),
                    NEW env \in Environments(text, Unset), NEW cfg \in Load(env)
             PROVE  /\ cfg.maxUpload > 0 /\ cfg.maxStorage > 0 /\ cfg.retention > 0
                    /\ cfg.maxUpload + Slack <= MaxInt
  BY DEF LoadedLimitsServe
<1>1. text = Unset \/ text \in [number : Int, unit : ByteUnits]
  BY ConfigAssumption DEF Texts
<1>2. /\ env.maxUpload = text /\ env.maxStorage \in {text, Unset} /\ env.retention = Unset
  BY DEF Environments
<1>3. /\ cfg.maxUpload \in Limits(env.maxUpload)
      /\ cfg.maxStorage \in Limits(env.maxStorage)
      /\ cfg.retention \in Retentions(env.retention)
  BY DEF Load
<1>4. cfg.retention = 1440
  BY <1>2, <1>3 DEF Retentions
<1>5. cfg.maxUpload \in Int /\ 0 < cfg.maxUpload /\ cfg.maxUpload <= Ceiling
  BY <1>1, <1>2, <1>3, LimitFacts
<1>6. cfg.maxStorage \in Int /\ 0 < cfg.maxStorage
  <2>1. env.maxStorage = Unset \/ env.maxStorage \in [number : Int, unit : ByteUnits]
    BY <1>1, <1>2
  <2> QED
    BY <2>1, <1>3, LimitFacts
<1> QED
  BY <1>4, <1>5, <1>6, BaseFacts

----------------------------------------------------------------------------
(* Retention.                                                              *)

\* The unit formatRetention takes divides the minutes.
LEMMA LargestDivides ==
  ASSUME NEW minutes \in Nat \ {0}
  PROVE  LET unit == Largest({u \in RetentionUnits : minutes % u = 0})
         IN  unit \in RetentionUnits /\ minutes % unit = 0
<1> DEFINE units == {u \in RetentionUnits : minutes % u = 0}
<1>1. 1 \in units /\ units \subseteq {1, 60, 1440, 10080}
  BY DEF RetentionUnits
<1>2. \E unit \in units : \A other \in units : other <= unit
  <2> HIDE DEF units
  <2>1. CASE 10080 \in units
    BY <1>1, <2>1
  <2>2. CASE 10080 \notin units /\ 1440 \in units
    BY <1>1, <2>2
  <2>3. CASE 10080 \notin units /\ 1440 \notin units /\ 60 \in units
    BY <1>1, <2>3
  <2>4. CASE 10080 \notin units /\ 1440 \notin units /\ 60 \notin units
    BY <1>1, <2>4
  <2> QED
    BY <2>1, <2>2, <2>3, <2>4
<1>3. Largest(units) \in units
  <2> HIDE DEF units
  <2> QED
    BY <1>2 DEF Largest
<1> QED
  BY <1>3

LEMMA RetentionHolds == RetentionShown
<1> SUFFICES ASSUME NEW text \in {Unset} \cup Texts(RetentionUnits),
                    NEW env \in Environments(Unset, text), NEW cfg \in Load(env)
             PROVE  ParseRetention(FormatRetention(cfg.retention)) = {cfg.retention}
  BY DEF RetentionShown, ClientConfig
<1>1. cfg.retention \in Retentions(text)
  BY DEF Load, Environments
<1>2. cfg.retention \in Nat \ {0} /\ cfg.retention <= MaxMinutes
  <2>1. CASE text = Unset
    BY <1>1, <2>1, ConfigAssumption DEF Retentions
  <2>2. CASE text # Unset
    <3>1. text.number \in Int /\ text.unit \in Nat \ {0}
      <4>1. text \in [number : Numbers, unit : RetentionUnits]
        BY <2>2 DEF Texts
      <4>2. RetentionUnits \subseteq Nat \ {0}
        BY DEF RetentionUnits
      <4>3. Numbers \subseteq Int
        BY ConfigAssumption
      <4> QED
        BY <4>1, <4>2, <4>3
    <3>2. /\ cfg.retention = text.number * text.unit /\ 0 < text.number
          /\ cfg.retention <= MaxMinutes
      BY <1>1, <2>2 DEF Retentions, ParseRetention
    <3> QED
      BY <3>1, <3>2
  <2> QED
    BY <2>1, <2>2
<1> PICK minutes \in Nat \ {0} : minutes = cfg.retention
  BY <1>2
<1> DEFINE unit == Largest({u \in RetentionUnits : minutes % u = 0})
<1>3. unit \in RetentionUnits /\ minutes % unit = 0
  BY LargestDivides
<1>4. unit \in Nat \ {0}
  BY <1>3 DEF RetentionUnits
<1>5. FormatRetention(minutes) = [number |-> minutes \div unit, unit |-> unit]
  BY DEF FormatRetention
<1> HIDE DEF unit
<1>6. (minutes \div unit) * unit = minutes
  BY <1>3, <1>4, DivExact
<1>7. 0 < minutes \div unit
  <2>1. minutes \div unit \in Int
    BY <1>4
  <2> PICK k \in Int : k = minutes \div unit
    BY <2>1
  <2>2. k * unit = minutes
    BY <1>6
  <2>3. ~(k <= 0)
    BY <2>2, <1>4
  <2> QED
    BY <2>3
<1> QED
  BY <1>2, <1>5, <1>6, <1>7 DEF ParseRetention

----------------------------------------------------------------------------
(* Chunks.                                                                 *)

LEMMA ChunksHold == ChunksBounded
<1> SUFFICES ASSUME NEW k \in Numbers \cap (1 .. Ceiling)
             PROVE  /\ ChunkSize(k) \in MiB .. MaxChunkSize
                    /\ 4 * k <= 5 * Binary * ChunkSize(k)
  BY DEF ChunksBounded
<1> DEFINE share == k \div Binary
<1>1. /\ k \in Int /\ 1 <= k /\ k <= Ceiling
      /\ Binary \in Nat /\ Binary >= 2 /\ MiB \in Nat /\ MiB >= 4
      /\ Ceiling = 10 * (Binary * MiB) /\ MaxChunkSize = 32 * MiB
  BY BaseFacts DEF MaxChunkSize
<1>2. share \in Int /\ Binary * share <= k /\ k < Binary * share + Binary
  BY <1>1, DivFacts
<1>3. share >= 0
  <2> HIDE DEF share
  <2>1. ~(share <= -1)
    BY <1>1, <1>2
  <2> QED
    BY <1>2, <2>1
<1>4. ChunkSize(k) = IF share > 0 /\ share <= 8 * MiB /\ MiB <= share THEN share
                     ELSE IF share > 0 /\ share < MiB THEN MiB ELSE 8 * MiB
  <2> HIDE DEF share
  <2>1. ChunkSize(k) = LET size == IF share > 0 THEN Lesser(share, 8 * MiB) ELSE 8 * MiB
                       IN  Lesser(Greater(size, MiB), MaxChunkSize)
    BY DEF ChunkSize, share
  <2> QED
    BY <1>1, <1>2, <1>3, <2>1 DEF Lesser, Greater
<1> PICK s \in Nat : s = share
  BY <1>2, <1>3
<1> HIDE DEF share
<1> DEFINE unit == Binary * MiB
<1>5. unit \in Nat /\ unit >= 0 /\ Binary <= unit
  BY <1>1
<1>6. CASE ChunkSize(k) = 8 * MiB
  <2>1. 5 * Binary * ChunkSize(k) = 40 * unit
    BY <1>1, <1>6
  <2> QED
    BY <1>1, <1>5, <1>6, <2>1
<1>7. CASE ChunkSize(k) = s /\ MiB <= s /\ s <= 8 * MiB
  <2>1. Binary * s \in Nat /\ 5 * Binary * ChunkSize(k) = 5 * (Binary * s)
    BY <1>1, <1>7
  <2>2. Binary * MiB <= Binary * s
    BY <1>1, <1>7
  <2>3. 4 * Binary <= Binary * MiB
    BY <1>1
  <2> QED
    BY <1>1, <1>2, <1>7, <2>1, <2>2, <2>3
<1>8. CASE ChunkSize(k) = MiB /\ s < MiB
  <2>1. 5 * Binary * ChunkSize(k) = 5 * unit
    BY <1>1, <1>8
  <2>2. Binary * s + Binary <= unit
    BY <1>1, <1>8
  <2> QED
    BY <1>1, <1>2, <1>5, <1>8, <2>1, <2>2
<1> QED
  BY <1>1, <1>2, <1>3, <1>4, <1>6, <1>7, <1>8

----------------------------------------------------------------------------
(* Types.                                                                  *)

\* The policy that lists these types and these kinds.
Listing(exact, prefixes) == [all |-> FALSE, exact |-> exact, prefixes |-> prefixes]

LEMMA ListingFacts ==
  ASSUME NEW exact, NEW prefixes
  PROVE  /\ ~Listing(exact, prefixes).all
         /\ Listing(exact, prefixes).exact = exact
         /\ Listing(exact, prefixes).prefixes = prefixes
BY DEF Listing

\* What the kinds of the list the page is told name.
LEMMA ShownNames ==
  ASSUME NEW policy, ~policy.all
  PROVE  /\ Named(Shown(policy), "exact") = policy.exact
         /\ Named(Shown(policy), "wildcard") = policy.prefixes
         /\ Named(Shown(policy), "preset") = {}
         /\ BadToken \notin Shown(policy) /\ All \notin Shown(policy)
<1> DEFINE shown    == Shown(policy)
           exact    == policy.exact
           prefixes == policy.prefixes
<1>0. shown = {Wildcard(major) : major \in prefixes} \cup {Exact(type) : type \in exact}
  BY DEF Shown
<1> HIDE DEF shown, exact, prefixes
<1>1. \A token \in shown : \/ \E major \in prefixes : token = Wildcard(major)
                           \/ \E type \in exact : token = Exact(type)
  BY <1>0
<1>2. /\ \A major : Wildcard(major).kind = "wildcard" /\ Wildcard(major).of = major
      /\ \A type : Exact(type).kind = "exact" /\ Exact(type).of = type
      /\ BadToken.kind = "bad" /\ All.kind = "all"
  BY DEF Wildcard, Exact, BadToken, All
<1>3. "exact" # "wildcard" /\ "exact" # "preset" /\ "wildcard" # "preset"
      /\ "bad" \notin {"exact", "wildcard"} /\ "all" \notin {"exact", "wildcard"}
  OBVIOUS
<1>4. Named(shown, "exact") = exact
  <2>1. ASSUME NEW type \in exact
        PROVE  Exact(type) \in shown
    BY <1>0
  <2> QED
    BY <1>1, <1>2, <1>3, <2>1 DEF Named
<1>5. Named(shown, "wildcard") = prefixes
  <2>1. ASSUME NEW major \in prefixes
        PROVE  Wildcard(major) \in shown
    BY <1>0
  <2> QED
    BY <1>1, <1>2, <1>3, <2>1 DEF Named
<1>6. Named(shown, "preset") = {}
  BY <1>1, <1>2, <1>3 DEF Named
<1>7. BadToken \notin shown /\ All \notin shown
  BY <1>1, <1>2, <1>3
<1> QED
  BY <1>4, <1>5, <1>6, <1>7 DEF shown, exact, prefixes

\* A policy accepts everything, or it lists types or kinds.
LEMMA ParseFacts ==
  ASSUME NEW tokens, NEW policy \in Parse(tokens)
  PROVE  \/ tokens \in {{}, {All}} /\ policy = AcceptAll
         \/ /\ tokens \notin {{}, {All}} /\ {BadToken, All} \cap tokens = {}
            /\ policy = Listing(ListedTypes(tokens), Named(tokens, "wildcard"))
            /\ policy.exact # {} \/ policy.prefixes # {}
BY DEF Parse, Listing

LEMMA ShownParses ==
  ASSUME NEW tokens, NEW policy \in Parse(tokens)
  PROVE  Parse(Shown(policy)) = {policy}
<1>1. CASE policy = AcceptAll
  <2>1. Shown(policy) = {All}
    BY <1>1 DEF Shown, AcceptAll
  <2> QED
    BY <1>1, <2>1 DEF Parse, Listing
<1>2. CASE policy # AcceptAll
  <2>1. /\ policy = Listing(policy.exact, policy.prefixes)
        /\ policy.exact # {} \/ policy.prefixes # {}
    <3>1. policy = Listing(ListedTypes(tokens), Named(tokens, "wildcard"))
      BY <1>2, ParseFacts
    <3>2. policy.exact = ListedTypes(tokens) /\ policy.prefixes = Named(tokens, "wildcard")
      BY <3>1, ListingFacts
    <3> QED
      BY <1>2, <3>1, <3>2, ParseFacts
  <2>2. ~policy.all
    BY <2>1, ListingFacts
  <2> PICK shown : shown = Shown(policy)
    OBVIOUS
  <2>3. /\ Named(shown, "exact") = policy.exact /\ Named(shown, "wildcard") = policy.prefixes
        /\ Named(shown, "preset") = {} /\ BadToken \notin shown /\ All \notin shown
    BY <2>2, ShownNames
  <2>4. ListedTypes(shown) = policy.exact
    BY <2>3 DEF ListedTypes, ExactTypes, PresetTypes
  <2>5. shown # {}
    BY <2>1, <2>3 DEF Named
  <2>6. Parse(shown) = {Listing(policy.exact, policy.prefixes)}
    BY <2>1, <2>3, <2>4, <2>5 DEF Parse, Listing
  <2> QED
    BY <2>1, <2>6
<1> QED
  BY <1>1, <1>2

LEMMA ShownHold == ShownFaithfully
BY ShownParses DEF ShownFaithfully

----------------------------------------------------------------------------
(* Single tokens.                                                          *)

LEMMA TokenFacts ==
  /\ \A group : Preset(group).kind = "preset" /\ Preset(group).of = group
  /\ \A major : Wildcard(major).kind = "wildcard" /\ Wildcard(major).of = major
  /\ \A type : Exact(type).kind = "exact" /\ Exact(type).of = type
  /\ EmptyToken.kind = "empty" /\ BadToken.kind = "bad" /\ All.kind = "all"
BY DEF Preset, Wildcard, Exact, EmptyToken, BadToken, All

\* No preset is empty.
LEMMA GroupsFilled ==
  \A group \in Groups : PresetGroups[group] # {}
<1>1. Groups = {"images", "videos", "audio", "docs"}
  BY DEF Groups, PresetGroups
<1>2. /\ PresetGroups["images"] = {"image"} \X {"jpeg", "png", "gif", "webp"}
      /\ PresetGroups["videos"] =
           {"video"} \X {"mp4", "webm", "quicktime", "x-matroska", "x-msvideo", "mpeg"}
      /\ PresetGroups["audio"] =
           {"audio"} \X {"mpeg", "ogg", "wav", "x-wav", "webm", "aac", "flac"}
      /\ PresetGroups["docs"] =
           {Type("application", "pdf")} \cup ({"text"} \X {"plain", "markdown", "html"})
  BY DEF PresetGroups
<1>3. /\ <<"image", "png">> \in {"image"} \X {"jpeg", "png", "gif", "webp"}
      /\ <<"video", "mp4">> \in
           {"video"} \X {"mp4", "webm", "quicktime", "x-matroska", "x-msvideo", "mpeg"}
      /\ <<"audio", "mpeg">> \in
           {"audio"} \X {"mpeg", "ogg", "wav", "x-wav", "webm", "aac", "flac"}
  OBVIOUS
<1>4. Type("application", "pdf") \in PresetGroups["docs"]
  BY <1>2
<1> QED
  BY <1>1, <1>2, <1>3, <1>4

\* The policy of a list with one token.
LEMMA ParsePreset ==
  ASSUME NEW group \in Groups
  PROVE  Parse({Preset(group)}) =
           {Listing(PresetGroups[group], {})}
<1> DEFINE tokens == {Preset(group)}
<1>1. "preset" \notin {"wildcard", "exact", "empty", "bad", "all"}
  OBVIOUS
<1>2. /\ Named(tokens, "preset") = {group} /\ Named(tokens, "exact") = {}
      /\ Named(tokens, "wildcard") = {}
  BY <1>1, TokenFacts DEF Named
<1>3. tokens \notin {{}, {All}} /\ {BadToken, All} \cap tokens = {}
  BY <1>1, TokenFacts
<1> HIDE DEF tokens
<1>4. ListedTypes(tokens) = PresetGroups[group]
  BY <1>2 DEF ListedTypes, ExactTypes, PresetTypes
<1>5. Parse(tokens) = {Listing(PresetGroups[group], {})}
  BY <1>2, <1>3, <1>4, GroupsFilled DEF Parse, Listing
<1> QED
  BY <1>5 DEF tokens

LEMMA ParseWildcard ==
  ASSUME NEW major
  PROVE  Parse({Wildcard(major)}) = {Listing({}, {major})}
<1> DEFINE tokens == {Wildcard(major)}
<1>1. "wildcard" \notin {"preset", "exact", "empty", "bad", "all"}
  OBVIOUS
<1>2. /\ Named(tokens, "wildcard") = {major} /\ Named(tokens, "exact") = {}
      /\ Named(tokens, "preset") = {}
  BY <1>1, TokenFacts DEF Named
<1>3. tokens \notin {{}, {All}} /\ {BadToken, All} \cap tokens = {}
  BY <1>1, TokenFacts
<1> HIDE DEF tokens
<1>4. ListedTypes(tokens) = {}
  BY <1>2 DEF ListedTypes, ExactTypes, PresetTypes
<1>5. Parse(tokens) = {Listing({}, {major})}
  BY <1>2, <1>3, <1>4 DEF Parse, Listing
<1> QED
  BY <1>5 DEF tokens

LEMMA ParseExact ==
  ASSUME NEW type
  PROVE  Parse({Exact(type)}) = {Listing({type}, {})}
<1> DEFINE tokens == {Exact(type)}
<1>1. "exact" \notin {"preset", "wildcard", "empty", "bad", "all"}
  OBVIOUS
<1>2. /\ Named(tokens, "exact") = {type} /\ Named(tokens, "wildcard") = {}
      /\ Named(tokens, "preset") = {}
  BY <1>1, TokenFacts DEF Named
<1>3. tokens \notin {{}, {All}} /\ {BadToken, All} \cap tokens = {}
  BY <1>1, TokenFacts
<1> HIDE DEF tokens
<1>4. ListedTypes(tokens) = {type}
  BY <1>2 DEF ListedTypes, ExactTypes, PresetTypes
<1>5. Parse(tokens) = {Listing({type}, {})}
  BY <1>2, <1>3, <1>4 DEF Parse, Listing
<1> QED
  BY <1>5 DEF tokens

LEMMA ParseNothing ==
  Parse({EmptyToken}) = {} /\ Parse({BadToken}) = {} /\ Parse({All}) = {AcceptAll}
<1>1. "empty" \notin {"preset", "wildcard", "exact", "bad", "all"} /\ "bad" # "all"
  OBVIOUS
<1>2. {EmptyToken} \notin {{}, {All}} /\ {BadToken} \notin {{}, {All}}
  BY <1>1, TokenFacts
<1>3. /\ Named({EmptyToken}, "exact") = {} /\ Named({EmptyToken}, "preset") = {}
      /\ Named({EmptyToken}, "wildcard") = {}
  BY <1>1, TokenFacts DEF Named
<1>4. ListedTypes({EmptyToken}) = {}
  BY <1>3 DEF ListedTypes, ExactTypes, PresetTypes
<1>5. Parse({EmptyToken}) = {}
  BY <1>2, <1>3, <1>4 DEF Parse, Listing
<1>6. Parse({BadToken}) = {}
  BY <1>2 DEF Parse, Listing
<1>7. Parse({All}) = {AcceptAll}
  BY DEF Parse, Listing
<1> QED
  BY <1>5, <1>6, <1>7

----------------------------------------------------------------------------
(* Lists of tokens.                                                        *)

\* What policies allow.
LEMMA AllowsFacts ==
  ASSUME NEW type
  PROVE  /\ Allows(AcceptAll, type)
         /\ \A exact, prefixes :
              Allows(Listing(exact, prefixes), type)
                <=> type \in exact \/ type[1] \in prefixes
<1>1. Allows(AcceptAll, type)
  BY DEF Allows, AcceptAll
<1>2. ASSUME NEW exact, NEW prefixes
      PROVE  Allows(Listing(exact, prefixes), type)
               <=> type \in exact \/ type[1] \in prefixes
  BY ListingFacts DEF Allows
<1> QED
  BY <1>1, <1>2

\* What a token that stands alone allows.
LEMMA TokenAllows ==
  ASSUME NEW token \in Tokens, NEW type
  PROVE  (\E one \in Parse({token}) : Allows(one, type)) <=>
           \/ token = All
           \/ token.kind = "exact" /\ token.of = type
           \/ token.kind = "preset" /\ type \in PresetGroups[token.of]
           \/ token.kind = "wildcard" /\ token.of = type[1]
<1>1. \/ \E group \in Groups : token = Preset(group)
      \/ \E major : token = Wildcard(major)
      \/ \E exact : token = Exact(exact)
      \/ token \in {EmptyToken, BadToken, All}
  BY DEF Tokens
<1>2. CASE \E group \in Groups : token = Preset(group)
  <2> PICK group \in Groups : token = Preset(group)
    BY <1>2
  <2>1. token.kind = "preset" /\ token.of = group /\ token # All
    BY TokenFacts
  <2>2. Parse({token}) = {Listing(PresetGroups[group], {})}
    BY ParsePreset
  <2>3. (\E one \in Parse({token}) : Allows(one, type)) <=> type \in PresetGroups[group]
    <3>1. Allows(Listing(PresetGroups[group], {}), type) <=> type \in PresetGroups[group] \/ type[1] \in {}
      BY AllowsFacts
    <3> QED
      BY <2>2, <3>1
  <2> QED
    BY <2>1, <2>3, TokenFacts
<1>3. CASE \E major : token = Wildcard(major)
  <2> PICK major : token = Wildcard(major)
    BY <1>3
  <2>1. token.kind = "wildcard" /\ token.of = major /\ token # All
    BY TokenFacts
  <2>2. Parse({token}) = {Listing({}, {major})}
    BY ParseWildcard
  <2>3. (\E one \in Parse({token}) : Allows(one, type)) <=> type[1] = major
    <3>1. Allows(Listing({}, {major}), type) <=> type \in {} \/ type[1] \in {major}
      BY AllowsFacts
    <3> QED
      BY <2>2, <3>1
  <2> QED
    BY <2>1, <2>3, TokenFacts
<1>4. CASE \E exact : token = Exact(exact)
  <2> PICK name : token = Exact(name)
    BY <1>4
  <2>1. token.kind = "exact" /\ token.of = name /\ token # All
    BY TokenFacts
  <2>2. Parse({token}) = {Listing({name}, {})}
    BY ParseExact
  <2>3. (\E one \in Parse({token}) : Allows(one, type)) <=> type = name
    <3> PICK policy : policy = Listing({name}, {})
      OBVIOUS
    <3>1. ~policy.all /\ policy.exact = {name} /\ policy.prefixes = {}
      BY ListingFacts
    <3>2. Allows(policy, type) <=> type = name
      BY <3>1 DEF Allows
    <3>3. Parse({token}) = {policy}
      BY <2>2
    <3> QED
      BY <3>2, <3>3
  <2> QED
    BY <2>1, <2>3, TokenFacts
<1>5. CASE token \in {EmptyToken, BadToken}
  <2>1. Parse({token}) = {}
    BY <1>5, ParseNothing
  <2>2. token # All /\ token.kind \notin {"exact", "preset", "wildcard"}
    BY <1>5, TokenFacts
  <2> QED
    BY <2>1, <2>2
<1>6. CASE token = All
  BY <1>6, ParseNothing, AllowsFacts
<1> QED
  BY <1>1, <1>2, <1>3, <1>4, <1>5, <1>6

\* What a list of tokens without "all" allows.
LEMMA ListAllows ==
  ASSUME NEW tokens, NEW type
  PROVE  (type \in ListedTypes(tokens) \/ type[1] \in Named(tokens, "wildcard")) <=>
           \E token \in tokens :
             \/ token.kind = "exact" /\ token.of = type
             \/ token.kind = "preset" /\ type \in PresetGroups[token.of]
             \/ token.kind = "wildcard" /\ token.of = type[1]
<1>1. \A kind, name : (name \in Named(tokens, kind)) <=>
                        (\E token \in tokens : token.kind = kind /\ token.of = name)
  BY DEF Named
<1>2. (type \in PresetTypes(tokens)) <=>
        (\E token \in tokens : token.kind = "preset" /\ type \in PresetGroups[token.of])
  BY <1>1 DEF PresetTypes
<1> QED
  BY <1>1, <1>2 DEF ListedTypes, ExactTypes

LEMMA TokensHold == TokensAddUp
<1> SUFFICES ASSUME NEW tokens \in SUBSET Tokens, NEW policy \in Parse(tokens),
                    NEW format \in DOMAIN Detected
             PROVE  Stored(policy, format) <=>
                      (tokens = {} \/ \E token \in tokens :
                                         \E one \in Parse({token}) : Stored(one, format))
  BY DEF TokensAddUp
<1> PICK type : type = NormalizeContentType(Detected[format])
  OBVIOUS
<1>1. \A one : Stored(one, format) <=> Allows(one, type)
  BY DEF Stored
<1>2. CASE tokens \in {{}, {All}} /\ policy = AcceptAll
  <2>1. Allows(policy, type)
    BY <1>2, AllowsFacts
  <2>2. tokens = {All} => \E one \in Parse({All}) : Allows(one, type)
    BY <1>2, <2>1
  <2> QED
    BY <1>1, <1>2, <2>1, <2>2
<1>3. CASE /\ tokens \notin {{}, {All}} /\ {BadToken, All} \cap tokens = {}
           /\ policy = Listing(ListedTypes(tokens), Named(tokens, "wildcard"))
  <2>1. Allows(policy, type) <=>
          (type \in ListedTypes(tokens) \/ type[1] \in Named(tokens, "wildcard"))
    BY <1>3, AllowsFacts
  <2>2. \A token \in tokens :
          (\E one \in Parse({token}) : Allows(one, type)) <=>
             \/ token.kind = "exact" /\ token.of = type
             \/ token.kind = "preset" /\ type \in PresetGroups[token.of]
             \/ token.kind = "wildcard" /\ token.of = type[1]
    BY <1>3, TokenAllows
  <2>3. Allows(policy, type) <=>
          \E token \in tokens : \E one \in Parse({token}) : Allows(one, type)
    BY <2>1, <2>2, ListAllows
  <2> QED
    BY <1>1, <1>3, <2>3
<1> QED
  BY <1>2, <1>3, ParseFacts

----------------------------------------------------------------------------
(* Formats.                                                                *)

\* The type of a documented format, as it is detected, is in its preset unless the
\* format is one of the misdetected.
LEMMA Documentation ==
  \A group \in Groups : \A format \in Documented[group] :
    Detected[format].type \in PresetGroups[group] <=> format \notin Misdetected
<1>1. Groups = {"images", "videos", "audio", "docs"}
  BY DEF Groups, PresetGroups
<1>2. \A format \in Documented["images"] :
        Detected[format].type \in PresetGroups["images"] <=> format \notin Misdetected
  BY DEF Documented, Misdetected, Detected, PresetGroups, OctetStream, Bare, Type
<1>3. \A format \in Documented["videos"] :
        Detected[format].type \in PresetGroups["videos"] <=> format \notin Misdetected
  BY DEF Documented, Misdetected, Detected, PresetGroups, OctetStream, Bare, Type
<1>4. \A format \in Documented["audio"] :
        Detected[format].type \in PresetGroups["audio"] <=> format \notin Misdetected
  BY DEF Documented, Misdetected, Detected, PresetGroups, OctetStream, Bare, Type
<1>5. \A format \in Documented["docs"] :
        Detected[format].type \in PresetGroups["docs"] <=> format \notin Misdetected
  BY DEF Documented, Misdetected, Detected, PresetGroups, OctetStream, Bare, WithCharset, Type
<1> QED
  BY <1>1, <1>2, <1>3, <1>4, <1>5

LEMMA AcceptHold == TokensAccept
<1>1. ASSUME NEW group \in Groups, NEW format \in Documented[group]
      PROVE  \E policy \in Parse({Preset(group)}) :
               Stored(policy, format) <=> format \notin Misdetected
  <2> PICK type : type = Detected[format].type
    OBVIOUS
  <2>1. type \in PresetGroups[group] <=> format \notin Misdetected
    BY Documentation
  <2>2. \A policy : Stored(policy, format) <=> Allows(policy, type)
    BY DEF Stored, NormalizeContentType
  <2>3. Allows(Listing(PresetGroups[group], {}), type) <=> type \in PresetGroups[group]
    BY AllowsFacts
  <2> QED
    BY <2>1, <2>2, <2>3, ParsePreset
<1>2. ASSUME NEW format \in DOMAIN Detected
      PROVE  \E policy \in Parse({Wildcard(Detected[format].type[1])}) : Stored(policy, format)
  <2> PICK type : type = Detected[format].type
    OBVIOUS
  <2>1. Parse({Wildcard(type[1])}) = {Listing({}, {type[1]})}
    BY ParseWildcard
  <2>2. \A policy : Stored(policy, format) <=> Allows(policy, type)
    BY DEF Stored, NormalizeContentType
  <2>3. Allows(Listing({}, {type[1]}), type)
    BY AllowsFacts
  <2> QED
    BY <2>1, <2>2, <2>3
<1> QED
  BY <1>1, <1>2 DEF TokensAccept

----------------------------------------------------------------------------
(* Theorems: the properties of the constants, and so of the process.      *)

\* ParseBytes and Load: of the numbers written without a minus, in whatever unit, none
\* wraps into the accepted range, for every width of the integers; and a process never
\* serves with a limit that is not positive, or too large for the sums its handlers
\* form, negative numbers and products that wrap included.
THEOREM LimitsAreExact == LimitsExact /\ LoadedLimitsServe /\ (Spec => []ServesLimits)
<1>1. ServesLimits
  BY LimitsHold, LoadedHold DEF ServesLimits
<1> QED
  BY <1>1, LimitsHold, LoadedHold, PTL

\* formatRetention: what the page shows, read back, is the retention that is applied.
THEOREM RetentionIsShown == RetentionShown /\ (Spec => []ServesRetention)
<1>1. ServesRetention
  BY RetentionHolds DEF ServesRetention
<1> QED
  BY <1>1, RetentionHolds, PTL

\* ChunkSize: no chunk is smaller than a MiB or larger than the server takes, and the
\* largest file takes no more than 1280 of them, for every limit.
THEOREM ChunksAreBounded == ChunksBounded /\ (Spec => []ServesChunks)
<1>1. ServesChunks
  BY ChunksHold DEF ServesChunks
<1> QED
  BY <1>1, ChunksHold, PTL

\* Parse, Allows and NormalizeContentType: presets and wildcards accept the formats of
\* README's table, a preset all of its row but the misdetected and none of these.
THEOREM PresetsAccept == TokensAccept /\ (Spec => []ServesPresets)
<1>1. ServesPresets
  BY AcceptHold DEF ServesPresets
<1> QED
  BY <1>1, AcceptHold, PTL

\* String: the page is told a list that allows what the policy allows.
THEOREM PolicyIsShown == ShownFaithfully /\ (Spec => []ServesShown)
<1>1. ServesShown
  BY ShownHold DEF ServesShown
<1> QED
  BY <1>1, ShownHold, PTL

\* Parse: a list allows a format if and only if one of its tokens does.
THEOREM TokensAreIndependent == TokensAddUp /\ (Spec => []ServesTokens)
<1>1. ServesTokens
  BY TokensHold DEF ServesTokens
<1> QED
  BY <1>1, TokensHold, PTL
=============================================================================
