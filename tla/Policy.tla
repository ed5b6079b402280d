------------------------------- MODULE Policy -------------------------------
(***************************************************************************)
(* internal/policy: which content types may be stored.  ALLOWED_TYPES is a *)
(* set of tokens: a preset, a wildcard, an exact type, an empty one, or    *)
(* one that is none of these, such as "all" among others.                  *)
(***************************************************************************)
EXTENDS FiniteSets

Type(major, minor) == <<major, minor>>

\* presetGroups.
PresetGroups ==
  [images |-> {"image"} \X {"jpeg", "png", "gif", "webp"},
   videos |-> {"video"} \X {"mp4", "webm", "quicktime", "x-matroska", "x-msvideo", "mpeg"},
   audio  |-> {"audio"} \X {"mpeg", "ogg", "wav", "x-wav", "webm", "aac", "flac"},
   docs   |-> {Type("application", "pdf")} \cup ({"text"} \X {"plain", "markdown", "html"})]

Preset(group)   == [kind |-> "preset", of |-> group]
Wildcard(major) == [kind |-> "wildcard", of |-> major]
Exact(type)     == [kind |-> "exact", of |-> type]
EmptyToken      == [kind |-> "empty"]
BadToken        == [kind |-> "bad"]
All             == [kind |-> "all"]

Named(tokens, kind) == {token.of : token \in {t \in tokens : t.kind = kind}}

AcceptAll == [all |-> TRUE, exact |-> {}, prefixes |-> {}]

ExactTypes(tokens)  == Named(tokens, "exact")
PresetTypes(tokens) == UNION {PresetGroups[group] : group \in Named(tokens, "preset")}

\* Mutant of ListedTypes: a preset replaces what was listed before it.
ListedTypesOfPresets(tokens) ==
  IF PresetTypes(tokens) # {} THEN PresetTypes(tokens) ELSE ExactTypes(tokens)

\* policy.exact.
ListedTypes(tokens) == ExactTypes(tokens) \cup PresetTypes(tokens)

\* Parse: the policy, none on an error.  "all" means everything only when it is alone.
Parse(tokens) ==
  LET exact    == ListedTypes(tokens)
      prefixes == Named(tokens, "wildcard")
  IN  IF tokens \in {{}, {All}} THEN {AcceptAll}
      ELSE IF {BadToken, All} \cap tokens # {} \/ (exact = {} /\ prefixes = {}) THEN {}
      ELSE {[all |-> FALSE, exact |-> exact, prefixes |-> prefixes]}

\* Mutant of Allows: the wildcards are forgotten.
AllowsExact(policy, type) == policy.all \/ type \in policy.exact

Allows(policy, type) ==
  policy.all \/ type \in policy.exact \/ type[1] \in policy.prefixes

\* Mutant of Shown: only the exact types are listed.
ShownExact(policy) == IF policy.all THEN {All} ELSE {Exact(type) : type \in policy.exact}

\* String, what the page is told.
Shown(policy) ==
  IF policy.all THEN {All}
  ELSE {Wildcard(major) : major \in policy.prefixes} \cup {Exact(type) : type \in policy.exact}

----------------------------------------------------------------------------
(* Detection: what http.DetectContentType makes of the first 512 bytes.  A *)
(* format appears more than once where its files are detected differently: *)
(* an MP3 only by an ID3 tag at its head, an MP4 only by a brand beginning *)
(* with "mp4" in its first box.                                            *)

Bare(type)           == [type |-> type, charset |-> FALSE]
WithCharset(type)    == [type |-> type, charset |-> TRUE]
OctetStream          == Bare(Type("application", "octet-stream"))

Detected ==
  [jpeg |-> Bare(Type("image", "jpeg")), png  |-> Bare(Type("image", "png")),
   gif  |-> Bare(Type("image", "gif")),  webp |-> Bare(Type("image", "webp")),
   mp4  |-> Bare(Type("video", "mp4")),  mp4OtherBrands |-> OctetStream,
   webm |-> Bare(Type("video", "webm")),
   mkv  |-> Bare(Type("video", "webm")), avi  |-> Bare(Type("video", "avi")),
   mov  |-> OctetStream, mpeg |-> OctetStream, aac |-> OctetStream, flac |-> OctetStream,
   mp3  |-> Bare(Type("audio", "mpeg")), mp3Untagged |-> OctetStream,
   wav  |-> Bare(Type("audio", "wave")),
   ogg  |-> Bare(Type("application", "ogg")), webmAudio |-> Bare(Type("video", "webm")),
   pdf  |-> Bare(Type("application", "pdf")),
   text |-> WithCharset(Type("text", "plain")), markdown |-> WithCharset(Type("text", "plain")),
   html |-> WithCharset(Type("text", "html"))]

\* Mutant of NormalizeContentType: a type that keeps its parameters is no type of a
\* policy.
WholeType(detected) ==
  IF detected.charset THEN Type(detected.type[1], "with parameters") ELSE detected.type

\* NormalizeContentType drops the parameters.
NormalizeContentType(detected) == detected.type

\* writePart and finishTusUpload: whether a file of this format is stored.
Stored(policy, format) == Allows(policy, NormalizeContentType(Detected[format]))

----------------------------------------------------------------------------
(* Properties.                                                             *)

\* The formats README names for each preset.
Documented ==
  [images |-> {"jpeg", "png", "gif", "webp"},
   videos |-> {"mp4", "mp4OtherBrands", "webm", "mov", "mkv", "avi", "mpeg"},
   audio  |-> {"mp3", "mp3Untagged", "ogg", "wav", "webmAudio", "aac", "flac"},
   docs   |-> {"pdf", "text", "markdown", "html"}]

\* Of these the ones whose type, as detected, is not in the preset.
Misdetected ==
  {"mp4OtherBrands", "mov", "avi", "mpeg",
   "mp3Untagged", "ogg", "wav", "webmAudio", "aac", "flac"}

Groups == DOMAIN PresetGroups
Types  == {Detected[format].type : format \in DOMAIN Detected}
Tokens == {Preset(group) : group \in Groups} \cup {Wildcard("image"), Wildcard("text")}
            \cup {Exact(Type("text", "plain")), EmptyToken, BadToken, All}

\* README: a preset accepts the formats in its row, a wildcard all types of its kind.
\* Detection and the dropped parameters included, a preset accepts those that are not
\* misdetected, and no others of its row.
TokensAccept ==
  /\ \A group \in Groups : \A format \in Documented[group] :
       \E policy \in Parse({Preset(group)}) :
         Stored(policy, format) <=> format \notin Misdetected
  /\ \A format \in DOMAIN Detected :
       \E policy \in Parse({Wildcard(Detected[format].type[1])}) : Stored(policy, format)

\* The list the page is told of (clientConfig) is one that would allow what the
\* policy allows, and nothing else.
ShownFaithfully ==
  \A tokens \in SUBSET Tokens : \A policy \in Parse(tokens) :
    \E shown \in Parse(Shown(policy)) :
      \A type \in Types : Allows(shown, type) <=> Allows(policy, type)

\* README: presets, wildcards and exact types may be mixed.  A list allows what its
\* tokens allow one by one: none takes anything away from the others.
TokensAddUp ==
  \A tokens \in SUBSET Tokens : \A policy \in Parse(tokens) :
    \A format \in DOMAIN Detected :
      Stored(policy, format) <=>
        tokens = {} \/ \E token \in tokens :
                          \E one \in Parse({token}) : Stored(one, format)
=============================================================================
