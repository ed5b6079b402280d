------------------------------- MODULE Config -------------------------------
(***************************************************************************)
(* internal/config: how the environment becomes the limits a process runs  *)
(* with, and what GET /api/config tells the page of them.                  *)
(*                                                                         *)
(* The largest int64 and the bases of the units are parameters, so that    *)
(* overflow happens at numbers small enough to enumerate; every other      *)
(* number follows from them as it does in the code.                        *)
(***************************************************************************)
EXTENDS Integers, FiniteSets

CONSTANTS
  MaxInt,                \* 2^63 - 1
  Binary, Decimal,       \* 1024 and 1000
  MaxMinutes,            \* what fits a time.Duration
  Unset,                 \* an environment variable that is not set, or empty
  Numbers                \* the numbers the properties try

MiB == Binary * Binary
GiB == Binary * MiB

\* DefaultMaxUploadBytes, MaxMultipartOverhead and MaxChunkSize.
Ceiling      == 10 * GiB
Slack        == MiB
MaxChunkSize == 32 * MiB

ASSUME ConfigAssumption ==
  /\ MaxInt \in Nat /\ Ceiling + Slack <= MaxInt
  /\ Binary \in Nat /\ Binary >= 2 /\ Decimal \in Nat \ {0}
  /\ MaxMinutes \in Nat /\ 24 * 60 <= MaxMinutes
  /\ Unset \notin [number : Int, unit : Nat] /\ Numbers \subseteq Int

----------------------------------------------------------------------------
(* Byte counts: a text is a number, of any size, and a unit.               *)

\* The product of two int64s.
Wrapped(n) == ((n + MaxInt + 1) % (2 * (MaxInt + 1))) - (MaxInt + 1)

\* No suffix, m and mib, g and gib, mb, gb.
ByteUnits == {1, MiB, GiB, Decimal * Decimal, Decimal * Decimal * Decimal}

\* Mutant of ParseBytes: the product is not guarded.
ParseBytesUnguarded(text) ==
  {Wrapped(n * text.unit) : n \in {text.number} \cap ((-MaxInt - 1) .. MaxInt)}

\* The result, none on an error.  ParseInt refuses what is not an int64; the product
\* is guarded at its upper end, and wraps at its lower one.
ParseBytes(text) ==
  IF \/ text.number \notin (-MaxInt - 1) .. MaxInt
     \/ text.number > (MaxInt - Slack) \div text.unit
  THEN {} ELSE {Wrapped(text.number * text.unit)}

\* MAX_UPLOAD_BYTES and MAX_STORAGE_BYTES, in Load: none stops the process.
Limits(text) ==
  IF text = Unset THEN {Ceiling}
  ELSE {bytes \in ParseBytes(text) : 0 < bytes /\ bytes <= Ceiling}

----------------------------------------------------------------------------
(* Retention, in minutes.                                                  *)

\* m, h, d, w.
RetentionUnits == {1, 60, 24 * 60, 7 * 24 * 60}

\* parseRetention: a positive number of one unit that fits a duration.
ParseRetention(text) ==
  {minutes \in {text.number * text.unit} : 0 < text.number /\ minutes <= MaxMinutes}

Retentions(text) == IF text = Unset THEN {24 * 60} ELSE ParseRetention(text)

Largest(units) == CHOOSE unit \in units : \A other \in units : other <= unit

\* Mutant of FormatRetention: the largest unit that is not longer.
FormatRetentionRounded(minutes) ==
  LET unit == Largest({u \in RetentionUnits : u <= minutes})
  IN  [number |-> minutes \div unit, unit |-> unit]

\* formatRetention: the largest unit that divides it.
FormatRetention(minutes) ==
  LET unit == Largest({u \in RetentionUnits : minutes % u = 0})
  IN  [number |-> minutes \div unit, unit |-> unit]

----------------------------------------------------------------------------
(* The chunks a browser is told to cut files into.                         *)

Lesser(x, y)  == IF x < y THEN x ELSE y
Greater(x, y) == IF x > y THEN x ELSE y

\* Mutant of ChunkSize: the lower bound is missing.
ChunkSizeUnbounded(maxUpload) ==
  LET share == maxUpload \div Binary
  IN  Lesser(IF share > 0 THEN Lesser(share, 8 * MiB) ELSE 8 * MiB, MaxChunkSize)

\* Config.ChunkSize: a 1024th of the largest file, within 1 and 8 MiB; the clamp at
\* MaxChunkSize never acts.
ChunkSize(maxUpload) ==
  LET share == maxUpload \div Binary
      size  == IF share > 0 THEN Lesser(share, 8 * MiB) ELSE 8 * MiB
  IN  Lesser(Greater(size, MiB), MaxChunkSize)

----------------------------------------------------------------------------
(* The process.                                                            *)

\* A password is its length in bytes and whether all of them are printable.
ValidAuthPassword(password) == password.length \in 6 .. 16 /\ password.printable

\* Load: the configuration, none on an error.
Load(env) ==
  IF \/ env.driver \notin {"local", "oss"}
     \/ env.driver = "oss" /\ ~env.ossComplete
     \/ ~ValidAuthPassword(env.password)
  THEN {}
  ELSE [maxUpload : Limits(env.maxUpload), maxStorage : Limits(env.maxStorage),
        retention : Retentions(env.retention), driver : {env.driver}]

\* clientConfig, as far as it is derived from the configuration.
ClientConfig(cfg) ==
  [maxFileSize |-> cfg.maxUpload, maxTotalSize |-> cfg.maxStorage,
   chunkSize |-> ChunkSize(cfg.maxUpload), maxChunkSize |-> MaxChunkSize,
   retention |-> FormatRetention(cfg.retention)]

----------------------------------------------------------------------------
(* Properties.                                                             *)

Texts(units) == [number : Numbers, unit : units]

\* Environments that set a limit, or both, and the retention to these texts.
Environments(limit, retention) ==
  [driver : {"local", "oss", "s3"}, ossComplete : BOOLEAN,
   password : [length : {5, 6}, printable : BOOLEAN],
   maxUpload : {limit}, maxStorage : {limit, Unset}, retention : {retention}]

\* A limit written as a number from 0 on is taken for exactly what it says, or
\* refused because it is 0 or above the ceiling: no product wraps into the range.
LimitsExact ==
  \A text \in Texts(ByteUnits) :
    text.number >= 0 => Limits(text) = {text.number * text.unit} \cap (1 .. Ceiling)

\* Whatever Load accepts meets what Service assumes of its limits, and the sum its
\* handlers form of them fits an int64.
LoadedLimitsServe ==
  \A text \in {Unset} \cup Texts(ByteUnits) :
    \A env \in Environments(text, Unset) : \A cfg \in Load(env) :
      /\ cfg.maxUpload > 0 /\ cfg.maxStorage > 0 /\ cfg.retention > 0
      /\ cfg.maxUpload + Slack <= MaxInt

\* The page shows the retention the process applies (clientConfig).
RetentionShown ==
  \A text \in {Unset} \cup Texts(RetentionUnits) :
    \A env \in Environments(Unset, text) : \A cfg \in Load(env) :
      ParseRetention(ClientConfig(cfg).retention) = {cfg.retention}

\* config.go: "very large files still produce a bounded number of chunks": with a
\* chunk within 1 MiB and the server's maximum, the largest file takes at most 1280,
\* a quarter more than the "~1024" of the comment.
ChunksBounded ==
  \A maxUpload \in Numbers \cap (1 .. Ceiling) :
    /\ ChunkSize(maxUpload) \in MiB .. MaxChunkSize
    /\ 4 * maxUpload <= 5 * Binary * ChunkSize(maxUpload)
=============================================================================
