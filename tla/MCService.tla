----------------------------- MODULE MCService -----------------------------
(***************************************************************************)
(* Instances of Service for TLC, with the configuration and the policy its *)
(* constants stand for.                                                    *)
(***************************************************************************)
EXTENDS Serving, TLC

CONSTANTS a, b, c, u1, u2

\* Two contents of which either fits but not both with a full reservation.
MCSize == a :> 1 @@ b :> 2

\* The same, and c, one byte too large for MaxUploadBytes = 3.
MCSizeLarge == a :> 1 @@ b :> 2 @@ c :> 4

MCSymmetry == Permutations(Uploads)

\* With Binary = 4 the ceiling is 640 and an int64 ends at 1023: around every limit,
\* and beyond, at both ends.
MCNumbers == (-20 .. 1100)

----------------------------------------------------------------------------
\* With ALLOWED_TYPES=audio: a is an MP3 file, b is a WAV file.
MCFormat == a :> "mp3" @@ b :> "wav"

MCAudio == {id \in {a, b} : \E policy \in Parse({Preset("audio")}) : Stored(policy, MCFormat[id])}

\* README: "audio": MP3, OGG, WAV, WebM audio, AAC and FLAC.  A file whose format
\* README names for the preset is acceptable when it has arrived.
PresetHonoured ==
  \A u \in Uploads :
    pc[u] = "receiving" /\ MCFormat[content[u]] \in Documented["audio"] => Acceptable(content[u])
=============================================================================
