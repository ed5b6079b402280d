----------------------------- MODULE FileNames -----------------------------
(***************************************************************************)
(* The names of the entries of an archive (archiveFiles).  A name is what  *)
(* it says before its extension, the counters in brackets that follow, and *)
(* the extension: "a (1) (2).png" is <<"a", <<1, 2>>, ".png">>.            *)
(***************************************************************************)
EXTENDS Integers, Sequences, Functions

CONSTANTS
  Names,                 \* the names files may have been uploaded under
  MaxEntries             \* the longest archive looked at

ASSUME NamesAssumption ==
  /\ \A name \in Names : name = <<name[1], name[2], name[3]>> /\ name[2] \in Seq(Nat)
  /\ MaxEntries \in Nat

\* fmt.Sprintf("%s (%d)%s", stem, n, ext).
Numbered(name, n) == <<name[1], Append(name[2], n), name[3]>>

\* Mutant of Count: used[base] stays at one.
CountOnce(used, name) == [x \in DOMAIN used \cup {name} |-> IF x = name THEN 1 ELSE used[x]]

\* used[base]: one more, under the name that was asked for.
Count(used, name) ==
  [x \in DOMAIN used \cup {name} |->
     IF x # name THEN used[x] ELSE IF x \in DOMAIN used THEN used[x] + 1 ELSE 1]

\* The map after the first i names.
Used(names) ==
  LET used[i \in 0 .. Len(names)] ==
        IF i = 0 THEN [x \in {} |-> 0] ELSE Count(used[i - 1], names[i])
  IN  used

\* The names of the entries: a name that was used before gets its count.
ArchiveNames(names) ==
  LET used == Used(names)
  IN  [i \in DOMAIN names |->
         IF names[i] \in DOMAIN used[i - 1] THEN Numbered(names[i], used[i - 1][names[i]])
         ELSE names[i]]

----------------------------------------------------------------------------
(* Properties.                                                             *)

\* Two files of an archive have different names, unless one of them had been
\* uploaded under a name that was generated for another.
NamesDistinct(names) ==
  (\A i, j \in DOMAIN names : \A n \in 1 .. Len(names) : names[i] # Numbered(names[j], n))
    => IsInjective(ArchiveNames(names))

ArchivesNamed == \A size \in 1 .. MaxEntries : \A names \in [1 .. size -> Names] : NamesDistinct(names)
=============================================================================
