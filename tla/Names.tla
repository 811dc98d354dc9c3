------------------------------- MODULE Names -------------------------------
(***************************************************************************)
(* File names and the conventions microcms hangs on them.                  *)
(*                                                                         *)
(* A name such as "cat.jpg--labels.json" is the sequence of the pieces     *)
(* that "--" separates, each a record with the piece's extension, so that  *)
(*   strings.Contains(name, "--")        is  Len(name) > 1                 *)
(*   name[0:strings.LastIndex(name,"--")] is  Front(name)                  *)
(*   fmt.Sprintf("%s--extract.txt", name) is  Append(name, ExtractTxt)     *)
(* and a suffix test looks at the extension of the last piece.  A file is  *)
(* a name in a directory.                                                  *)
(***************************************************************************)
EXTENDS Naturals, Sequences, SequencesExt

CONSTANT
  Rekognition  \* AWS credentials are set, so images go to the vision API

ASSUME RekognitionAssumption == Rekognition \in BOOLEAN

Piece == [stem : STRING, ext : STRING]

LastExt(f) == Last(f.name).ext

\* FTS5 indexes these directly.
IsTextFile(f) == LastExt(f) \in {"txt", "json", "html", "vtt"}

\* Tika turns these into text.
IsDoc(f) == LastExt(f) \in {"doc", "ppt", "xls", "docx", "pptx", "xlsx", "pdf", "one"}

IsImage(f) == LastExt(f) \in {"jpg", "jpeg", "png", "gif"}

\* The name has a "--" in it: it belongs to another file.
IsDerived(f) == Len(f.name) > 1

\* The file a derived name belongs to: everything before the last "--".
OriginalOf(f) == IF IsDerived(f) THEN [f EXCEPT !.name = Front(@)] ELSE f

ExtractTxt     == [stem |-> "extract",    ext |-> "txt"]
ThumbnailPng   == [stem |-> "thumbnail",  ext |-> "png"]
LabelsJson     == [stem |-> "labels",     ext |-> "json"]
CelebsJson     == [stem |-> "celebs",     ext |-> "json"]
ModerationJson == [stem |-> "moderation", ext |-> "json"]

DerivedFile(f, piece) == [f EXCEPT !.name = Append(@, piece)]

(***************************************************************************)
(* What a cascading upload of f goes on to upload, in order.  "cascade"    *)
(* says whether the derived upload is itself indexed, "optional" that it   *)
(* may be left out (celebrities are looked for only in images whose labels *)
(* name a face or a person).                                               *)
(***************************************************************************)
Derivation(f, piece, cascade, optional) ==
  [file |-> DerivedFile(f, piece), cascade |-> cascade, optional |-> optional]

DocDerivations(f) ==
  <<Derivation(f, ExtractTxt, TRUE, FALSE)>>
    \o IF LastExt(f) = "pdf" THEN <<Derivation(f, ThumbnailPng, FALSE, FALSE)>> ELSE <<>>

ImageDerivations(f) ==
  <<Derivation(f, ThumbnailPng, FALSE, FALSE)>>
    \o IF Rekognition
       THEN << Derivation(f, LabelsJson, TRUE, FALSE),
               Derivation(f, CelebsJson, TRUE, TRUE),
               Derivation(f, ModerationJson, TRUE, FALSE) >>
       ELSE <<>>

Derivations(f) ==
  CASE IsDoc(f)   -> DocDerivations(f)
    [] IsImage(f) -> ImageDerivations(f)
    [] OTHER      -> <<>>
=============================================================================
