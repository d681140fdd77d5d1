-------------------------------- MODULE Files --------------------------------
(* Images on disk: uploads stored under the hash of their re-encoded bytes   *)
(* and served by it (media.rs, db/assets.rs), and the copies of images that  *)
(* the data cites elsewhere (mirror.rs).  A write to a file is not atomic:   *)
(* it truncates, then fills; the process or the disk may give out between.   *)
(*                                                                           *)
(* A definition named after another with a suffix (RenameFirst, ...) is a    *)
(* mistake one could make there; a property must tell it from the code.      *)
EXTENDS Naturals, Sequences, FiniteSets

CONSTANTS
    Uploads,    \* slots for uploads under way
    Visitors,     \* accounts that upload
    Pictures,   \* what is uploaded: [readable, kind, bytes, hash]; two pictures
                \* may re-encode to the same bytes and so to the same hash
    Links,      \* addresses of images elsewhere
    HostOf,     \* [Links -> hosts]
    MaxBytes,   \* MAX_IMAGE_BYTES
    MaxUploads, MaxCrashes, MaxPasses \* bounds of an instance

(* The data cites finitely many images.                                      *)
ASSUME FilesAssumption ==
    IsFiniteSet(Links) /\ MaxUploads \in Nat /\ MaxCrashes \in Nat /\ MaxPasses \in Nat

VARIABLES
    disk,       \* [hashes -> "absent", "half" or "whole"]
    assets,     \* rows of assets: [hash, owner, published]
    upload,     \* [Uploads -> the upload under way, or NoUpload]
    copies,     \* [Links -> state of the file of the copy]
    partial,    \* [Links -> state of the file written aside]
    pass,       \* the pass of the mirror, or Sleeping
    uploads, crashes, passes \* counts for the bounds

media == <<disk, assets, upload, uploads>>
mirror == <<copies, partial, pass, passes>>
filesVars == <<media, mirror, crashes>>

Hashes == {p.hash : p \in Pictures}
FileStates == {"absent", "half", "whole"}
NoUpload == [at |-> "free"]
NoAnswer == [body |-> "none"]
Sleeping == [at |-> "sleep"]

FilesTypeOK ==
    /\ disk \in [Hashes -> FileStates]
    /\ copies \in [Links -> FileStates] /\ partial \in [Links -> FileStates]
    /\ \A a \in assets : a.hash \in Hashes /\ a.owner \in Visitors /\ a.published \in BOOLEAN
    /\ \A a, b \in assets : a.hash = b.hash => a = b
    /\ \A u \in Uploads : upload[u] # NoUpload => upload[u].hash \in Hashes
    /\ pass = Sleeping \/ (pass.left \subseteq Links /\ Len(pass.asked) <= Cardinality(Links))
    /\ uploads \in 0..MaxUploads /\ crashes \in 0..MaxCrashes /\ passes \in 0..MaxPasses

-----------------------------------------------------------------------------
(* store_upload.  Processing keeps pixels only, and may refuse.              *)

Process(u, who, p) ==
    /\ upload[u] = NoUpload /\ uploads < MaxUploads
    /\ p.bytes \in 1..MaxBytes /\ p.kind \in {"png", "jpeg", "webp"} /\ p.readable
    /\ upload' = [upload EXCEPT ![u] = [at |-> "stat", by |-> who, hash |-> p.hash]]
    /\ uploads' = uploads + 1
    /\ UNCHANGED <<disk, assets, mirror, crashes>>

Goes(u, at) == upload' = [upload EXCEPT ![u].at = at]

(* A file that is there is taken for the picture.                            *)
Stat(u) ==
    /\ upload[u].at = "stat"
    /\ Goes(u, IF disk[upload[u].hash] = "absent" THEN "create" ELSE "insert")
    /\ UNCHANGED <<disk, assets, uploads, mirror, crashes>>

Create(u) ==
    /\ upload[u].at = "create" /\ Goes(u, "fill")
    /\ disk' = [disk EXCEPT ![upload[u].hash] = "half"]
    /\ UNCHANGED <<assets, uploads, mirror, crashes>>

Fill(u) ==
    /\ upload[u].at = "fill" /\ Goes(u, "insert")
    /\ disk' = [disk EXCEPT ![upload[u].hash] = "whole"]
    /\ UNCHANGED <<assets, uploads, mirror, crashes>>

(* The disk is full: the upload answers with an error.                       *)
WriteFails(u) ==
    /\ upload[u].at \in {"create", "fill"} /\ crashes < MaxCrashes
    /\ crashes' = crashes + 1 /\ upload' = [upload EXCEPT ![u] = NoUpload]
    /\ UNCHANGED <<disk, assets, uploads, mirror>>

(* The first uploader stays the owner.                                       *)
Insert(u) ==
    /\ upload[u].at = "insert"
    /\ assets' = IF \E a \in assets : a.hash = upload[u].hash THEN assets
                 ELSE assets \cup {[hash |-> upload[u].hash, owner |-> upload[u].by, published |-> FALSE]}
    /\ upload' = [upload EXCEPT ![u] = NoUpload]
    /\ UNCHANGED <<disk, uploads, mirror, crashes>>

(* Approving the submission that carries the image publishes it.             *)
MarkPublished(a) ==
    /\ a \in assets /\ ~a.published
    /\ assets' = (assets \ {a}) \cup {[a EXCEPT !.published = TRUE]}
    /\ UNCHANGED <<disk, upload, uploads, mirror, crashes>>

(* What serve answers: published to all, else to its uploader and to admins. *)
Serve(h, who, admin) ==
    IF \E a \in assets : a.hash = h /\ (a.published \/ admin \/ a.owner = who)
        /\ disk[h] # "absent"
    THEN [body |-> disk[h], forever |-> \E a \in assets : a.hash = h /\ a.published]
    ELSE NoAnswer

-----------------------------------------------------------------------------
(* mirror_pending: one pass over the addresses of the data.                  *)

StartPass ==
    /\ pass = Sleeping /\ passes < MaxPasses /\ passes' = passes + 1
    /\ pass' = [at |-> "next", left |-> Links, resting |-> {}, asked |-> <<>>, link |-> "none"]
    /\ UNCHANGED <<copies, partial, media, crashes>>

(* An image we hold is not fetched, nor one of a host that asked to rest.    *)
Skip(l) ==
    /\ pass.at = "next" /\ l \in pass.left
    /\ copies[l] # "absent" \/ HostOf[l] \in pass.resting
    /\ pass' = [pass EXCEPT !.left = @ \ {l}]
    /\ UNCHANGED <<copies, partial, passes, media, crashes>>

FetchRestless(l, answer) ==
    /\ pass.at = "next" /\ l \in pass.left /\ copies[l] = "absent"
    /\ pass' = [pass EXCEPT
        !.left = @ \ {l}, !.link = IF answer = "image" THEN l ELSE "none",
        !.asked = Append(@, [host |-> HostOf[l], answer |-> answer]),
        !.at = IF answer = "image" THEN "write" ELSE "next"]
    /\ UNCHANGED <<copies, partial, passes, media, crashes>>

(* The answers of a host: an image, a request to rest, anything else.        *)
Fetch(l, answer) ==
    /\ pass.at = "next" /\ l \in pass.left
    /\ copies[l] = "absent" /\ HostOf[l] \notin pass.resting
    /\ pass' = [pass EXCEPT
        !.left = @ \ {l}, !.link = IF answer = "image" THEN l ELSE "none",
        !.asked = Append(@, [host |-> HostOf[l], answer |-> answer]),
        !.at = IF answer = "image" THEN "write" ELSE "next",
        !.resting = IF answer = "rest" THEN @ \cup {HostOf[l]} ELSE @]
    /\ UNCHANGED <<copies, partial, passes, media, crashes>>

WriteAsideInPlace ==
    /\ pass.at = "write" /\ pass' = [pass EXCEPT !.at = "filling"]
    /\ copies' = [copies EXCEPT ![pass.link] = "half"]
    /\ UNCHANGED <<partial, passes, media, crashes>>

(* Written aside, filled, and renamed.                                       *)
WriteAside ==
    /\ pass.at = "write" /\ pass' = [pass EXCEPT !.at = "filling"]
    /\ partial' = [partial EXCEPT ![pass.link] = "half"]
    /\ UNCHANGED <<copies, passes, media, crashes>>
FillAside ==
    /\ pass.at = "filling" /\ pass' = [pass EXCEPT !.at = "rename"]
    /\ partial' = [partial EXCEPT ![pass.link] = "whole"]
    /\ UNCHANGED <<copies, passes, media, crashes>>
Rename ==
    /\ pass.at = "rename" /\ pass' = [pass EXCEPT !.at = "next", !.link = "none"]
    /\ copies' = [copies EXCEPT ![pass.link] = partial[pass.link]]
    /\ partial' = [partial EXCEPT ![pass.link] = "absent"]
    /\ UNCHANGED <<passes, media, crashes>>

(* A write or the rename fails: this copy is given up, what was written      *)
(* aside stays, and the pass goes on.                                        *)
GiveUp ==
    /\ pass.at \in {"write", "filling", "rename"}
    /\ pass' = [pass EXCEPT !.at = "next", !.link = "none"]
    /\ UNCHANGED <<copies, partial, passes, media, crashes>>

EndPass ==
    /\ pass.at = "next" /\ pass.left = {} /\ pass' = Sleeping
    /\ UNCHANGED <<copies, partial, passes, media, crashes>>

-----------------------------------------------------------------------------
(* The process dies: what is on disk and in the database stays.              *)
Crash ==
    /\ crashes < MaxCrashes /\ crashes' = crashes + 1
    /\ upload' = [u \in Uploads |-> NoUpload] /\ pass' = Sleeping
    /\ UNCHANGED <<disk, assets, uploads, copies, partial, passes>>

FilesInit ==
    /\ disk = [h \in Hashes |-> "absent"] /\ assets = {}
    /\ upload = [u \in Uploads |-> NoUpload] /\ uploads = 0
    /\ copies = [l \in Links |-> "absent"] /\ partial = [l \in Links |-> "absent"]
    /\ pass = Sleeping /\ passes = 0 /\ crashes = 0

FilesNext ==
    \/ \E u \in Uploads : \/ \E w \in Visitors, p \in Pictures : Process(u, w, p)
                          \/ Stat(u) \/ Create(u) \/ Fill(u) \/ WriteFails(u) \/ Insert(u)
    \/ \E a \in assets : MarkPublished(a)
    \/ StartPass \/ WriteAside \/ FillAside \/ Rename \/ GiveUp \/ EndPass \/ Crash
    \/ \E l \in Links : Skip(l) \/ \E a \in {"image", "rest", "other"} : Fetch(l, a)

FilesSpec == FilesInit /\ [][FilesNext]_filesVars

-----------------------------------------------------------------------------
(* Written aside and renamed (copy_one): a crash never leaves half a copy    *)
(* that the next pass would take for a finished one; an image that is        *)
(* recorded has a file (store_upload writes first), whoever uploaded it; and *)
(* that file is whole unless it is being written or a write was cut short.   *)
CopiesWhole ==
    /\ \A l \in Links : copies[l] # "half"
    /\ \A a \in assets : disk[a.hash] # "absent"
    /\ \A h \in Hashes : disk[h] = "half" =>
         crashes > 0 \/ \E u \in Uploads : upload[u].at = "fill" /\ upload[u].hash = h

(* A host that says it is asked too often is left alone until the next pass  *)
(* (mirror_pending), however many of its images are still to come.           *)
RestIsKept ==
    pass # Sleeping => \A i, j \in DOMAIN pass.asked :
        i < j /\ pass.asked[i].host = pass.asked[j].host => pass.asked[i].answer # "rest"

(* What is served can only be a plain image we produced, and uploading the   *)
(* same bytes again is a harmless no-op (media.rs 3-9, 76-77).  Not so while *)
(* a file is being written and after a write was cut short: see the README.  *)
ServedWhole ==
    \A h \in Hashes, w \in Visitors, admin \in BOOLEAN : Serve(h, w, admin).body # "half"

=============================================================================
