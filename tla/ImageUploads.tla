---------------------------- MODULE ImageUploads ----------------------------
(***************************************************************************)
(* ImageService on a file storage: the files of one multipart request are  *)
(* processed at the same time, each resized, stored, turned into a         *)
(* thumbnail and stored again, by way of temporary files.  When the first  *)
(* one fails the request is answered and its uploads are removed, while    *)
(* the others still go on.  The application may have the images of a       *)
(* request that succeeded deleted again.                                   *)
(*                                                                         *)
(* Each upload is a caller of FileStorage.  Its image gets a fresh uuid as *)
(* its name, so its paths are its own.                                     *)
(***************************************************************************)
EXTENDS FileStorage

Uploads == Callers
Image(f) == <<f, "image">>
Thumbnail(f) == <<f, "thumbnail">>
Upload(f) == <<f, "upload">>      \* where multiparty has put it

ASSUME PathsAssumption ==
  /\ Paths = {Image(f) : f \in Uploads} \cup {Thumbnail(f) : f \in Uploads}
  /\ Contents = {"image", "thumbnail"}

VARIABLES
  request,          \* where the request is
  createThumbnail,  \* argument of processMultipartPayload
  at,               \* where the processing of each upload is
  temps,            \* files in the temporary directory
  unlinks,          \* calls of fs.unlink that nobody awaits
  left,             \* temporary files nobody can remove: fs.unlink failed
  undeleted         \* paths whose deletion was answered with an error

imageVars == <<request, createThumbnail, at, temps, unlinks, left, undeleted>>
uploadVars == <<storageVars, imageVars>>

Temps == Paths \cup {Upload(f) : f \in Uploads}

UploadTypeOK ==
  /\ StorageTypeOK
  /\ request \in {"new", "processing", "failed", "succeeded", "cleaning",
                  "cleaned"}
  /\ createThumbnail \in BOOLEAN
  /\ at \in [Uploads -> {"none", "format", "resizing", "storing", "unlinking",
                         "thumbnail", "storingThumbnail",
                         "unlinkingThumbnail", "done", "failed",
                         "deleting", "deletingThumbnail", "cleaned"}]
  /\ temps \subseteq Temps /\ unlinks \subseteq Temps /\ left \subseteq Temps
  /\ undeleted \subseteq Paths

UploadInit ==
  /\ StorageInit
  /\ request = "new" /\ createThumbnail \in BOOLEAN
  /\ at = [f \in Uploads |-> "none"]
  /\ temps = {} /\ unlinks = {} /\ left = {} /\ undeleted = {}

-----------------------------------------------------------------------------
(* Variants of the helpers below, each with a plausible mistake.           *)
OnlyFailed(f) == {Upload(f)}            \* the others remove their own
NotRefused(f) == answers[f] # "exists"  \* other errors are only logged

(* Helpers *)
UploadsOf(f) == {Upload(g) : g \in Uploads}      \* what a failure cleans up
StoredImage(f) == answers[f] = "done"

Moves(f, to) == at' = [at EXCEPT ![f] = to]

(* The processing of f is rejected: the first one to be ends the request.  *)
Rejected(f, unlinked) ==
  /\ Moves(f, "failed")
  /\ IF request = "processing"
       THEN /\ request' = "failed"
            /\ unlinks' = unlinks \cup unlinked \cup UploadsOf(f)
       ELSE /\ unlinks' = unlinks \cup unlinked
            /\ UNCHANGED request

(* f is processed, and its upload no longer needed. *)
Finished(f) ==
  /\ Moves(f, "done")
  /\ unlinks' = unlinks \cup {Upload(f)}
  /\ UNCHANGED request

-----------------------------------------------------------------------------
(* processMultipartPayload: multiparty has the files, processing begins *)
ProcessMultipartPayload ==
  /\ request = "new"
  /\ request' = "processing"
  /\ temps' = {Upload(f) : f \in Uploads}
  /\ at' = [f \in Uploads |-> "format"]
  /\ UNCHANGED <<storageVars, createThumbnail, unlinks, left, undeleted>>

(* getImageFormat: an allowed one, another one, or an error *)
FormatFound(f) ==
  /\ at[f] = "format"
  /\ \/ /\ Upload(f) \in temps
        /\ Moves(f, "resizing")
        /\ UNCHANGED <<request, unlinks>>
     \/ Upload(f) \in temps /\ Rejected(f, {Upload(f)})
     \/ Rejected(f, {})
  /\ UNCHANGED <<storageVars, createThumbnail, temps, left, undeleted>>

(* writeImage and writeThumbnail: gm writes its result to a temporary      *)
(* file, which is then handed to the storage; or it fails.                 *)
Converted(f, from, to, path, content) ==
  /\ at[f] = from
  /\ Upload(f) \in temps
  /\ Moves(f, to)
  /\ temps' = temps \cup {path}
  /\ WriteFile(f, path, content, FALSE, TRUE)
  /\ UNCHANGED <<request, createThumbnail, unlinks, left, undeleted>>

WriteImage(f) ==
  Converted(f, "resizing", "storing", Image(f), "image")
WriteThumbnail(f) ==
  Converted(f, "thumbnail", "storingThumbnail", Thumbnail(f), "thumbnail")

ConversionFails(f) ==
  /\ at[f] \in {"resizing", "thumbnail"}
  /\ Rejected(f, {})
  /\ LET path == IF at[f] = "resizing" THEN Image(f) ELSE Thumbnail(f)
     IN \/ UNCHANGED <<temps, left>>
        \/ temps' = temps \cup {path} /\ left' = left \cup {path}
  /\ UNCHANGED <<storageVars, createThumbnail, undeleted>>

(* The storage has answered.  Its file is removed when it is stored, and   *)
(* stays when it is not.                                                   *)
Stored(f) ==
  /\ at[f] \in {"storing", "storingThumbnail"} /\ Idle(f)
  /\ IF StoredImage(f)
       THEN /\ Moves(f, IF at[f] = "storing" THEN "unlinking"
                        ELSE "unlinkingThumbnail")
            /\ UNCHANGED <<request, unlinks, left>>
       ELSE /\ Rejected(f, {})
            /\ left' = left \cup
                 {IF at[f] = "storing" THEN Image(f) ELSE Thumbnail(f)}
  /\ UNCHANGED <<storageVars, createThumbnail, temps, undeleted>>

(* the end of writeImage and writeThumbnail: an error of unlink is ignored *)
Unlinked(f) ==
  /\ at[f] \in {"unlinking", "unlinkingThumbnail"}
  /\ LET path == IF at[f] = "unlinking" THEN Image(f) ELSE Thumbnail(f)
     IN \/ temps' = temps \ {path} /\ UNCHANGED left
        \/ left' = left \cup {path} /\ UNCHANGED temps
  /\ IF at[f] = "unlinking" /\ createThumbnail
       THEN Moves(f, "thumbnail") /\ UNCHANGED <<request, unlinks>>
       ELSE Finished(f)
  /\ UNCHANGED <<storageVars, createThumbnail, undeleted>>

(* fs.unlink, which nobody awaits *)
UnlinkEnds(path) ==
  /\ path \in unlinks
  /\ unlinks' = unlinks \ {path}
  /\ \/ temps' = temps \ {path} /\ UNCHANGED left
     \/ left' = left \cup {path} /\ UNCHANGED temps
  /\ UNCHANGED <<storageVars, request, createThumbnail, at, undeleted>>

(* all uploads are processed *)
Answered ==
  /\ request = "processing"
  /\ \A f \in Uploads : at[f] = "done"
  /\ request' = "succeeded"
  /\ UNCHANGED <<storageVars, createThumbnail, at, temps, unlinks, left,
                 undeleted>>

-----------------------------------------------------------------------------
(* cleanupImageUploads, for the results of the request *)
CleanupImageUploads ==
  /\ request = "succeeded"
  /\ request' = "cleaning"
  /\ UNCHANGED <<storageVars, createThumbnail, at, temps, unlinks, left,
                 undeleted>>

(* deleteImageFromFileStorage, of the image, then of the thumbnail *)
DeleteImage(f) ==
  /\ request = "cleaning" /\ at[f] = "done"
  /\ DeleteFile(f, Image(f), TRUE, FALSE)
  /\ Moves(f, "deleting")
  /\ UNCHANGED <<request, createThumbnail, temps, unlinks, left, undeleted>>

ImageDeleted(f) ==
  /\ at[f] = "deleting" /\ Idle(f)
  /\ undeleted' = undeleted \cup (IF answers[f] = "done" THEN {} ELSE {Image(f)})
  /\ IF createThumbnail
       THEN /\ DeleteFile(f, Thumbnail(f), TRUE, FALSE)
            /\ Moves(f, "deletingThumbnail")
       ELSE Moves(f, "cleaned") /\ UNCHANGED storageVars
  /\ UNCHANGED <<request, createThumbnail, temps, unlinks, left>>

ThumbnailDeleted(f) ==
  /\ at[f] = "deletingThumbnail" /\ Idle(f)
  /\ undeleted' = undeleted \cup
       (IF answers[f] = "done" THEN {} ELSE {Thumbnail(f)})
  /\ Moves(f, "cleaned")
  /\ UNCHANGED <<storageVars, request, createThumbnail, temps, unlinks, left>>

CleanedUp ==
  /\ request = "cleaning"
  /\ \A f \in Uploads : at[f] = "cleaned"
  /\ request' = "cleaned"
  /\ UNCHANGED <<storageVars, createThumbnail, at, temps, unlinks, left,
                 undeleted>>

UploadNext ==
  \/ StorageStep /\ UNCHANGED imageVars
  \/ ProcessMultipartPayload \/ Answered \/ CleanupImageUploads \/ CleanedUp
  \/ \E f \in Uploads :
       \/ FormatFound(f) \/ WriteImage(f) \/ WriteThumbnail(f)
       \/ ConversionFails(f) \/ Stored(f) \/ Unlinked(f)
       \/ DeleteImage(f) \/ ImageDeleted(f) \/ ThumbnailDeleted(f)
  \/ \E path \in unlinks : UnlinkEnds(path)

UploadSpec == UploadInit /\ [][UploadNext]_uploadVars

-----------------------------------------------------------------------------
(* Of a request that was answered with success, every image is stored,     *)
(* and every thumbnail if there are to be any, whole and under its path;   *)
(* after the clean-up none of them is, but those whose own deletion failed.*)
(* (processMultipartPayload, cleanupImageUploads)                          *)
ImagesAsAnswered ==
  /\ request = "succeeded" =>
       \A f \in Uploads :
         /\ files[Image(f)] = "image"
         /\ createThumbnail => files[Thumbnail(f)] = "thumbnail"
  /\ request = "cleaned" =>
       \A path \in Paths : Holds(path) => path \in undeleted

(* Once nothing of the request goes on, no temporary file is left of it,   *)
(* but those whose removal failed, and what gm or the storage left when    *)
(* they failed; whichever upload failed, when, and what the others did.    *)
(* (processMultipartPayload: "Cleanup uploaded files")                     *)
TemporaryFilesLeave ==
  (\A f \in Uploads : at[f] \in {"done", "failed"}) /\ unlinks = {} =>
    temps \subseteq left
=============================================================================
