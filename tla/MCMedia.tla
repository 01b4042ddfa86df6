------------------------------- MODULE MCMedia -------------------------------
(***************************************************************************)
(* Small instances of Migration for TLC: two images of one content that    *)
(* has a location, or an image and a sound; two media workers, one         *)
(* maintenance worker.                                                     *)
(***************************************************************************)
EXTENDS Migration, TLC

CONSTANTS u1, e1, e2, j1, j2, j3, w1, w2, v1, v2, located, clean, other, m1, m2

Stripped == [c \in Contents |-> IF c = located THEN clean ELSE c]
SameContent == [e \in EntryIds |-> located]
Images == [e \in EntryIds |-> "image"]
ImageAndAudio == [e \in EntryIds |-> IF e = e1 THEN "image" ELSE "audio"]

Shared == [kind |-> "shared", root |-> "gallery"]
SharedElsewhere == [kind |-> "shared", root |-> "elsewhere"]
User == [kind |-> "user", root |-> "gallery"]
SharedAndUser == {Shared, User}

left(kinds, processed, replacements, requests, deploys, crashes, stalls, failures, moved, deletes) ==
    [kinds |-> kinds, processed |-> processed, uploads |-> replacements, requests |-> requests,
     deploys |-> deploys, crashes |-> crashes, stalls |-> stalls, failures |-> failures,
     migrations |-> moved, deletes |-> deletes]

\* Media work, on a new and on processed files; then migrations, alone and beside it.
Mix == {left(Images, {e2}, 1, 1, 0, 0, 0, 0, 0, 0),
        left(Images, {e1, e2}, 0, 2, 0, 0, 0, 0, 0, 0),
        left(ImageAndAudio, {e2}, 1, 0, 0, 1, 1, 0, 0, 0),
        left(ImageAndAudio, {e1, e2}, 1, 1, 0, 0, 1, 0, 0, 0),
        left(ImageAndAudio, {e1, e2}, 1, 0, 0, 0, 0, 0, 0, 1),
        left(ImageAndAudio, {e2}, 0, 0, 1, 0, 0, 2, 0, 0),
        left(Images, {e1, e2}, 0, 0, 0, 1, 1, 2, 1, 1),
        left(Images, {e1, e2}, 0, 0, 0, 0, 0, 1, 2, 0),
        left(ImageAndAudio, {e1, e2}, 1, 0, 0, 0, 0, 0, 1, 0),
        left(ImageAndAudio, {e1, e2}, 0, 1, 0, 0, 0, 0, 1, 0)}

\* An image is replaced, while it has work and when it has had it.
OneUpload == {left(ImageAndAudio, {e1, e2}, 1, 0, 0, 0, 0, 0, 0, 0)}
UploadAtWork == {left(Images, {e2}, 1, 0, 0, 0, 0, 0, 0, 0)}
JustUser == {User}

\* A removal and an upload; a removal, an upload or neither beside a migration, which may
\* be to another root of the same kind of storage.
UploadAndRemoval == {left(Images, {e1, e2}, 1, 1, 0, 0, 0, 0, 0, 0)}
ChangeAndMigration == {left(ImageAndAudio, {e1, e2}, 1, 0, 0, 0, 0, 0, 1, 0),
                       left(ImageAndAudio, {e1, e2}, 0, 1, 0, 0, 0, 0, 1, 0)}
OneMigration == {left(ImageAndAudio, {e1, e2}, 0, 0, 0, 0, 0, 0, 1, 0)}
BothShared == {Shared, SharedElsewhere}
=============================================================================
