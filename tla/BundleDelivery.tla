--------------------------- MODULE BundleDelivery ---------------------------
(***************************************************************************)
(* From the files of a finished proof to the archive a browser saves.  A   *)
(* publisher writes the artifacts into the bundle directory, packs the     *)
(* public ones into bundle.zip, inspects the archive and, with S3, uploads *)
(* it with the report and the private bitmap; it may crash and run again   *)
(* with new contents.  Meanwhile a browser downloads the bundle in ranges, *)
(* each answered by a reader that first looks at the size and then reads   *)
(* the bytes, and a verification restores the receipt and the bitmap.      *)
(*                                                                         *)
(* A file is the generation of its contents, a representation the function *)
(* from the members of an archive to their generations: archives of equal  *)
(* contents have equal bytes.  A required member has two bytes and another *)
(* one has one: archives of two generations may have the same size.        *)
(***************************************************************************)
EXTENDS Naturals, Sequences, FiniteSets, Functions, FiniteSetsExt, TLC

CONSTANTS
    ChunkBytes,         \* DEFAULT_BUNDLE_RANGE_CHUNK_BYTES of the browser
    RangeMax,           \* bundleRangeMaxBytes of the server
    InlineMax,          \* bundleInlineMaxBytes of the server
    MaxDownload,        \* MAX_BUNDLE_DOWNLOAD_BYTES
    Extras,             \* the files a proof may have beside the required ones
    MaxGen              \* bound: publications of the bundle

\* What an instance gives the constants.
DeliveryConstants ==
    /\ {ChunkBytes, RangeMax, InlineMax, MaxGen} \subseteq Nat \ {0}
    /\ MaxDownload \in Nat
    /\ Extras \subseteq SUBSET {"sth", "report", "bitmap"}

VARIABLES
    s3, versioned,  \* the artifact profile, and whether its bucket keeps versions
    dir,            \* the bundle directory: generation of each file, 0 when absent
    zip,            \* bundle.zip in the directory
    objects,        \* the versions of bundle.zip in the bucket
    sidecar,        \* report and bitmap objects in the bucket
    publisher, gen, \* the publisher and its current generation
    current,        \* the session still has this succeeded finalization
    request,        \* the download request the server works on
    browser,        \* the download in the browser
    restorer,       \* restoreReceiptFromS3
    quiet           \* history: nothing disturbed the download since it began

vars == <<s3, versioned, dir, zip, objects, sidecar, publisher, gen, current, request, browser, restorer, quiet>>
store == <<s3, versioned>>
files == <<dir, zip, objects, sidecar, publisher, gen>>
download == <<request, browser>>

-----------------------------------------------------------------------------
\* public-bundle-manifest.json and the archive policy.

requiredMembers    == {"receipt", "journal"}
optionalMembers    == {"sth"}
neverPublicMembers == {"report", "bitmap"}
Allowed == requiredMembers \cup optionalMembers
Members == Allowed \cup neverPublicMembers

NoRep == [m \in {} |-> 0]
Bytes(rep) == Cardinality(DOMAIN rep) + Cardinality(requiredMembers \cap DOMAIN rep)

Zip(kind, rep) == [kind |-> kind, rep |-> rep]
SizeOf(z) == CASE z.kind = "whole" -> Bytes(z.rep) [] z.kind = "part" -> Bytes(z.rep) - 1

\* inspectOpenedArchive
inspectArchive(z) ==
    /\ z.kind = "whole"
    /\ DOMAIN z.rep \subseteq Allowed
    /\ requiredMembers \subseteq DOMAIN z.rep

-----------------------------------------------------------------------------
\* Ranges.

NoRange == [start |-> 0, end |-> 0, ok |-> FALSE]

\* resolveArtifactRange for a closed range, the only kind the browser asks for.
resolveArtifactRange(start, end, total) ==
    IF total = 0 \/ end < start \/ start >= total THEN NoRange
    ELSE [start |-> start, end |-> Min({end, total - 1, start + RangeMax - 1}), ok |-> TRUE]

-----------------------------------------------------------------------------

NoRequest == [pc |-> "none", kind |-> "full", start |-> 0, end |-> 0, total |-> 0,
              rep |-> NoRep, version |-> 0, status |-> 0]
NoBrowser == [pc |-> "idle", kind |-> "full", next |-> 0, total |-> 0, rep |-> NoRep, version |-> 0, got |-> <<>>]
NoRestore == [pc |-> "idle", rep |-> NoRep, bitmap |-> 0]

Init ==
    /\ s3 \in BOOLEAN
    /\ versioned \in {v \in BOOLEAN : v => s3}
    /\ dir = [m \in Members |-> 0]
    /\ zip = Zip("none", NoRep)
    /\ objects = <<>>
    /\ sidecar = [report |-> 0, bitmap |-> 0]
    /\ publisher = [pc |-> "idle", todo |-> {}, rep |-> NoRep]
    /\ gen = 0
    /\ current = TRUE
    /\ request = NoRequest
    /\ browser = NoBrowser
    /\ restorer = NoRestore
    /\ quiet = FALSE

Pub(pc) == publisher' = [publisher EXCEPT !.pc = pc]

-----------------------------------------------------------------------------
\* The publisher.

\* A run writes the required files and, as the proof has them, the others:
\* persistVerificationBundleArtifacts writes them all at once, in any order.
BeginRun(extras) ==
    /\ publisher.pc = "idle"
    /\ gen < MaxGen
    /\ gen' = gen + 1
    /\ publisher' = [pc |-> "persist", todo |-> requiredMembers \cup extras, rep |-> NoRep]
    /\ UNCHANGED <<store, dir, zip, objects, sidecar, current, download, restorer, quiet>>

PersistArtifact(m) ==
    /\ publisher.pc = "persist"
    /\ m \in publisher.todo
    /\ dir' = [dir EXCEPT ![m] = gen]
    /\ publisher' = [publisher EXCEPT !.todo = @ \ {m}, !.pc = IF @ = "persist" /\ publisher.todo = {m} THEN "remove" ELSE @]
    /\ UNCHANGED <<store, zip, objects, sidecar, gen, current, download, restorer, quiet>>

\* createVerificationBundleArchive
RemoveArchive ==
    /\ publisher.pc = "remove"
    /\ zip' = Zip("none", NoRep)
    /\ quiet' = (quiet /\ s3)
    /\ Pub("pack")
    /\ UNCHANGED <<store, dir, objects, sidecar, gen, current, download, restorer>>

filesToInclude == {m \in Allowed : dir[m] > 0}

PackArchive ==
    /\ publisher.pc = "pack"
    /\ zip' = Zip("part", Restrict(dir, filesToInclude))
    /\ Pub("close")
    /\ UNCHANGED <<store, dir, objects, sidecar, gen, current, download, restorer, quiet>>

CloseArchive ==
    /\ publisher.pc = "close"
    /\ zip' = Zip("whole", zip.rep)
    /\ quiet' = (quiet /\ s3)
    /\ Pub("inspect")
    /\ UNCHANGED <<store, dir, objects, sidecar, gen, current, download, restorer>>

InspectArchive ==
    /\ publisher.pc = "inspect"
    /\ IF inspectArchive(zip)
       THEN publisher' = [publisher EXCEPT !.pc = IF s3 THEN "upload" ELSE "idle", !.rep = zip.rep] /\ UNCHANGED zip
       ELSE zip' = Zip("none", NoRep) /\ Pub("idle")
    /\ UNCHANGED <<store, dir, objects, sidecar, gen, current, download, restorer, quiet>>

\* publishVerificationBundleArtifacts on the AWS target: the archive, then the
\* report, then the private bitmap when there is one.
UploadBundle ==
    /\ publisher.pc = "upload"
    /\ zip.kind # "none"
    /\ objects' = Append(objects, zip)
    /\ quiet' = FALSE
    /\ Pub("upload_report")
    /\ UNCHANGED <<store, dir, zip, sidecar, gen, current, download, restorer>>

UploadReport ==
    /\ publisher.pc = "upload_report"
    /\ IF dir["report"] > 0
       THEN sidecar' = [sidecar EXCEPT !.report = dir["report"]] /\ Pub("upload_bitmap")
       ELSE Pub("idle") /\ UNCHANGED sidecar       \* the report is required on this target
    /\ UNCHANGED <<store, dir, zip, objects, gen, current, download, restorer, quiet>>

UploadSidecar ==
    /\ publisher.pc = "upload_bitmap"
    /\ sidecar' = IF dir["bitmap"] > 0 THEN [sidecar EXCEPT !.bitmap = dir["bitmap"]] ELSE sidecar
    /\ Pub("published")
    /\ UNCHANGED <<store, dir, zip, objects, gen, current, download, restorer, quiet>>

\* An upload is given up after its retries, or the process ends.
PublisherFails ==
    /\ publisher.pc \notin {"idle", "published"}
    /\ Pub("idle")
    /\ UNCHANGED <<store, dir, zip, objects, sidecar, gen, current, download, restorer, quiet>>

Retry ==
    /\ publisher.pc = "published"
    /\ gen < MaxGen
    /\ Pub("idle")
    /\ UNCHANGED <<store, dir, zip, objects, sidecar, gen, current, download, restorer, quiet>>

\* Someone puts another file at bundle.zip, whole but with any members.
EditArchive(S) ==
    /\ ~s3
    /\ zip.kind = "whole"
    /\ publisher.pc = "idle"
    /\ zip' = Zip("whole", [m \in S |-> 1])
    /\ quiet' = FALSE
    /\ UNCHANGED <<store, dir, objects, sidecar, publisher, gen, current, download, restorer>>

\* The session is deleted or its finalization is no longer the current one.
Supersede ==
    /\ current
    /\ current' = FALSE
    /\ quiet' = FALSE
    /\ UNCHANGED <<store, files, download, restorer>>

-----------------------------------------------------------------------------
\* The server: one download request in steps.

Respond(status) == request' = [request EXCEPT !.pc = "answered", !.status = status]
Latest == objects[Len(objects)]

\* ensureFinalizationScope
Scope ==
    /\ request.pc = "scope"
    /\ IF current THEN request' = [request EXCEPT !.pc = "stat"] ELSE Respond(404)
    /\ UNCHANGED <<store, files, current, browser, restorer, quiet>>

\* admitArtifactReadSize
admitArtifactReadSize(total) == request.kind = "range" \/ total <= InlineMax

Stated(total, rep, version) ==
    IF ~admitArtifactReadSize(total) THEN Respond(413)
    ELSE request' = [request EXCEPT !.pc = "read", !.total = total, !.rep = rep, !.version = version]

\* readArtifactMetadata, or the head request of the S3 reader.
Stat ==
    /\ request.pc = "stat"
    /\ \/ ~s3 /\ IF zip.kind = "none" THEN Respond(404) ELSE Stated(SizeOf(zip), NoRep, 0)
       \/ s3 /\ IF objects = <<>> THEN Respond(404)
                ELSE Stated(SizeOf(Latest), Latest.rep, IF versioned THEN Len(objects) ELSE 0)
    /\ UNCHANGED <<store, files, current, browser, restorer, quiet>>

Answered(rep) ==
    LET r == resolveArtifactRange(request.start, request.end, request.total)
    IN  IF request.kind = "full"
        THEN request' = [request EXCEPT !.pc = "answered", !.status = 200, !.rep = rep]
        ELSE IF ~r.ok THEN Respond(416)
        ELSE request' = [request EXCEPT !.pc = "answered", !.status = 206, !.rep = rep,
                                        !.start = r.start, !.end = r.end]

\* readAdmittedArtifactBytes: the size is the one seen, the archive is admitted.
readAdmittedArtifactBytes(z) == z.kind # "none" /\ SizeOf(z) = request.total /\ inspectArchive(z)

ReadLocal ==
    /\ ~s3
    /\ request.pc = "read"
    /\ IF zip.kind = "none" THEN Respond(404)
       ELSE IF readAdmittedArtifactBytes(zip) THEN Answered(zip.rep) ELSE Respond(500)
    /\ UNCHANGED <<store, files, current, browser, restorer, quiet>>

\* The S3 read is pinned to the version, or else to the entity tag, of the
\* head request; NoRep when S3 refuses the condition.
readPinned ==
    IF request.version > 0 THEN objects[request.version].rep
    ELSE IF Latest.rep = request.rep THEN Latest.rep ELSE NoRep

ReadS3 ==
    /\ s3
    /\ request.pc = "read"
    /\ IF readPinned = NoRep THEN Respond(500) ELSE Answered(readPinned)
    /\ UNCHANGED <<store, files, current, browser, restorer, quiet>>

\* The object store fails or times out: a 500.
ReadFails ==
    /\ s3
    /\ request.pc \in {"stat", "read"}
    /\ Respond(500)
    /\ quiet' = FALSE
    /\ UNCHANGED <<store, files, current, browser, restorer>>

-----------------------------------------------------------------------------
\* The browser: fetchBundleBlob.

Ask(kind, start, end) ==
    request' = [NoRequest EXCEPT !.pc = "scope", !.kind = kind, !.start = start, !.end = end]

\* The browser asks in ranges; other clients of the API may ask for the whole.
BeginDownload(kind) ==
    /\ browser.pc = "idle"
    /\ browser' = [NoBrowser EXCEPT !.pc = "first", !.kind = kind]
    /\ Ask(kind, 0, ChunkBytes - 1)
    /\ quiet' = /\ current
                /\ IF s3 THEN objects # <<>> ELSE inspectArchive(zip)
    /\ UNCHANGED <<store, files, current, restorer>>

Piece == [rep |-> request.rep, start |-> request.start, end |-> request.end]
GiveUp == browser' = [browser EXCEPT !.pc = "threw"] /\ request' = NoRequest
Saved(got) == browser' = [browser EXCEPT !.pc = "saved", !.got = got] /\ request' = NoRequest

\* resolveArtifactChunkSize: the server's announced chunk, never above the default.
resolveArtifactChunkSize == Min({RangeMax, ChunkBytes})

AskNext(next, total, rep, version, got) ==
    /\ browser' = [browser EXCEPT !.pc = "next", !.next = next, !.total = total, !.rep = rep,
                                  !.version = version, !.got = got]
    /\ Ask("range", next, Min({next + resolveArtifactChunkSize - 1, total - 1}))

ReceiveWhole ==
    /\ browser.pc = "first"
    /\ request.pc = "answered"
    /\ request.status # 206
    /\ IF request.status = 200 /\ request.total <= MaxDownload
       THEN Saved(<<[rep |-> request.rep, start |-> 0, end |-> request.total - 1]>>) ELSE GiveUp
    /\ UNCHANGED <<store, files, current, restorer, quiet>>

\* admitInitialArtifactRange
admitInitialArtifactRange ==
    /\ request.start = 0
    /\ request.end < ChunkBytes
    /\ request.end < request.total
    /\ request.total <= MaxDownload

ReceiveFirst ==
    /\ browser.pc = "first"
    /\ request.pc = "answered"
    /\ request.status = 206
    /\ IF ~admitInitialArtifactRange THEN GiveUp
       ELSE IF request.end + 1 >= request.total THEN Saved(<<Piece>>)
       ELSE AskNext(request.end + 1, request.total, request.rep, request.version, <<Piece>>)
    /\ UNCHANGED <<store, files, current, restorer, quiet>>

\* Faulty variant: the representation of a later range is not compared.
admitNextArtifactRangeAny ==
    /\ request.status = 206
    /\ request.start = browser.next
    /\ request.end = Min({browser.next + resolveArtifactChunkSize - 1, browser.total - 1})
    /\ request.total = browser.total

\* admitNextArtifactRange
admitNextArtifactRange ==
    /\ request.status = 206
    /\ request.start = browser.next
    /\ request.end = Min({browser.next + resolveArtifactChunkSize - 1, browser.total - 1})
    /\ request.total = browser.total
    /\ request.rep = browser.rep
    /\ request.version = browser.version

ReceiveNext ==
    /\ browser.pc = "next"
    /\ request.pc = "answered"
    /\ LET got == Append(browser.got, Piece)
       IN  IF ~admitNextArtifactRange THEN GiveUp
           ELSE IF request.end + 1 >= browser.total THEN Saved(got)
           ELSE AskNext(request.end + 1, browser.total, browser.rep, browser.version, got)
    /\ UNCHANGED <<store, files, current, restorer, quiet>>

-----------------------------------------------------------------------------
\* restoreReceiptFromS3: the archive, then the private bitmap beside it.

RestoreBundle ==
    /\ s3
    /\ restorer.pc = "idle"
    /\ objects # <<>>
    /\ restorer' = IF "receipt" \in DOMAIN Latest.rep
                   THEN [restorer EXCEPT !.pc = "bitmap", !.rep = Latest.rep]
                   ELSE [restorer EXCEPT !.pc = "threw"]
    /\ UNCHANGED <<store, files, current, download, quiet>>

\* matchesJournalBitmapRoot
matchesJournalBitmapRoot(rep, bitmap) == bitmap > 0 /\ "journal" \in DOMAIN rep /\ bitmap = rep["journal"]

RestoreBitmap ==
    /\ restorer.pc = "bitmap"
    /\ restorer' = [restorer EXCEPT !.pc = "restored",
                                    !.bitmap = IF matchesJournalBitmapRoot(restorer.rep, sidecar.bitmap)
                                               THEN sidecar.bitmap ELSE 0]
    /\ UNCHANGED <<store, files, current, download, quiet>>

\* A transient failure of S3 ends the restoration; the caller tries again.
RestoreFails ==
    /\ restorer.pc = "bitmap"
    /\ restorer' = NoRestore
    /\ UNCHANGED <<store, files, current, download, quiet>>

Next ==
    \/ \E extras \in Extras : BeginRun(extras)
    \/ \E m \in Members : PersistArtifact(m)
    \/ RemoveArchive \/ PackArchive \/ CloseArchive \/ InspectArchive
    \/ UploadBundle \/ UploadReport \/ UploadSidecar \/ PublisherFails \/ Retry
    \/ \E S \in {{"receipt", "journal", "bitmap"}, {"journal", "sth"}} : EditArchive(S)
    \/ Supersede
    \/ Scope \/ Stat \/ ReadLocal \/ ReadS3 \/ ReadFails
    \/ \E kind \in {"full", "range"} : BeginDownload(kind)
    \/ ReceiveWhole \/ ReceiveFirst \/ ReceiveNext
    \/ RestoreBundle \/ RestoreBitmap \/ RestoreFails

Spec == Init /\ [][Next]_vars

-----------------------------------------------------------------------------
\* Properties.

\* The state is well formed; what the browser has got is in order, without
\* gaps or overlaps, and never more than it asked for.
TypeOK ==
    /\ gen \in 0 .. MaxGen
    /\ dir \in [Members -> 0 .. MaxGen]
    /\ zip.kind \in {"none", "part", "whole"}
    /\ browser.pc \in {"idle", "first", "next", "saved", "threw"}
    /\ \A k \in 1 .. Len(browser.got) :
        browser.got[k].start = IF k = 1 THEN 0 ELSE browser.got[k - 1].end + 1

\* What the browser saves is one representation, all of its bytes, although
\* its pieces were read by requests between which the archive was replaced.
SavedIsOneRepresentation ==
    browser.pc = "saved" =>
        LET rep == browser.got[1].rep
        IN  /\ \A k \in 1 .. Len(browser.got) : browser.got[k].rep = rep
            /\ browser.got[Len(browser.got)].end = Bytes(rep) - 1

\* Only archives of public members with every required member leave the
\* server, also when bundle.zip was edited or was being written.
DeliveredIsPublic ==
    \A k \in 1 .. Len(browser.got) :
        inspectArchive(Zip("whole", browser.got[k].rep))

\* A download nobody disturbed is completed: the browser's chunks and the
\* server's limits fit together at every size.
UndisturbedIsSaved ==
    (browser.pc = "threw" /\ quiet)
        => LET total == IF s3 THEN SizeOf(Latest) ELSE SizeOf(zip)
           IN  total > MaxDownload \/ (browser.kind = "full" /\ total > InlineMax)

\* A restored bitmap is the one of the restored journal, although archive and
\* bitmap are uploaded and read one after the other and a bitmap of an
\* earlier run may be left in the directory.
RestoredIsConsistent ==
    (restorer.pc = "restored" /\ restorer.bitmap > 0) => restorer.bitmap = restorer.rep["journal"]

\* A completed publication has put everything the directory holds into the
\* bucket, and the archive in the bucket is the inspected one.
PublishedIsWhole ==
    publisher.pc = "published" =>
        /\ Latest = Zip("whole", publisher.rep)
        /\ sidecar.report = dir["report"]
        /\ dir["bitmap"] > 0 => sidecar.bitmap = dir["bitmap"]
=============================================================================
