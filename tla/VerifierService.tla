-------------------------- MODULE VerifierService --------------------------
(***************************************************************************)
(* The verifier-service program and its client.  Each verification of a    *)
(* bundle spawns one verifier process, which loads the receipt, verifies   *)
(* it, writes a report to the file named by the invocation and says the    *)
(* outcome again in its exit code; the client waits for the process and    *)
(* then reads the report.  Invocations for one finalization share the      *)
(* report file, and nothing keeps them apart, while the bundle may be      *)
(* published again.                                                        *)
(*                                                                         *)
(* A report is its status and the image ids it names; wording, timestamps  *)
(* and durations are left out.  Overwriting a longer file from its start   *)
(* leaves the tail of the old content: such a file is "torn", and whether  *)
(* it happens depends on lengths the model leaves open.                    *)
(***************************************************************************)
EXTENDS Naturals, Sequences, FiniteSets, SequencesExt

CONSTANTS
    Invocations,        \* calls of invokeVerifierService
    Images,             \* image ids
    Texts,              \* the image ids callers pass, as they spell them
    Bundles,            \* what may be found at the bundle path
    MaxPublications     \* bound: how often the bundle is published again

VARIABLES
    bundle,     \* what is at the bundle path
    file,       \* what is at the report path
    inv,        \* the invocations
    published,  \* number of publications
    dev,        \* RISC0_DEV_MODE of a build that honours it
    disturbed   \* history: invocations during which another one wrote the file

vars == <<bundle, file, inv, published, dev, disturbed>>

\* How an image id may be spelt: a loose text has capitals, blanks or no prefix.
Forms == {"normalized", "loose", "malformed"}

\* What an instance gives the constants.
ServiceConstants ==
    /\ IsFiniteSet(Invocations)
    /\ MaxPublications \in Nat
    /\ Texts \subseteq [image : Images, form : Forms]
    /\ {"none", "malformed"} \cap Images = {}

-----------------------------------------------------------------------------
\* What verifier-service computes.

\* The names resolve_receipt_path and load_receipt_from_zip look for, sorted.
ReceiptNames == <<"old-receipt.json", "receipt.json">>

Failure == [loaded |-> FALSE, inner |-> "none", metadata |-> "none", proves |-> "none", version |-> FALSE]

\* An entry is a name with the receipt stored under it; one that is not a
\* receipt parses to Failure.
resolve_receipt_path(b) ==
    LET named(n) == {e \in Range(b.entries) : e.name = n}
        present  == {k \in 1 .. Len(ReceiptNames) : named(ReceiptNames[k]) # {}}
    IN  IF present = {} THEN Failure
        ELSE (CHOOSE e \in named(ReceiptNames[Min(present)]) : TRUE).receipt

load_receipt_from_zip(b) ==
    LET matching == {k \in 1 .. Len(b.entries) : b.entries[k].name \in Range(ReceiptNames)}
    IN  IF matching = {} THEN Failure ELSE b.entries[Min(matching)].receipt

load(b) ==
    CASE b.form = "absent"    -> Failure
      [] b.form = "directory" -> resolve_receipt_path(b)
      [] b.form = "archive"   -> load_receipt_from_zip(b)

\* ImageId::parse: what a text denotes.
Normalized(image) == [image |-> image, form |-> "normalized"]

\* Receipt::verify of the RISC Zero library.
verify_receipt(r, image) ==
    IF r.inner = "fake"
    THEN IF ~dev THEN "InvalidProof" ELSE IF r.proves = image THEN "ok" ELSE "ClaimMismatch"
    ELSE IF r.proves = "none" THEN "InvalidProof" ELSE IF r.proves = image THEN "ok" ELSE "ClaimMismatch"

\* The statuses of verify_loaded_receipt: the metadata first, then the proof.
MetadataStatus(r, image) ==
    IF r.metadata = "none" THEN (IF r.inner = "fake" THEN "success" ELSE "failed")
    ELSE IF r.metadata = image THEN "success" ELSE "failed"

ProofStatus(r, image) ==
    LET outcome == verify_receipt(r, image)
    IN  CASE outcome = "ok"            -> IF r.inner = "fake" THEN "dev_mode" ELSE "success"
          [] outcome = "InvalidProof"  -> IF r.inner = "fake" THEN "dev_mode" ELSE "failed"
          [] outcome = "ClaimMismatch" -> "failed"

Errors(r, image) ==
    \/ r.metadata # image
    \/ verify_receipt(r, image) # "ok"

\* The report, or the ReportInvariant error of its constructor.
NoReport == [status |-> "none", expected |-> "none", receipt |-> "none", fake |-> FALSE, errors |-> FALSE]

verify_loaded_receipt(r, image) ==
    LET status == IF MetadataStatus(r, image) = "failed" THEN "failed" ELSE ProofStatus(r, image)
        report == [status |-> status, expected |-> image, receipt |-> r.metadata,
                   fake |-> r.inner = "fake", errors |-> Errors(r, image)]
    IN  IF \/ status = "success" /\ r.metadata # image
           \/ status = "dev_mode" /\ r.metadata \notin {"none", image}
           \/ status = "failed" /\ ~report.errors
        THEN NoReport ELSE report

ExitCode(report) ==
    CASE report.status = "none"     -> 1
      [] report.status = "success"  -> 0
      [] report.status = "dev_mode" -> 2
      [] report.status = "failed"   -> 3

\* decode_bundle_journal: TRUE when a journal is printed.
decode_bundle_journal(b, image) ==
    LET r == load(b)
    IN  r.loaded /\ verify_loaded_receipt(r, image).status = "success" /\ r.version

-----------------------------------------------------------------------------
\* What the client admits.

\* verifierServiceWireReportSchema
parseVerifierServiceWireReport(report) ==
    /\ report.expected \in Images
    /\ report.receipt \in Images \cup {"none"}
    /\ report.status = "success"  => report.receipt = report.expected /\ ~report.fake /\ ~report.errors
    /\ report.status = "dev_mode" => report.receipt \in {"none", report.expected} /\ report.fake
    /\ report.status = "failed"   => report.errors
    /\ report.status # "none"

\* Faulty variant: the exit code is not compared with the report.
parseVerifierServiceProtocolReport(code, report) ==
    /\ code \in {0, 2, 3}
    /\ parseVerifierServiceWireReport(report)

parseVerifierServiceProtocol(code, report) ==
    /\ code \in {0, 2, 3}
    /\ parseVerifierServiceWireReport(report)
    /\ code = ExitCode(report)

-----------------------------------------------------------------------------
\* The processes.

Idle == [pc |-> "idle", text |-> [image |-> "none", form |-> "malformed"], loaded |-> Failure,
         report |-> NoReport, code |-> 1, result |-> "none"]
Whole(report) == [kind |-> "report", report |-> report]
Content(kind) == [kind |-> kind, report |-> NoReport]

Init ==
    /\ bundle \in Bundles
    /\ file = Content("none")
    /\ inv = [i \in Invocations |-> Idle]
    /\ published = 0
    /\ dev \in BOOLEAN
    /\ disturbed = {}

Running(i) == inv[i].pc \in {"load", "verify", "create", "json", "newline"}

\* resolveBinaryPath, the directory of the report and the spawn; without a
\* binary or a process the call throws.  The arguments are parsed first:
\* a malformed image id ends the process with 1.
Invoke(i, text, spawned) ==
    /\ inv[i].pc = "idle"
    /\ inv' = [inv EXCEPT ![i].text = text,
                          ![i].pc = IF ~spawned THEN "done"
                                    ELSE IF text.form = "malformed" THEN "exit" ELSE "load",
                          ![i].result = IF spawned THEN "none" ELSE "threw"]
    /\ UNCHANGED <<bundle, file, published, dev, disturbed>>

Load(i) ==
    /\ inv[i].pc = "load"
    /\ inv' = [inv EXCEPT ![i].loaded = load(bundle),
                          ![i].pc = IF load(bundle).loaded THEN "verify" ELSE "exit"]
    /\ UNCHANGED <<bundle, file, published, dev, disturbed>>

Verify(i) ==
    /\ inv[i].pc = "verify"
    /\ LET report == verify_loaded_receipt(inv[i].loaded, inv[i].text.image)
       IN  inv' = [inv EXCEPT ![i].report = report,
                              ![i].pc = IF report = NoReport THEN "exit" ELSE "create"]
    /\ UNCHANGED <<bundle, file, published, dev, disturbed>>

\* A step of i that changes the report file disturbs every other invocation
\* that is under way.
Disturb(i) == disturbed' = disturbed \cup {j \in Invocations \ {i} : inv[j].pc \notin {"idle", "done"}}

\* write_report: File::create truncates.
CreateReport(i) ==
    /\ inv[i].pc = "create"
    /\ file' = Content("empty")
    /\ inv' = [inv EXCEPT ![i].pc = "json"]
    /\ Disturb(i)
    /\ UNCHANGED <<bundle, published, dev>>

WriteJson(i) ==
    /\ inv[i].pc = "json"
    /\ file' \in {Whole(inv[i].report)} \cup (IF file.kind = "empty" THEN {} ELSE {Content("torn")})
    /\ inv' = [inv EXCEPT ![i].pc = "newline"]
    /\ Disturb(i)
    /\ UNCHANGED <<bundle, published, dev>>

\* The final newline goes to the end of what this process wrote.
WriteNewline(i) ==
    /\ inv[i].pc = "newline"
    /\ file' \in IF file = Whole(inv[i].report) /\ i \notin disturbed
                 THEN {file} ELSE {file, Content("torn")}
    /\ inv' = [inv EXCEPT ![i].pc = "exit", ![i].code = ExitCode(inv[i].report)]
    /\ Disturb(i)
    /\ UNCHANGED <<bundle, published, dev>>

\* The file system refuses the report: the process ends with 1.
WriteFails(i) ==
    /\ inv[i].pc \in {"create", "json", "newline"}
    /\ inv' = [inv EXCEPT ![i].pc = "exit"]
    /\ UNCHANGED <<bundle, file, published, dev, disturbed>>

\* The process is killed: the exit code is null and the call throws.
Killed(i) ==
    /\ Running(i)
    /\ inv' = [inv EXCEPT ![i].pc = "done", ![i].result = "threw"]
    /\ UNCHANGED <<bundle, file, published, dev, disturbed>>

\* The close event, the report read and compared with the invocation.
matchesInvocation(i, report) ==
    inv[i].text = Normalized(report.expected)

ReadReport(i) ==
    /\ inv[i].pc = "exit"
    /\ LET admitted == /\ file.kind = "report"
                       /\ parseVerifierServiceProtocol(inv[i].code, file.report)
                       /\ matchesInvocation(i, file.report)
       IN  inv' = [inv EXCEPT ![i].pc = "done",
                              ![i].result = IF admitted THEN file.report.status ELSE "threw",
                              ![i].report = IF admitted THEN file.report ELSE @]
    /\ UNCHANGED <<bundle, file, published, dev, disturbed>>

\* The bundle is published again; its archive is removed before it is written.
Publish(b) ==
    /\ published < MaxPublications
    /\ published' = published + 1
    /\ bundle' = b
    /\ UNCHANGED <<file, inv, dev, disturbed>>

Ended == (\A i \in Invocations : inv[i].pc = "done") /\ UNCHANGED vars

Next ==
    \/ \E i \in Invocations :
        \/ \E text \in Texts, spawned \in BOOLEAN : Invoke(i, text, spawned)
        \/ Load(i)
        \/ Verify(i)
        \/ CreateReport(i)
        \/ WriteJson(i)
        \/ WriteNewline(i)
        \/ WriteFails(i)
        \/ Killed(i)
        \/ ReadReport(i)
    \/ \E b \in Bundles : Publish(b)
    \/ Ended

Spec == Init /\ [][Next]_vars

-----------------------------------------------------------------------------
\* Properties.

Statuses == {"success", "dev_mode", "failed"}

\* The state is well formed.
TypeOK ==
    /\ bundle \in Bundles
    /\ file.kind \in {"none", "empty", "torn", "report"}
    /\ published \in 0 .. MaxPublications
    /\ disturbed \subseteq Invocations
    /\ \A i \in Invocations :
        /\ inv[i].pc \in {"idle", "load", "verify", "create", "json", "newline", "exit", "done"}
        /\ inv[i].result \in Statuses \cup {"none", "threw"}
        /\ inv[i].result # "none" <=> inv[i].pc = "done"

\* What the receipt an invocation loaded deserves: a success is a real proof
\* for the expected image whose metadata name it, a development receipt never
\* more than dev_mode.
Deserved(r, image) ==
    CASE r.inner = "proof" /\ r.proves = image /\ r.metadata = image -> "success"
      [] r.inner = "fake" /\ r.metadata \in {"none", image} /\ (dev => r.proves = image) -> "dev_mode"
      [] OTHER -> "failed"

\* A status the client returns is what the receipt its own process loaded
\* deserves, although the report it read may be another invocation's
\* (invokeVerifierService compares the exit code with the report).
StatusIsOwn ==
    \A i \in Invocations :
        inv[i].result \in Statuses => inv[i].result = Deserved(inv[i].loaded, inv[i].text.image)

\* The report the client returns is about the image it asked for, also when
\* invocations for two images share the report file.
ReportIsAboutImage ==
    \A i \in Invocations :
        inv[i].result \in Statuses => inv[i].report.expected = inv[i].text.image

\* A verification that ran to its end is lost only when another invocation
\* wrote the report file meanwhile, or the receipt or the caller spelt an
\* image id in a way the report schema has no place for.
LostOnlyWhenDisturbed ==
    \A i \in Invocations :
        (inv[i].result = "threw" /\ inv[i].code # 1 /\ i \notin disturbed)
            => \/ inv[i].report.receipt = "malformed"
               \/ inv[i].text.form = "loose"

\* When every invocation returned a status, the report file holds a whole
\* report: the last one to write read the file after its last write.
ToldMeansWhole ==
    ((\A i \in Invocations : inv[i].pc = "done" /\ inv[i].result \in Statuses) /\ Invocations # {})
        => file.kind = "report" /\ parseVerifierServiceWireReport(file.report)

\* A journal is decoded only from a receipt that proves it for the expected
\* image with the current method version.
DecodedWasProved ==
    \A image \in Images :
        decode_bundle_journal(bundle, image)
            => LET r == load(bundle) IN r.inner = "proof" /\ r.proves = image /\ r.version
=============================================================================
