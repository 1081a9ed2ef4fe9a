------------------------------ MODULE MCClient ------------------------------
(***************************************************************************)
(* The browser and what it asks for: tabs that share a storage, the        *)
(* verification page, the verifier service and the delivery of bundles.    *)
(* A behaviour is a behaviour of one instance, chosen by part: the         *)
(* variables of the others keep the value None.  The module extends the    *)
(* verification page's, a tab that goes through two sessions and mounts    *)
(* the page twice.                                                         *)
(***************************************************************************)
EXTENDS ClientVerification, TLC

CONSTANTS t1, t2, v1, v2   \* tabs and invocations of the verifier

VARIABLES
    part,
    stored, known, locks, tab, requests, orphans, sessions, failures, visits,
    bundle, file, inv, published, dev, disturbed,
    s3, versioned, dir, zip, objects, sidecar, publisher, gen, current, request, browser,
    restorer, quiet

tabVars     == <<stored, known, locks, tab, requests, orphans, sessions, failures, visits>>
serviceVars == <<bundle, file, inv, published, dev, disturbed>>
bundleVars  == <<s3, versioned, dir, zip, objects, sidecar, publisher, gen, current, request,
                 browser, restorer, quiet>>
allVars == <<part, vars, tabVars, serviceVars, bundleVars>>

-----------------------------------------------------------------------------
\* A page that loses answers and whose results are damaged or replaced.
Faulty == INSTANCE ClientVerification WITH
    MaxSessions <- 2, MaxMounts <- 1, MaxFaults <- 1, Outcomes <- {"success", "failed"}

\* Two tabs, one of which may be reset; two tabs and a fault; one tab that loads
\* every page by its address, loses answers and finalizes twice; two tabs in one
\* session, which both vote, or one of which asks for the result the other awaits.
Reset == INSTANCE ClientSession WITH
    Tabs <- {t1, t2}, MaxSessions <- 2, MaxAttempts <- 1, MaxFaults <- 0, MaxVisits <- 1,
    Addresses <- {}, SharedTabs <- FALSE, record <- stored, knowledge <- known, lock <- locks,
    flight <- requests, server <- sessions, faults <- failures
Tabs2 == INSTANCE ClientSession WITH
    Tabs <- {t1, t2}, MaxSessions <- 1, MaxAttempts <- 1, MaxFaults <- 1, MaxVisits <- 0,
    Addresses <- {"home"}, SharedTabs <- FALSE, record <- stored, knowledge <- known, lock <- locks,
    flight <- requests, server <- sessions, faults <- failures
Reload == INSTANCE ClientSession WITH
    Tabs <- {t1}, MaxSessions <- 1, MaxAttempts <- 2, MaxFaults <- 1, MaxVisits <- 1,
    Addresses <- {"vote", "aggregate", "result"}, SharedTabs <- FALSE,
    record <- stored, knowledge <- known, lock <- locks, flight <- requests, server <- sessions,
    faults <- failures
Shared == INSTANCE ClientSession WITH
    Tabs <- {t1, t2}, MaxSessions <- 1, MaxAttempts <- 1, MaxFaults <- 0, MaxVisits <- 1,
    Addresses <- {"vote", "result"}, SharedTabs <- TRUE, record <- stored, knowledge <- known,
    lock <- locks, flight <- requests, server <- sessions, faults <- failures

\* Receipts of every kind in an archive, and a second receipt where the two
\* loaders could pick different ones.
R(inner, metadata, proves) ==
    [loaded |-> TRUE, inner |-> inner, metadata |-> metadata, proves |-> proves, version |-> TRUE]
Receipts ==
    {R("proof", "i1", "i1"), R("proof", "i1", "i2"), R("proof", "none", "i1"),
     R("fake", "i1", "i1"),
     [R("proof", "i1", "i1") EXCEPT !.version = FALSE]}
Failure == [loaded |-> FALSE, inner |-> "none", metadata |-> "none", proves |-> "none",
            version |-> FALSE]
Entry(name, receipt) == [name |-> name, receipt |-> receipt]
Bundles ==
    {[form |-> "archive", entries |-> <<Entry("journal.json", Failure), Entry("receipt.json", r)>>]
        : r \in Receipts}
    \cup {[form |-> f, entries |-> <<Entry("receipt.json", R("proof", "i1", "i1")),
                                     Entry("old-receipt.json", R("fake", "none", "i1"))>>]
            : f \in {"directory", "archive"}}
    \cup {[form |-> f, entries |-> <<>>] : f \in {"absent", "directory", "archive"}}
Service == INSTANCE VerifierService WITH
    Invocations <- {v1, v2}, Images <- {"i1", "i2"}, MaxPublications <- 1,
    Texts <- {[image |-> "i1", form |-> "normalized"], [image |-> "i2", form |-> "normalized"],
              [image |-> "i1", form |-> "loose"], [image |-> "i1", form |-> "malformed"]}

\* A bundle that is published twice and fits neither a range nor an answer.
Delivery == INSTANCE BundleDelivery WITH
    ChunkBytes <- 3, RangeMax <- 2, InlineMax <- 3, MaxDownload <- 4, MaxGen <- 2,
    Extras <- {{}, {"report"}, {"sth", "report", "bitmap"}}

ASSUME Instances ==
    /\ ClientVerificationConstants /\ Faulty!ClientVerificationConstants
    /\ Reset!ClientConstants /\ Tabs2!ClientConstants /\ Reload!ClientConstants
    /\ Shared!ClientConstants
    /\ Service!ServiceConstants /\ Delivery!DeliveryConstants

-----------------------------------------------------------------------------
Off(v) == v = None

NoPage    == /\ Off(record) /\ Off(knowledge) /\ Off(lock) /\ Off(page) /\ Off(seq) /\ Off(flight)
             /\ Off(pollers) /\ Off(latest) /\ Off(server) /\ Off(mounts) /\ Off(faults) /\ Off(replaced)
NoTabs    == /\ Off(stored) /\ Off(known) /\ Off(locks) /\ Off(tab) /\ Off(requests) /\ Off(orphans)
             /\ Off(sessions) /\ Off(failures) /\ Off(visits)
NoService == /\ Off(bundle) /\ Off(file) /\ Off(inv) /\ Off(published) /\ Off(dev) /\ Off(disturbed)
NoBundle  == /\ Off(s3) /\ Off(versioned) /\ Off(dir) /\ Off(zip) /\ Off(objects) /\ Off(sidecar)
             /\ Off(publisher) /\ Off(gen) /\ Off(current) /\ Off(request) /\ Off(browser)
             /\ Off(restorer) /\ Off(quiet)

SuiteInit ==
    \/ /\ \/ part = "page" /\ Init
          \/ part = "faulty page" /\ Faulty!Init
       /\ NoTabs /\ NoService /\ NoBundle
    \/ /\ \/ part = "reset" /\ Reset!Init
          \/ part = "tabs" /\ Tabs2!Init
          \/ part = "reload" /\ Reload!Init
          \/ part = "shared" /\ Shared!Init
       /\ NoPage /\ NoService /\ NoBundle
    \/ part = "service" /\ Service!Init /\ NoPage /\ NoTabs /\ NoBundle
    \/ part = "delivery" /\ Delivery!Init /\ NoPage /\ NoTabs /\ NoService

SuiteNext ==
    \/ /\ \/ part = "page" /\ Next
          \/ part = "faulty page" /\ Faulty!Next
       /\ UNCHANGED <<part, tabVars, serviceVars, bundleVars>>
    \/ /\ \/ part = "reset" /\ Reset!Next
          \/ part = "tabs" /\ Tabs2!Next
          \/ part = "reload" /\ Reload!Next
          \/ part = "shared" /\ Shared!Next
       /\ UNCHANGED <<part, vars, serviceVars, bundleVars>>
    \/ part = "service" /\ Service!Next /\ UNCHANGED <<part, vars, tabVars, bundleVars>>
    \/ part = "delivery" /\ Delivery!Next /\ UNCHANGED <<part, vars, tabVars, serviceVars>>

SuiteSpec == SuiteInit /\ [][SuiteNext]_allVars

-----------------------------------------------------------------------------
\* Tabs that share one storage keep their sessions apart: the record and the
\* knowledge are of one session, a repeated vote replays its tab's opening, no step of
\* a tab replaces the record of another tab's session, and a stored success goes only
\* when an answer about its own session says so to a tab that shows it.
TabsKeepApart ==
    /\ [](part = "reset" => Reset!TypeOK /\ Reset!RecordIsOneSession /\ Reset!KnowledgeIsOneSession)
    /\ [](part = "tabs" => Tabs2!RecordIsOneSession)
    /\ [](part = "reload" => Reload!TypeOK /\ Reload!OpeningIsReplayed)
    /\ [](part = "shared" => Shared!TypeOK /\ Shared!OpeningIsReplayed /\ Shared!KnowledgeIsOneSession)
    /\ [][/\ part = "reset" => Reset!SuccessKept /\ Reset!OthersUntouched
          /\ part = "tabs" => Tabs2!SuccessKept /\ Tabs2!OthersUntouched
          /\ part = "reload" => Reload!SuccessKept
          /\ part = "shared" => Shared!SuccessKept /\ Shared!OthersUntouched]_allVars

\* The verification page shows and publishes what the server found about its own
\* session, with one poller at a time, and forgets a session only when told so.
VerificationShownIsTrue ==
    /\ part = "page" => TypeOK /\ ShownIsOwn /\ OnePoller
    /\ part = "faulty page" => Faulty!KeptUnlessTold /\ Faulty!PublishedIsJustified

\* An invocation of the verifier answers about its own bundle and image or
\* throws, though all of them write one report file.
VerifierAnswersAreOwn ==
    part = "service" =>
        /\ Service!TypeOK /\ Service!StatusIsOwn /\ Service!ReportIsAboutImage
        /\ Service!LostOnlyWhenDisturbed /\ Service!ToldMeansWhole /\ Service!DecodedWasProved

\* A bundle is saved whole and from one publication, whatever is published while
\* it is downloaded range by range, and only public members are delivered.
BundlesAreWhole ==
    part = "delivery" =>
        /\ Delivery!TypeOK /\ Delivery!SavedIsOneRepresentation /\ Delivery!DeliveredIsPublic
        /\ Delivery!UndisturbedIsSaved /\ Delivery!RestoredIsConsistent /\ Delivery!PublishedIsWhole

\* The tabs are alike, and so are the invocations of the verifier.
Symmetry == Permutations({t1, t2}) \cup Permutations({v1, v2})

=============================================================================
