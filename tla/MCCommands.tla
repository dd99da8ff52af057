----------------------------- MODULE MCCommands -----------------------------
(* Instances of Commands for TLC. *)
EXTENDS Commands, TLC

CONSTANTS ann, bob, zed, i1, i2, i3, plus, minus, strip, first, second

MCMember == [name |-> [owner |-> ann, group |-> bob], id |-> [owner |-> i1, group |-> i2]]
\* The host does not know zed, and no group ann.
MCHost == [owner |-> (ann :> i1 @@ bob :> i2 @@ zed :> NULL),
           group |-> (ann :> NULL @@ bob :> i2 @@ zed :> NULL)]
MCMemory == <<1, 3, 5>>

Plus(id) == [form |-> "plus", name |-> NULL, id |-> id]
Bare(name) == [form |-> "bare", name |-> name, id |-> NULL]
Pair(name, id) == [form |-> "pair", name |-> name, id |-> id]
None == [owner |-> NULL, group |-> NULL]
NoIdentity == [texts |-> None, maps |-> None]

Process == [jobs |-> NULL, ioJobs |-> 2, zeros |-> {}, fresh |-> FALSE, exitAfter |-> NULL]
Fresh == [Process EXCEPT !.fresh = TRUE]
StopAfter(stage) == [Process EXCEPT !.exitAfter = stage]
Xz == [filters |-> {}, suffix |-> "xz", level |-> NULL, extreme |-> TRUE, memlimit |-> 4]
Filter(patterns, lazy) == [patterns |-> patterns, lazy |-> lazy]

Plain ==
    [input |-> [inputs |-> 1, filesFrom |-> 0, overlap |-> FALSE, separation |-> TRUE, vcs |-> FALSE,
                shards |-> FALSE, maxShardSize |-> 0, sparsify |-> FALSE, zeroPage |-> FALSE],
     compression |-> Xz, filter |-> Filter({first}, FALSE),
     capture |-> [flags |-> {"numeric-ids-only"}, mode |-> NULL, transform |-> NULL],
     identity |-> NoIdentity, process |-> Process, absent |-> {}]

\* A policy for both sides, and an archive that is left with its database.
Mapped ==
    [Plain EXCEPT !.filter = Filter({second}, FALSE),
        !.capture = [flags |-> {}, mode |-> plus, transform |-> strip],
        !.identity = [texts |-> [owner |-> Pair(bob, i3), group |-> NULL],
                      maps |-> [owner |-> NULL,
                                group |-> << <<Bare(bob), Bare(zed)>>, <<>>, <<Plus(i2), Plus(i3)>> >>]],
        !.process = StopAfter("archive")]

\* A fresh run that filters late, and stops early.
Late ==
    [Plain EXCEPT !.filter = Filter({}, TRUE), !.capture.flags = {"no-capture-all-metadata"},
        !.identity.texts.owner = Bare(zed), !.process = [Fresh EXCEPT !.exitAfter = "hash"]]

\* Refused: a filter flag against the level, a pair against itself, sparse
\* copies without a page.
Refused == {[Plain EXCEPT !.compression.filters = {"gzip"}], [Plain EXCEPT !.compression.memlimit = 0],
            [Plain EXCEPT !.capture.flags = {"acls", "no-acls"}], [Plain EXCEPT !.input.inputs = 0],
            [Plain EXCEPT !.input.sparsify = TRUE, !.input.zeroPage = TRUE]}

MCArchiveLines == {Plain, Mapped, Late} \cup Refused

Bare0 ==
    [placement |-> [flags |-> {}, oneTopLevel |-> NULL, linkSource |-> NULL, sidecar |-> "on-error"],
     attributes |-> [flags |-> {}, target |-> "name-id", mode |-> NULL, transform |-> NULL],
     identity |-> NoIdentity, compression |-> [Xz EXCEPT !.extreme = FALSE, !.memlimit = NULL],
     filter |-> Filter({}, FALSE), process |-> Process, sparsify |-> FALSE, zeroPage |-> FALSE,
     absent |-> {}]

With(flags, target) == [Bare0 EXCEPT !.attributes.flags = flags, !.attributes.target = target]
Stored == {"apply-stored-owner-map", "apply-stored-group-map"}

MCExtractLines ==
    {[Bare0 EXCEPT !.process = StopAfter("hash")],
     With({"apply-all-metadata"}, "name-id"),
     With({"apply-all-metadata", "no-apply-stored-owner-map", "no-apply-mode"}, "id-name"),
     With({"same-owner", "same-permissions"}, "ids"),
     With(Stored \cup {"validate-maps", "no-same-owner"}, "names"),
     [With({"validate-maps", "apply-stored-group-map"}, "names") EXCEPT
         !.identity.texts.owner = Bare(bob), !.attributes.mode = minus,
         !.attributes.transform = strip],
     [With({"validate-maps", "same-permissions"}, "ids") EXCEPT
         !.identity.maps.group = << <<Bare(bob), Pair(bob, i3)>> >>, !.process = Fresh],
     [With({"validate-maps"}, "ids") EXCEPT !.identity.texts.owner = Bare(bob)],
     [With({"xattrs"}, "ids") EXCEPT !.process = StopAfter("stage")]}

MCResumeLines == {[jobs |-> NULL, ioJobs |-> 0, exitAfter |-> "dedup"],
                  [jobs |-> 1, ioJobs |-> NULL, exitAfter |-> NULL]}
=============================================================================
