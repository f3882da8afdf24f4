----------------------------- MODULE ArchiveLoader -----------------------------
(***************************************************************************)
(* loadArchivedTemplate: an archive from anywhere is checked from the       *)
(* outside in, first its frame, then the graph in it, and is loaded only    *)
(* if nothing was wrong.                                                   *)
(***************************************************************************)
EXTENDS ArchiveFrame, ArchiveValidator, WellFormedArchive

VARIABLES
    archive,        \* what is loaded
    phase           \* "idle", "loading", "loaded" or "failed"

loader == <<validator, archive, phase>>

LoaderInit == limits \in LimitChoices /\ ValidatorInit /\ archive = Null /\ phase = "idle"

LoadRefusal(a) ==
    IF FrameRefusal(a, limits) # "none" THEN FrameRefusal(a, limits)
    ELSE HeaderRefusal(a.graph, limits, Payload(a))
\* loadArchivedTemplate and readArchive, up to the validation of the graph
Load(a) == phase' = "loading" /\ archive' = a /\ Begin(a.graph, limits, LoadRefusal(a))
FinishLoading ==
    /\ phase = "loading" /\ verdict # "busy"
    /\ phase' = (IF verdict = "valid" THEN "loaded" ELSE "failed")
    /\ UNCHANGED <<validator, archive>>

-----------------------------------------------------------------------------
(* What a frame must be *)

\* The bytes of a table: consecutive, aligned and all of them in the payload.
ValidVector(a, t) ==
    LET v == a.vectors[t]
        begin == VectorAt[t] + v.offset
    IN  /\ v.allocated = v.used /\ ~v.self
        /\ IF v.used = 0 THEN v.offset = NullOffset
           ELSE v.offset # NullOffset /\ begin % Alignment[t] = 0
                /\ {begin, begin + v.used * ElementSize[t]} \subseteq 0..(a.size - PreambleSize)
WellFramed(a) ==
    /\ a.magic /\ a.checksum /\ a.size >= PreambleSize + HeaderSize + GraphSize
    /\ \A t \in DOMAIN ElementSize : ValidVector(a, t)
    /\ a.graph.size = a.size - PreambleSize
Foreign(a) == ~a.generation \/ ~a.fingerprint \/ ~a.typeVersion \/ a.graph.version # "current"

-----------------------------------------------------------------------------
(* Properties *)

\* What loads is current, within its limits, and made of nothing but disjoint trees with
\* strings from its table; what is refused is refused for a reason that it has
\* (README:133-148).
LoadsExactly ==
    /\ phase = "loaded" =>
          /\ WellFramed(archive) /\ ~Foreign(archive) /\ WellFormed(graph)
          /\ archive.size <= limits.bytes
          /\ IsDepth(graph, Depths(graph)) /\ InLimits(graph, limits, Depths(graph))
    /\ phase = "failed" /\ archive # Null =>
          CASE verdict = "invalid" -> ~WellFramed(archive) \/ ~WellFormed(graph)
            [] verdict = "unsupported" -> Foreign(archive)
            [] verdict = "limit" ->
                   \/ archive.size > limits.bytes \/ ~WellFormed(graph)
                   \/ IsDepth(graph, Depths(graph)) /\ ~InLimits(graph, limits, Depths(graph))
            [] OTHER -> FALSE

=============================================================================
