---------------------------- MODULE PCVSimplify ----------------------------
(****************************************************************************)
(* PCV_OT_filter_simplify.resample: samples of a cloud, each the most distant *)
(* of some candidates.  The pool is shuffled: which candidate it is is open.  *)
(* (scripts/calibration/space_view3d_point_cloud_visualizer.py)               *)
(****************************************************************************)
EXTENDS Naturals, SequencesExt

CONSTANTS
    MaxPool,      \* bound: points of the cloud
    Candidates    \* values of filter_simplify_num_candidates

ASSUME SimplifyAssumption == MaxPool \in Nat /\ Candidates \subseteq Nat \ {0}

VARIABLES
    job,          \* [length, num_samples, candidates], or the empty sequence
    samples,      \* indexes into the pool, in the order of sampling
    last_used,
    unused_pool   \* candidates that were not chosen

simplifyVars == <<job, samples, last_used, unused_pool>>

SimplifyInit == job = << >> /\ samples = << >> /\ last_used = 0 /\ unused_pool = << >>

(* The first point of the pool is the first sample.                           *)
Simplify ==
    /\ job = << >>
    /\ \E length \in 2 .. MaxPool, candidates \in Candidates :
          \E num_samples \in 1 .. length - 1 :
              job' = [length |-> length, num_samples |-> num_samples, candidates |-> candidates]
    /\ samples' = <<0>>
    /\ UNCHANGED <<last_used, unused_pool>>

(* pool[last_used + 1:last_used + 1 + candidates]                             *)
next_points ==
    [i \in 1 .. Min({job.candidates, job.length - Min({job.length, last_used + 1})}) |-> last_used + i]

cands ==
    IF next_points # << >> THEN next_points
    ELSE SubSeq(unused_pool, 1, Min({job.candidates, Len(unused_pool)}))

(* Mutation: the candidates that were not chosen are forgotten.               *)
MutForget(rest, maxi) == rest

(* Mutation: the chosen one is recycled with the others.                      *)
MutRecycleAll(rest, maxi) == rest \o cands

recycled(rest, maxi) == rest \o RemoveAt(cands, maxi)

(* One round: the loop ends early when nothing is left to choose from.        *)
Sample ==
    /\ job # << >> /\ Len(samples) < job.num_samples
    /\ \E maxi \in DOMAIN cands :
          /\ samples' = Append(samples, cands[maxi])
          /\ unused_pool' = recycled(IF next_points # << >> THEN unused_pool
                                     ELSE SubSeq(unused_pool, Len(cands) + 1, Len(unused_pool)),
                                     maxi)
    /\ last_used' = last_used + 1 + job.candidates
    /\ UNCHANGED job

SimplifyNext == Simplify \/ Sample

SimplifySpec == SimplifyInit /\ [][SimplifyNext]_simplifyVars

-----------------------------------------------------------------------------
(* No point is sampled twice, though candidates come back from unused_pool.   *)
SamplesDistinct == Cardinality(ToSet(samples)) = Len(samples)

(* resample returns: it has its samples, or nothing is left to choose from.   *)
Returns == job # << >> /\ (Len(samples) = job.num_samples \/ cands = << >>)

(* The points that no slice of the pool contains: last_used moves on by one   *)
(* more than a slice is long.                                                 *)
gaps == {j * (job.candidates + 1) : j \in 1 .. job.length}

(* Out of candidates before num_samples are found ("number of desired samples *)
(* was too close to total of points"), every point of the cloud is a sample   *)
(* but the ones in the gaps: what was not chosen has come back from           *)
(* unused_pool, and nothing else is skipped.  bl_description promises more,   *)
(* an "exact number of evenly distributed samples, all loaded points are      *)
(* processed", which the early return and the gaps do not keep.               *)
OnlyGapsMissing ==
    Returns /\ Len(samples) < job.num_samples =>
        ToSet(samples) = (0 .. job.length - 1) \ gaps
=============================================================================
