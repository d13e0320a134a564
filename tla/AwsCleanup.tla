------------------------------ MODULE AwsCleanup ------------------------------
(***************************************************************************)
(* scripts/cleanup_aws_leftovers.sh --yes, started by the operator once    *)
(* nothing of a test run (AwsTestRun) is alive any more: region after      *)
(* region it terminates instances and deletes security groups and key      *)
(* pairs, then the roles and profiles of IAM, which are global, then the   *)
(* artifacts in S3.                                                        *)
(***************************************************************************)
EXTENDS AwsTestRun

CONSTANT RegionList     \* the regions, in the order of resolve_regions

ASSUME RegionListAssumption ==
    /\ RegionList \in Seq(Regions) /\ RegionList # <<>>
    /\ {RegionList[k] : k \in DOMAIN RegionList} = Regions

VARIABLES
    phase,      \* where the script is
    index,      \* the index of its region
    unclean     \* history: the kinds and places in which a call of the script failed

cleanupVars == <<phase, index, unclean>>
testVars == <<flags, mainVars, suite, benchVars, mon, env, faults>>
allVars == <<vars, cleanupVars>>

LifecycleTypeOK ==
    /\ TypeOK
    /\ phase \in {"off", "instance", "group", "key", "iam", "s3", "done", "aborted"}
    /\ index \in 1..Len(RegionList)
    /\ unclean \subseteq {"group", "key", "iam", "s3"} \X (Regions \union {"global"})

LifecycleInit ==
    /\ Init
    /\ phase = "off" /\ index = 1 /\ unclean = {}

\* Assumption on the operator: nothing of the run is alive.
AtRest ==
    Over /\ \A c \in Cases :
        bench[c] \notin Steps /\ mon[c] # "running" /\ suite[c] \in Finished \union {"idle", "gone"}

Start ==
    /\ phase = "off" /\ AtRest
    /\ phase' = "instance"
    /\ UNCHANGED <<vars, index, unclean>>

Here == RegionList[index]
Having(kind, place) == {c \in Cases : <<kind, place>> \in cloud[c]}

\* Removes what there is of a kind in a place, but not of the cases in Left, for
\* which a call of the script fails.
DeleteAllBut(Left, kind, place) ==
    /\ cloud' = [c \in Cases |-> IF c \in Left THEN cloud[c] ELSE cloud[c] \ {<<kind, place>>}]
    /\ unclean' = IF Left = {} THEN unclean ELSE unclean \union {<<kind, place>>}

\* terminate_instances_in_region, which waits for them but goes on when that fails.
TerminateInstances ==
    /\ phase = "instance" /\ Having("instance", Here) # {}
    /\ DeleteAllBut({}, "instance", Here)
    /\ phase' = "group"
    /\ UNCHANGED <<testVars, objects, index>>

\* A region without instances is not skipped: ids=("${UNIQUE_LIST[@]-}") has one
\* empty element then, the empty id makes terminate-instances fail, and set -e ends
\* the script, as it does when the call fails for another reason.
TerminateFails ==
    /\ phase = "instance"
    /\ phase' = "aborted"
    /\ UNCHANGED <<vars, index, unclean>>

\* delete_sg_in_region.  Groups that are still in use in all three passes (waiting for
\* the instances may have failed) get a warning; if the list of groups cannot be
\* fetched there are none (|| true).
DeleteGroups ==
    /\ phase = "group"
    /\ \E Left \in SUBSET Having("group", Here) : DeleteAllBut(Left, "group", Here)
    /\ phase' = "key"
    /\ UNCHANGED <<testVars, objects, index>>

\* Mutant: the loop over the regions leaves out the last one.
DeleteKeyPairs_NotLast ==
    /\ phase = "key"
    /\ DeleteAllBut({}, "key", Here)
    /\ IF index + 1 >= Len(RegionList) THEN phase' = "iam" /\ UNCHANGED index
                                    ELSE phase' = "instance" /\ index' = index + 1
    /\ UNCHANGED <<testVars, objects>>

\* delete_key_pairs_in_region.  (Where there were instances there are key pairs:
\* Terraform destroys an instance before the key that it refers to.)
DeleteKeyPairs ==
    /\ phase = "key"
    /\ DeleteAllBut({}, "key", Here)
    /\ IF index = Len(RegionList) THEN phase' = "iam" /\ UNCHANGED index
                               ELSE phase' = "instance" /\ index' = index + 1
    /\ UNCHANGED <<testVars, objects>>

\* A delete-key-pair that fails ends the script (set -e); some were deleted before.  A
\* list that cannot be fetched is, again, that of one empty name, and fails.
DeleteKeyPairFails ==
    /\ phase = "key"
    /\ \E Left \in SUBSET Having("key", Here) : DeleteAllBut(Left, "key", Here)
    /\ phase' = "aborted"
    /\ UNCHANGED <<testVars, objects, index>>

\* cleanup_iam_global, where every failure is ignored.
CleanupIam ==
    /\ phase = "iam"
    /\ \E Left \in SUBSET Having("iam", "global") : DeleteAllBut(Left, "iam", "global")
    /\ phase' = "s3"
    /\ UNCHANGED <<testVars, objects, index>>

\* cleanup_s3_artifacts: a failure is a warning.
CleanupArtifacts ==
    /\ phase = "s3"
    /\ \/ objects' = [c \in Cases |-> FALSE] /\ UNCHANGED unclean
       \/ unclean' = unclean \union {<<"s3", "global">>} /\ UNCHANGED objects
    /\ phase' = "done"
    /\ UNCHANGED <<testVars, cloud, index>>

CleanupStep ==
    \/ TerminateInstances \/ TerminateFails \/ DeleteGroups
    \/ DeleteKeyPairs \/ DeleteKeyPairFails \/ CleanupIam \/ CleanupArtifacts

\* The run goes on until the operator starts the cleanup.
RunStep == phase = "off" /\ Next /\ UNCHANGED cleanupVars

LifecycleNext == RunStep \/ Start \/ CleanupStep

LifecycleSpec ==
    /\ LifecycleInit
    /\ [][LifecycleNext]_allVars
    /\ WF_allVars((phase = "off" /\ Progress /\ UNCHANGED cleanupVars) \/ CleanupStep)

-----------------------------------------------------------------------------
(* Properties                                                              *)

\* A cleanup that says it completed has removed all that the run left, in every
\* region, in IAM and in S3, but for the very kinds and places in which a call of it
\* failed, and no instance.
CompletedMeansClean ==
    phase = "done" =>
        \A c \in Cases :
            /\ cloud[c] \subseteq unclean
            /\ objects[c] => <<"s3", "global">> \in unclean

=============================================================================
