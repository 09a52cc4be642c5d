---------------------------- MODULE NginxCluster ----------------------------
(***************************************************************************)
(* The configuration of a cluster of nginx instances.                      *)
(*   nginx      NginxQuorumEngine and NginxConfigDistributor: validators   *)
(*              vote on configurations, an approved one is deployed to all *)
(*              instances, checked and recorded, or rolled back            *)
(*   nginxconf  NginxConfigValidator: the parser of block bodies           *)
(*                                                                         *)
(* The distributor resolves the vote before it takes its lock, deploys     *)
(* under the lock, checks the instances without it and takes it again to   *)
(* record or to roll back.  What runs on an instance is set by deploy_func *)
(* alone, which no rollback calls.  Votes lapse after the TTL: when is     *)
(* left open.                                                              *)
(***************************************************************************)
EXTENDS Integers, FiniteSets

CONSTANTS
  Configs,     \* config hashes
  Validators,  \* the validators that vote
  Threshold,   \* quorum_threshold: more than half
  Verdicts,    \* ValidatorVerdict, or some of them
  MaxVotes,    \* bound: votes cast
  Cluster,     \* number of nginx instances
  Callers,     \* threads that distribute
  MaxRuns,     \* bound: calls of distribute
  MaxNesting,  \* max_nesting
  MaxTokens,   \* bound: tokens of a source
  None

VARIABLES
  engine,
  votes,       \* _proposals: verdict of each validator, "lapsed" after the TTL
  cast,        \* bound: votes so far
  approved,    \* history: configs that were approved when a distribution asked
  running,     \* external: what deploy_func has put on each instance
  current,     \* _instance_states: current_hash
  previous,    \* _instance_states: previous_hash
  proven,      \* history: configs found running and healthy on all instances
  job,         \* per caller: config, phase and instances of its distribution
  begun,       \* bound: calls of distribute
  depth,       \* nesting of the block body being parsed, None after the end
  pending,     \* current_args is not empty
  opened,      \* history: opening and closing braces so far
  verdict      \* "reading", "accepted", "error"

voteVars  == <<votes, cast>>
runVars   == <<approved, running, current, previous, proven, job, begun>>
parseVars == <<depth, pending, opened, verdict>>
vars      == <<voteVars, runVars, parseVars>>

Engines   == {"nginx", "nginxconf"}
Instances == 1..Cluster
Idle    == [phase |-> "idle", config |-> None, done |-> {}]

Start ==
  /\ votes = [c \in Configs |-> [v \in Validators |-> None]] /\ cast = 0
  /\ approved = {} /\ running = [i \in Instances |-> None]
  /\ current = [i \in Instances |-> None] /\ previous = [i \in Instances |-> None]
  /\ proven = {} /\ job = [t \in Callers |-> Idle] /\ begun = 0
  /\ depth = 0 /\ pending = FALSE /\ opened = <<0, 0>> /\ verdict = "reading"

-----------------------------------------------------------------------------
(* NginxQuorumEngine *)

\* submit_vote: a later vote of a validator replaces its earlier one.
SubmitVote(c, v, x) ==
  /\ engine = "nginx" /\ cast < MaxVotes
  /\ votes' = [votes EXCEPT ![c][v] = x] /\ cast' = cast + 1
  /\ UNCHANGED <<runVars, parseVars>>

\* vote_count leaves out votes older than the TTL.
VoteLapses(c, v) ==
  /\ engine = "nginx" /\ votes[c][v] \notin {None, "lapsed"}
  /\ votes' = [votes EXCEPT ![c][v] = "lapsed"]
  /\ UNCHANGED <<cast, runVars, parseVars>>

PurgeProposal(c) ==
  /\ engine = "nginx" /\ \E v \in Validators : votes[c][v] # None
  /\ votes' = [votes EXCEPT ![c] = [v \in Validators |-> None]]
  /\ UNCHANGED <<cast, runVars, parseVars>>

VoteCount(c, x) == Cardinality({v \in Validators : votes[c][v] = x})

\* FAULT: a quorum of votes cast, whatever they are.
CountsVoters(c) == Cardinality({v \in Validators : votes[c][v] # None}) >= Threshold

Approved(c) == VoteCount(c, "accept") >= Threshold

-----------------------------------------------------------------------------
(* NginxConfigDistributor *)

\* distribute: without APPROVED it only fails.
Distribute(t, c) ==
  /\ engine = "nginx" /\ job[t].phase = "idle" /\ begun < MaxRuns
  /\ Approved(c)
  /\ begun' = begun + 1
  /\ approved' = IF VoteCount(c, "accept") >= Threshold THEN approved \cup {c} ELSE approved
  /\ job' = [job EXCEPT ![t] = [phase |-> "resolved", config |-> c, done |-> {}]]
  /\ UNCHANGED <<voteVars, running, current, previous, proven, parseVars>>

\* Deploys one instance after the other under the lock, up to the first failure.
Deploy(t, reached) ==
  /\ engine = "nginx" /\ job[t].phase = "resolved"
  /\ running' = [i \in Instances |-> IF i <= reached THEN job[t].config ELSE running[i]]
  /\ job' = [job EXCEPT ![t].phase = IF reached = Cluster THEN "deployed" ELSE "failing",
                         ![t].done = 1..reached]
  /\ UNCHANGED <<voteVars, approved, current, previous, proven, begun, parseVars>>

\* FAULT: what the health checks say is not heeded.
Heedless(healthy) == TRUE

Passed(healthy) == healthy

\* The health checks run without the lock.
Healthcheck(t, healthy) ==
  /\ engine = "nginx" /\ job[t].phase = "deployed"
  /\ job' = [job EXCEPT ![t].phase = IF Passed(healthy) THEN "healthy" ELSE "failing"]
  /\ proven' = IF healthy THEN proven \cup {job[t].config} ELSE proven
  /\ UNCHANGED <<voteVars, approved, running, current, previous, begun, parseVars>>

Record(t) ==
  /\ engine = "nginx" /\ job[t].phase = "healthy"
  /\ previous' = current
  /\ current' = [i \in Instances |-> job[t].config]
  /\ job' = [job EXCEPT ![t] = Idle]
  /\ UNCHANGED <<voteVars, approved, running, proven, begun, parseVars>>

\* FAULT: the rollback also takes the hash of the other instances for one of its own.
RolledBackAll(done) == [i \in Instances |-> IF done # {} THEN previous[i] ELSE current[i]]

RolledBack(done) ==
  [i \in Instances |-> IF i \in done /\ previous[i] # None THEN previous[i] ELSE current[i]]

\* _rollback turns the record of the deployed instances back by one configuration,
\* although the failed one was never recorded, and deploys nothing.
Rollback(t) ==
  /\ engine = "nginx" /\ job[t].phase = "failing"
  /\ current' = RolledBack(job[t].done)
  /\ previous' = [i \in Instances |-> IF i \in job[t].done THEN None ELSE previous[i]]
  /\ job' = [job EXCEPT ![t] = Idle]
  /\ UNCHANGED <<voteVars, approved, running, proven, begun, parseVars>>

\* force_rollback: of the instances recorded with the configuration.
ForceRollback(c) ==
  /\ engine = "nginx"
  /\ LET done == {i \in Instances : current[i] = c}
     IN  /\ current' = RolledBack(done)
         /\ previous' = [i \in Instances |-> IF i \in done THEN None ELSE previous[i]]
  /\ UNCHANGED <<voteVars, approved, running, proven, job, begun, parseVars>>

-----------------------------------------------------------------------------
(* NginxConfigValidator._parse_block_body, one token at a time *)

Reading == engine = "nginxconf" /\ verdict = "reading" /\ opened[1] + opened[2] < MaxTokens

ReadWord ==
  /\ Reading /\ depth # None
  /\ pending' = TRUE
  /\ UNCHANGED <<voteVars, runVars, depth, opened, verdict>>

ReadSemicolon ==
  /\ Reading /\ depth # None
  /\ IF pending THEN pending' = FALSE /\ UNCHANGED verdict
                ELSE verdict' = "error" /\ UNCHANGED pending
  /\ UNCHANGED <<voteVars, runVars, depth, opened>>

ReadOpen ==
  /\ Reading /\ depth # None
  /\ IF pending /\ depth < MaxNesting
       THEN /\ depth' = depth + 1 /\ pending' = FALSE
            /\ opened' = <<opened[1] + 1, opened[2]>> /\ UNCHANGED verdict
       ELSE verdict' = "error" /\ UNCHANGED <<depth, pending, opened>>
  /\ UNCHANGED <<voteVars, runVars>>

\* A closing brace ends the body, that of the root too: then no token may follow.
ReadClose ==
  /\ Reading /\ depth # None
  /\ IF pending
       THEN verdict' = "error" /\ UNCHANGED <<depth, opened>>
       ELSE /\ depth' = IF depth = 0 THEN None ELSE depth - 1
            /\ opened' = <<opened[1], opened[2] + 1>> /\ UNCHANGED verdict
  /\ UNCHANGED <<voteVars, runVars, pending>>

ReadAfterEnd ==
  /\ Reading /\ depth = None
  /\ verdict' = "error"
  /\ UNCHANGED <<voteVars, runVars, depth, pending, opened>>

\* FAULT: the end of the source closes all blocks.
EndsAnywhere == ~pending

EndsWell == ~pending /\ (depth # None => depth = 0)

EndOfSource ==
  /\ engine = "nginxconf" /\ verdict = "reading"
  /\ verdict' = IF EndsWell THEN "accepted" ELSE "error"
  /\ UNCHANGED <<voteVars, runVars, depth, pending, opened>>

ParseNext ==
  /\ engine = "nginxconf" /\ verdict # "reading"
  /\ depth' = 0 /\ pending' = FALSE /\ opened' = <<0, 0>> /\ verdict' = "reading"
  /\ UNCHANGED <<voteVars, runVars>>

Next ==
  \/ \E c \in Configs :
       \/ \E v \in Validators : VoteLapses(c, v) \/ \E x \in Verdicts : SubmitVote(c, v, x)
       \/ PurgeProposal(c) \/ ForceRollback(c)
       \/ \E t \in Callers : Distribute(t, c)
  \/ \E t \in Callers : \/ Record(t) \/ Rollback(t)
                        \/ \E reached \in 0..Cluster : Deploy(t, reached)
                        \/ \E healthy \in BOOLEAN : Healthcheck(t, healthy)
  \/ ReadWord \/ ReadSemicolon \/ ReadOpen \/ ReadClose \/ ReadAfterEnd \/ EndOfSource \/ ParseNext

-----------------------------------------------------------------------------
(* Properties *)

\* Whatever votes lapse or change between the answer of the quorum and the deployment:
\* no instance runs a configuration that no quorum of accepts has approved, and the
\* record names only configurations that ran, healthy, on all instances, after any
\* mix of rollbacks.
RecordedIsProven ==
  engine = "nginx" => \A i \in Instances :
    /\ running[i] \in approved \cup {None}
    /\ current[i] \in proven \cup {None} /\ previous[i] \in proven \cup {None}

\* The parser accepts balanced blocks only, but for one closing brace too many at the
\* very end, which it takes for the end of the root.
AcceptedIsBalanced ==
  engine = "nginxconf" /\ verdict = "accepted" =>
    \/ opened[1] = opened[2] /\ depth = 0
    \/ opened[2] = opened[1] + 1 /\ depth = None
=============================================================================
