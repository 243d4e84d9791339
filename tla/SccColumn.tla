------------------------------- MODULE SccColumn ------------------------------
(***************************************************************************)
(* scc.prepare and scc.solve_column for one block triangular system.  The  *)
(* manifest of a client is accepted only if its certificate is the one the *)
(* graph has.  A column is then solved block after block along the         *)
(* certified order: each block collects what the solved blocks before it   *)
(* couple into it, splits that by exact tag, solves one particular per     *)
(* tag, and adds homogeneous solutions where a schedule meets a root of    *)
(* equal a and different b (CASE-P).  At the end the path is certified.    *)
(* Those homogeneous solutions are kept for the columns that follow, each  *)
(* with the form of the request that it was made for.                      *)
(*                                                                         *)
(* A solution is the set of its sectors: the chain of blocks a sector came *)
(* along, from which solution in its first block, with its tag (a, b) of   *)
(* t^(a + b eps).  Coefficients are left out.  With domain "acb" the same  *)
(* steps run on enclosures and no certificate is made.                     *)
(***************************************************************************)
EXTENDS SccManifest

CONSTANTS
  Systems,   \* [dim, edges, pole, roots]: dimension, structural edges, the
             \* pole order of the couplings, the indicial roots of a block
  Offers,    \* Offers[dim]: manifests a client may submit
  Forms,     \* what a client may write in accepted fields of a run and its
             \* metadata that nothing pins: the radius as a rational alone or
             \* with its exact identity, an audit base that is null or absent
  Taylor     \* work_t_order

ASSUME SystemsAssumption ==
  \A s \in Systems :
    /\ s.dim \in Nat /\ s.pole \in Nat
    /\ s.roots \subseteq [a : Int, b : Int] /\ IsFiniteSet(s.roots)
    /\ Offers[s.dim] \subseteq Manifests

VARIABLES
  system,    \* the system, and the domain
  offer,     \* the manifest submitted
  step,      \* where the request is
  singular,  \* the column runs as regular-singular
  seed,      \* seed block
  todo,      \* expected_targets still to be solved
  state,     \* state[b]: whether block b is solved, and the sectors of its solution
  fed,       \* fed[b]: the couplings, by index, that were added up for block b
  evidence,  \* validated_schedules: [block, rows, affine, runs]
  deferred,  \* requires_parent_completeness_certificate
  cached,    \* the keys and contracts of pseudo_target_cache_
  refusal    \* the block and form of a request that the cache just refused

columnVars ==
  <<system, offer, step, singular, seed, todo, state, fed, evidence, deferred, cached, refusal>>

Blocks == 1..Len(offer.components)
Unsolved == [sectors |-> {}, solved |-> FALSE]
Sector(chain, root, tag) == [chain |-> chain, root |-> root, tag |-> tag]
Zero == [a |-> 0, b |-> 0]

ColumnInit ==
  /\ system \in {[dim |-> s.dim, edges |-> s.edges, pole |-> s.pole, roots |-> s.roots, domain |-> d] :
                   s \in Systems, d \in {"rational", "acb"}}
  /\ offer \in Offers[system.dim]
  /\ step = "prepare" /\ singular = FALSE /\ seed = 0 /\ todo = {}
  /\ state = <<>> /\ fed = <<>> /\ evidence = <<>> /\ deferred = FALSE
  /\ cached = {} /\ refusal = <<>>

(* parse_composite_scc_chart.                                              *)
Prepare ==
  /\ step = "prepare"
  /\ step' = IF AcceptsManifest(offer, system.dim, system.edges) THEN "idle" ELSE "refused"
  /\ UNCHANGED <<system, offer, singular, seed, todo, state, fed, evidence, deferred, cached, refusal>>

------------------------------------------------------------------------------
(* What the seed reaches, marked block after block in the certified order. *)
Marked(from) ==
  LET marked[k \in 0..Len(offer.order)] ==
        IF k = 0 THEN {from}
        ELSE LET before == marked[k - 1]  b == offer.order[k]
             IN  before \cup (IF b \in before THEN Successors(b, offer.condensation) ELSE {})
  IN  marked[Len(offer.order)]

ExpectedTargets(from) == Marked(from) \ {from}

(* Targets are solved in the certified order.                              *)
Nearest(blocks) ==
  CHOOSE b \in blocks : \A c \in blocks : Position(offer.order, b) <= Position(offer.order, c)

(* Ordinary couplings have no pole; a single ordinary block is no column.  *)
Ordinary      == system.pole = 0 /\ system.roots = {Zero}
RegularReady  == Ordinary /\ Len(offer.components) >= 2
SingularReady == ~Ordinary

(* n >= 0 (n > 0 for a homogeneous run) with a + n a root of another b.    *)
PseudoRoots(tag, homogeneous) ==
  {r \in system.roots : r.b # tag.b /\ r.a - tag.a \in (IF homogeneous THEN 1 ELSE 0)..Taylor}

(* The homogeneous solution of a root brings those its own schedule meets, *)
(* and these theirs.                                                       *)
HomogeneousFamily(r) ==
  {t \in system.roots :
     \A S \in SUBSET system.roots :
       r \in S /\ (\A s \in S : PseudoRoots(s, TRUE) \subseteq S) => t \in S}

(* The cache is asked under block and component with the whole run and its *)
(* metadata, which are copies of what the client sent with the request:    *)
(* tag, schedule and initial values are replaced, the probe policy is      *)
(* forced, the orders are the retained ones, the rest stays as sent.       *)
\* Mutant: the policy of the run that meets the root, which a seed disables.
TargetContractInherits(homogeneous, form) == [probe |-> ~homogeneous, order |-> Taylor, form |-> form]
TargetContract(homogeneous, form) == [probe |-> TRUE, order |-> Taylor, form |-> form]

Asked(b, tag, homogeneous, form) ==
  UNION {{<<b, s, TargetContract(homogeneous, form)>> : s \in HomogeneousFamily(r)} :
           r \in PseudoRoots(tag, homogeneous)}

(* No two contracts under one key.                                         *)
Consistent(entries) ==
  \A x, y \in entries : x[1] = y[1] /\ x[2] = y[2] => x[3] = y[3]

(* An entry is published after those that its own schedule met.            *)
FamiliesIn(built, entries) ==
  \A x \in built : \A s \in HomogeneousFamily(x[2]) : <<x[1], s, x[3]>> \in entries

(* What a request that fails had solved is gone, but not what it had built *)
(* for the cache: it may have met any of its roots before.                 *)
Dropped(asked) ==
  /\ singular' = FALSE /\ seed' = 0 /\ todo' = {} /\ state' = <<>> /\ fed' = <<>>
  /\ evidence' = <<>> /\ deferred' = FALSE
  /\ \E built \in SUBSET asked :
       /\ cached' = cached \cup built
       /\ Consistent(cached \cup built) /\ FamiliesIn(built, cached \cup built)
  /\ UNCHANGED <<system, offer>>

Fails(asked) == step' = "failed" /\ refusal' = <<>> /\ Dropped(asked)

(* A request for block b that meets an entry under another contract ends   *)
(* there (E5).                                                             *)
RefusedByCache(b, form, asked) ==
  /\ ~Consistent(cached \cup asked)
  /\ step' = "contract-changed" /\ refusal' = <<b, form>> /\ Dropped(asked)

(* The particular of a tag, and the homogeneous solutions that compensate  *)
(* its CASE-P hits; they begin in this block.                              *)
Solved(b, group, tag, homogeneous) ==
  group \cup {Sector(<<b>>, r, r) :
                r \in UNION {HomogeneousFamily(s) : s \in PseudoRoots(tag, homogeneous)}}

(* One evidence for each block, with the number of its tag schedules.      *)
Evidence(b, affine, runs) == [block |-> b, rows |-> Taylor + 1, affine |-> affine, runs |-> runs]

Witnessed(log, b, affine, runs) ==
  IF \E i \in 1..Len(log) : log[i].block = b
  THEN [i \in 1..Len(log) |-> IF log[i].block = b THEN [log[i] EXCEPT !.runs = @ + runs] ELSE log[i]]
  ELSE Append(log, Evidence(b, affine, runs))

Validated(log, b, affine, runs) ==
  IF system.domain = "acb" THEN log ELSE Witnessed(log, b, affine, runs)

(* The seed: a root of the seed block, solved homogeneously.  Columns are  *)
(* solved one after another; the cache belongs to the composite chart.  A  *)
(* run that does not fit the retained work contract, or windows that are   *)
(* too small for it, end the request, here and at a target.                *)
SeedCompleted(b, r, asked) ==
  /\ Consistent(cached \cup asked)
  /\ step' = "targets" /\ singular' = ~RegularReady
  /\ seed' = b /\ todo' = ExpectedTargets(b)
  /\ cached' = cached \cup asked /\ refusal' = <<>>
  /\ state' = [c \in Blocks |->
                 IF c = b THEN [sectors |-> Solved(b, {Sector(<<b>>, r, r)}, r, TRUE), solved |-> TRUE]
                 ELSE Unsolved]
  /\ fed' = [c \in Blocks |-> {}]
  /\ evidence' = Validated(<<>>, b, ~RegularReady, 1)
  /\ deferred' \in (IF ~RegularReady /\ system.domain = "rational" THEN BOOLEAN ELSE {FALSE})
  /\ UNCHANGED <<system, offer>>

SolveSeed(b, r, form) ==
  LET asked == Asked(b, r, TRUE, form) IN
  /\ step \in {"idle", "done", "failed", "contract-changed"} /\ b \in Blocks
  /\ IF RegularReady \/ SingularReady
     THEN SeedCompleted(b, r, asked) \/ RefusedByCache(b, form, asked) \/ Fails(asked)
     ELSE Fails({})

------------------------------------------------------------------------------
(* Couplings into a block.  A block without a state contributes nothing:   *)
(* nothing else asks whether it was to be solved before.                   *)
Couplings(b) ==
  {i \in 1..Len(offer.couplings) : offer.couplings[i].to = b /\ state[offer.couplings[i].from].solved}

(* A pole of the coupling lowers the tag.                                  *)
Coupled(s, b) ==
  {Sector(Append(x.chain, b), x.root, [x.tag EXCEPT !.a = @ - system.pole]) :
     x \in state[s].sectors}

Source(b) == UNION {Coupled(offer.couplings[i].from, b) : i \in Couplings(b)}

TagsOf(sectors) == {x.tag : x \in sectors}
Group(sectors, tag) == {x \in sectors : x.tag = tag}

(* One particular for each tag: sectors of other tags need other schedules.*)
Particulars(b, sectors) ==
  UNION {Solved(b, Group(sectors, tag), tag, FALSE) : tag \in TagsOf(sectors)}

(* A target is sent as a request of its own, which has its own form.  A    *)
(* regular column solves it without the cache.                             *)
AskedFor(b, form) ==
  IF singular THEN UNION {Asked(b, tag, FALSE, form) : tag \in TagsOf(Source(b))} ELSE {}

TargetCompleted(b, asked) ==
  /\ Consistent(cached \cup asked) /\ cached' = cached \cup asked
  /\ state' = [state EXCEPT ![b] =
       [sectors |-> IF singular THEN Particulars(b, Source(b)) ELSE Source(b), solved |-> TRUE]]
  /\ fed' = [fed EXCEPT ![b] = Couplings(b)]
  /\ evidence' = Validated(evidence, b, singular, Cardinality(TagsOf(Source(b))))
  /\ \E needed \in (IF singular /\ system.domain = "rational" THEN BOOLEAN ELSE {FALSE}) :
       deferred' = (deferred \/ needed)
  /\ todo' = todo \ {b}
  /\ UNCHANGED <<system, offer, step, singular, seed, refusal>>

SolveTarget(form) ==
  LET b == Nearest(todo)  asked == AskedFor(b, form) IN
  /\ step = "targets" /\ todo # {}
  /\ IF Source(b) = {} THEN Fails({})
     ELSE TargetCompleted(b, asked) \/ RefusedByCache(b, form, asked) \/ Fails(asked)

(* certify_column_uniqueness_path: the path once more, from the graph, and *)
(* one evidence for each block on it.                                      *)
UniquePath ==
  /\ \A i, j \in 1..Len(offer.couplings) : Pairs(offer)[i] = Pairs(offer)[j] => i = j
  /\ Range(Pairs(offer)) = offer.condensation
  /\ \A b \in Blocks : state[b].solved <=> b \in Marked(seed)
  /\ \A i \in 1..Len(evidence) :
       /\ evidence[i].block \in Marked(seed) /\ evidence[i].rows = Taylor + 1
       /\ evidence[i].affine = singular /\ evidence[i].runs # 0
       /\ \A j \in 1..Len(evidence) : evidence[j].block = evidence[i].block => i = j
  /\ Len(evidence) = Cardinality(Marked(seed))

(* The residual of a deferred parent is proved first; that, or a check of  *)
(* the column, may fail.                                                   *)
Finish ==
  /\ step = "targets" /\ todo = {}
  /\ \/ Fails({})
     \/ /\ step' = IF deferred /\ ~UniquePath THEN "path-lost" ELSE "done"
        /\ UNCHANGED <<system, offer, singular, seed, todo, state, fed, evidence, deferred, cached, refusal>>

ColumnNext ==
  \/ Prepare \/ Finish
  \/ \E b \in 1..system.dim, r \in system.roots, form \in Forms : SolveSeed(b, r, form)
  \/ \E form \in Forms : SolveTarget(form)

ColumnSpec == ColumnInit /\ [][ColumnNext]_columnVars

------------------------------------------------------------------------------
(* A manifest that was accepted tells the truth of its system: vertices of *)
(* one block, and only those, lead to each other; the coupling depth, from *)
(* which the orders are budgeted, is that of the longest chain there is;   *)
(* and charts and couplings together hold each entry of the parent matrix  *)
(* once and nothing else.                                                  *)
BlocksAreMutual ==
  \A v, w \in 1..system.dim :
    BlockOf(offer.components, v) = BlockOf(offer.components, w) <=> Mutual(v, w, system.dim, system.edges)

EntriesOnce ==
  \A v, w \in 1..system.dim : Places(offer, <<v, w>>) = IF <<v, w>> \in system.edges THEN 1 ELSE 0

DepthIsLongest ==
  LET all == Chains(Len(offer.components), offer.condensation) IN
  /\ \A p \in all : Len(p) - 1 <= offer.depth
  /\ \E p \in all : Len(p) - 1 = offer.depth

TrueManifest ==
  step # "prepare" /\ step # "refused" => BlocksAreMutual /\ EntriesOnce /\ DepthIsLongest

(* A column that is published holds, in every block and along every chain  *)
(* of couplings from the seed, the seed's contribution exactly once, with  *)
(* the tag that chain gives it; each block was fed by each neighbour that  *)
(* the seed leads to once; and the final certificate does not reject what  *)
(* an accepted manifest led to.  The cache of homogeneous solutions, which *)
(* belong to the composite and to no column, refuses a request only over   *)
(* what its client wrote: it holds a solution of that block which a client *)
(* asked for in another form, never one that differs only by which column  *)
(* or which of its requests met the root first.                            *)
FromSeed(b) == ChainsFrom(seed, b, Len(offer.components), offer.condensation)

HoldsChains(b) ==
  /\ {x.chain : x \in {x \in state[b].sectors : x.chain[1] = seed}} = FromSeed(b)
  /\ \A x \in state[b].sectors :
       x.tag = [x.root EXCEPT !.a = @ - system.pole * (Len(x.chain) - 1)]

FedOnce(b) ==
  /\ \A i, j \in fed[b] : Pairs(offer)[i] = Pairs(offer)[j] => i = j
  /\ {Pairs(offer)[i] : i \in fed[b]} = {e \in offer.condensation : e[2] = b /\ FromSeed(e[1]) # {}}

RefusedOverForm ==
  step = "contract-changed" =>
    \E x \in cached : x[1] = refusal[1] /\ x[3].form # refusal[2]

EveryChainOnce ==
  /\ step # "path-lost" /\ RefusedOverForm
  /\ step = "done" => \A b \in Blocks : HoldsChains(b) /\ FedOnce(b)
===============================================================================
