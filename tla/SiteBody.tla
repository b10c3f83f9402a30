----------------------------- MODULE SiteBody -----------------------------
(***************************************************************************)
(* From the blocks of a configuration to a compiled site: the expansion of *)
(* a group into one site per tenant (internal/cadishfile/group.go), and    *)
(* the part of Compile that names things: matchers, normalizers, and the   *)
(* classifiers and classify matchers that may depend on each other in any  *)
(* order (internal/pipeline/compile.go, passes 1, 1b and 1c).              *)
(*                                                                         *)
(* A node of a body is a record:                                           *)
(*   [t |-> "matcher", name, type, refs]  type is "plain", "response" (a   *)
(*       plain matcher of the response phase), "classify" (refs is the set *)
(*       with the token it tests) or "all" (refs are matcher names);       *)
(*   [t |-> "dir", name, arg, refs]  a directive: refs are the matchers of *)
(*       a classify's rows, arg its first argument;                        *)
(*   [t |-> "tenant", name, hosts, body]  in a group only.                 *)
(***************************************************************************)
EXTENDS Integers, FiniteSets, SequencesExt

Matcher(name, type, refs) == [t |-> "matcher", name |-> name, type |-> type, refs |-> refs]
Dir(name, arg, refs) == [t |-> "dir", name |-> name, arg |-> arg, refs |-> refs]
Tenant(name, hosts, body) == [t |-> "tenant", name |-> name, hosts |-> hosts, body |-> body]

-----------------------------------------------------------------------------
(* Group expansion *)

SingletonGroupDirectives == {"cache", "cache_key", "tls", "cors", "device_detect", "geo", "tenant"}
NamedGroupDirectives == {"upstream", "cluster", "normalize"}

\* Mutant: a matcher of the tenant does not replace the base's.
KeepMatchers(n, overrides) ==
  \E i \in DOMAIN overrides : LET o == overrides[i] IN
    /\ n.t = "dir" /\ o.t = "dir" /\ n.name = o.name
    /\ n.name \in SingletonGroupDirectives \/ (n.name \in NamedGroupDirectives /\ n.arg = o.arg)

\* The base node that an override of the tenant replaces.
Overridden(n, overrides) ==
  \E i \in DOMAIN overrides : LET o == overrides[i] IN
    \/ n.t = "matcher" /\ o.t = "matcher" /\ n.name = o.name
    \/ /\ n.t = "dir" /\ o.t = "dir" /\ n.name = o.name
       /\ n.name \in SingletonGroupDirectives \/ (n.name \in NamedGroupDirectives /\ n.arg = o.arg)

MergeBaseTenant(base, overrides, name) ==
  <<Dir("tenant", name, {})>> \o overrides \o SelectSeq(base, LAMBDA n : ~Overridden(n, overrides))

\* expandGroup: << >> is the error (no tenant, a tenant twice, a tenant without hosts).
ExpandGroup(body) ==
  LET tenants == SelectSeq(body, LAMBDA n : n.t = "tenant")
      base == SelectSeq(body, LAMBDA n : n.t # "tenant")
      bad == \/ \E i, j \in DOMAIN tenants : i # j /\ tenants[i].name = tenants[j].name
             \/ \E i \in DOMAIN tenants : tenants[i].hosts = {}
  IN IF bad THEN << >>
     ELSE [i \in DOMAIN tenants |->
            [hosts |-> tenants[i].hosts,
             body |-> MergeBaseTenant(base, tenants[i].body, tenants[i].name)]]

-----------------------------------------------------------------------------
(* Compile, pass 1: plain matchers and normalizers are built, the rest is  *)
(* deferred.  A matcher is compared with the plain ones before it.         *)

Empty == [err |-> FALSE, kinds |-> << >>, norms |-> {}, tokens |-> {},
          dirs |-> << >>, mdefs |-> << >>, alls |-> << >>]
Failed(p) == [p EXCEPT !.err = TRUE]

AddKind(p, name, kind) ==
  [p EXCEPT !.kinds = [n \in DOMAIN @ \cup {name} |-> IF n = name THEN kind ELSE @[n]]]

CollectOne(p, n) ==
  CASE p.err -> p
    [] n.t = "matcher" /\ n.name \in DOMAIN p.kinds -> Failed(p)
    [] n.t = "matcher" /\ n.type = "classify" -> [p EXCEPT !.mdefs = Append(@, n)]
    [] n.t = "matcher" /\ n.type = "all" -> [p EXCEPT !.alls = Append(@, n)]
    [] n.t = "matcher" -> AddKind(p, n.name, n.type)
    [] n.t = "dir" /\ n.name = "normalize" ->
         IF n.arg \in p.norms THEN Failed(p) ELSE [p EXCEPT !.norms = @ \cup {n.arg}]
    [] n.t = "dir" /\ n.name = "classify" -> [p EXCEPT !.dirs = Append(@, n)]
    [] OTHER -> p

Collect(body) == FoldLeft(CollectOne, Empty, body)

-----------------------------------------------------------------------------
(* Pass 1b, resolveClassifyDeps: rounds over the deferred items, each      *)
(* compiling what is ready, until none is left or a round compiles none.   *)

\* What is still to be built, of the given kind.
Pending(items, p) ==
  [matchers |-> {items[i].name : i \in {j \in DOMAIN items : items[j].t = "matcher"}} \ DOMAIN p.kinds,
   tokens |-> {items[i].arg : i \in {j \in DOMAIN items : items[j].t = "dir"}} \ p.tokens]

\* Mutant: nothing is waited for.
SourceOrder(it, pend) == TRUE

\* ready: an undefined name counts as ready, so that the compiler reports it.
Ready(it, pend) ==
  it.refs \cap (IF it.t = "dir" THEN pend.matchers ELSE pend.tokens) = {}

\* A row of a classifier may use any matcher that exists and is of the request phase.
CompileClassify(p, it) ==
  IF \/ \E m \in it.refs : m \notin DOMAIN p.kinds
     \/ \E m \in it.refs : p.kinds[m] = "response"
     \/ it.arg \in p.tokens \/ it.arg \in p.norms
  THEN Failed(p) ELSE [p EXCEPT !.tokens = @ \cup {it.arg}]

CompileClassifyMatcher(p, it) ==
  IF it.refs \subseteq p.tokens THEN AddKind(p, it.name, "classify") ELSE Failed(p)

CompileItem(p, it) == IF it.t = "dir" THEN CompileClassify(p, it) ELSE CompileClassifyMatcher(p, it)

RECURSIVE Round(_, _, _, _)
\* One round: the site so far and the items put off.
Round(p, items, all, later) ==
  IF items = << >> \/ p.err THEN [p |-> p, later |-> later]
  ELSE LET it == Head(items)
       IN IF Ready(it, Pending(all, p))
          THEN Round(CompileItem(p, it), Tail(items), all, later)
          ELSE Round(p, Tail(items), all, Append(later, it))

RECURSIVE Rounds(_, _, _)
Rounds(p, remaining, all) ==
  LET r == Round(p, remaining, all, << >>)
  IN IF remaining = << >> \/ p.err THEN p
     ELSE IF r.p.err THEN r.p
     ELSE IF Len(r.later) = Len(remaining) THEN Failed(p)
     ELSE Rounds(r.p, r.later, all)

ResolveClassifyDeps(p) == Rounds(p, p.dirs \o p.mdefs, p.dirs \o p.mdefs)

-----------------------------------------------------------------------------
(* Pass 1c: an "all" matcher may not use another one, nor a response-phase *)
(* matcher, nor a name that is not there.                                  *)

AllOne(p, n) ==
  IF \/ p.err \/ n.refs = {}
     \/ \E m \in n.refs : m \notin DOMAIN p.kinds
     \/ \E m \in n.refs : p.kinds[m] \in {"all", "response"}
  THEN Failed(p) ELSE AddKind(p, n.name, "all")

ResolveAllMatchers(p) == IF p.err THEN p ELSE FoldLeft(AllOne, p, p.alls)

CompileNames(body) == ResolveAllMatchers(ResolveClassifyDeps(Collect(body)))

-----------------------------------------------------------------------------
(* Reference: what a body may name, as a set of nodes without an order. *)

Nodes(body, P(_)) == {i \in DOMAIN body : P(body[i])}
IsM(n, types) == n.t = "matcher" /\ n.type \in types
IsClassify(n) == n.t = "dir" /\ n.name = "classify"

DistinctNames(body) ==
  /\ \A i, j \in Nodes(body, LAMBDA n : n.t = "matcher") : i # j => body[i].name # body[j].name
  /\ \A i, j \in Nodes(body, LAMBDA n : n.t = "dir" /\ n.name \in {"normalize", "classify"}) :
       i # j => body[i].arg # body[j].arg

\* Item i needs item j: a classifier a classify matcher, or the other way round.
Needs(body, i, j) ==
  \/ IsClassify(body[i]) /\ IsM(body[j], {"classify"}) /\ body[j].name \in body[i].refs
  \/ IsM(body[i], {"classify"}) /\ IsClassify(body[j]) /\ body[j].arg \in body[i].refs

Named(body, types) == {body[i].name : i \in Nodes(body, LAMBDA n : IsM(n, types))}

WellFounded(body) ==
  LET items == Nodes(body, LAMBDA n : IsClassify(n) \/ IsM(n, {"classify"}))
      tokens == {body[i].arg : i \in Nodes(body, IsClassify)}
  IN /\ \A S \in SUBSET items : S # {} => \E i \in S : \A j \in S : ~Needs(body, i, j)
     /\ \A i \in Nodes(body, IsClassify) : body[i].refs \subseteq Named(body, {"plain", "classify"})
     /\ \A i \in Nodes(body, LAMBDA n : IsM(n, {"classify"})) : body[i].refs \subseteq tokens
     /\ \A i \in Nodes(body, LAMBDA n : IsM(n, {"all"})) :
          body[i].refs # {} /\ body[i].refs \subseteq Named(body, {"plain", "classify"})

\* When no name is defined twice, a site compiles exactly if its classifiers and
\* classify matchers do not depend on each other in a circle and name only what
\* exists and may be used, wherever in the file each of them stands; and then every
\* name is built (resolveClassifyDeps, resolveAllMatchers).
CompilesIfWellFounded(body) ==
  \A p \in {CompileNames(body)} :
     DistinctNames(body) =>
       /\ p.err = ~WellFounded(body)
       /\ ~p.err => /\ DOMAIN p.kinds = Named(body, {"plain", "response", "classify", "all"})
                    /\ p.tokens = {body[i].arg : i \in Nodes(body, IsClassify)}

\* A tenant's site has no name twice when neither the base nor the tenant has and no
\* classifier is in both; every base node is there unless the tenant has its
\* own of that name, the tenant's nodes come before the base's, and the tenant name
\* that keys its entries is the first node (expandGroup, mergeBaseTenant).
TenantSitesMerged(body) ==
  LET tenants == SelectSeq(body, LAMBDA n : n.t = "tenant")
      base == SelectSeq(body, LAMBDA n : n.t # "tenant")
      sites == ExpandGroup(body)
      own(i) == tenants[i].body
      tokens(b) == {b[k].arg : k \in Nodes(b, IsClassify)}
  IN \A i \in DOMAIN sites :
       LET b == sites[i].body
       IN /\ sites[i].hosts = tenants[i].hosts /\ sites[i].hosts # {}
          /\ b[1].arg = tenants[i].name
          /\ SubSeq(b, 2, Len(own(i)) + 1) = own(i)
          /\ (DistinctNames(base) /\ DistinctNames(own(i)) /\ tokens(base) \cap tokens(own(i)) = {})
               => DistinctNames(b)
          /\ \A k \in DOMAIN base : base[k] \notin Range(b) =>
               \E o \in Range(own(i)) : o.t = base[k].t /\ o.name = base[k].name
=============================================================================
