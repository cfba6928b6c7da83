------------------------------- MODULE Impact -------------------------------
(***************************************************************************)
(* The impact card (src/impact): which official changes meet what is       *)
(* installed here, by registered matchers only.  A version is what is left *)
(* of it without its v; the refresh that brings the snapshot is that of    *)
(* OfficialEvidence.                                                       *)
(***************************************************************************)
EXTENDS Naturals, Sequences, SequencesExt

CONSTANTS
  Requests,   \* [local, items, disclosure, transport, payload]: items or None
  Bucket,     \* of a feature: "plugin", "skill", "mcp", "hook" or "none"
  MaxEdges,   \* MAX_GRAPH_EDGES
  None

VARIABLES
  request,    \* the call
  result      \* what it answered

vars == << request, result >>

-----------------------------------------------------------------------------
(***************************************************************************)
(* runRegisteredMatchers.  An edge is the matcher, the kind of the local   *)
(* thing and its name.                                                     *)
(***************************************************************************)
Elsewhere(i, l) == i.platforms # << >> /\ \A n \in DOMAIN i.platforms : i.platforms[n] \notin {l.os, "any"}

\* Mutant: no endpoint and no version are taken for the same.
VersionMatches_Null(i, l) == i.kind \in {"tag", "release"} /\ l.version \in {i.from, i.to}

VersionMatches(i, l) ==
  i.kind \in {"tag", "release"} /\ l.version # None /\ l.version \in {i.from, i.to}

Matched(names, here, matcher, kind) ==
  LET met == SelectSeq(names, LAMBDA x : x \in here)
  IN  [n \in DOMAIN met |-> << matcher, kind, met[n] >>]

Intersections(i, l) ==
  IF ~i.mapper \/ Elsewhere(i, l) THEN << >>
  ELSE (IF i.platforms = << >> THEN << >> ELSE << << "platform_intersection", "platform", l.os >> >>)
       \o (IF VersionMatches(i, l) THEN << << "version_tag_to_installed", "instance_version", l.version >> >>
           ELSE << >>)
       \o Matched(i.config_keys, l.config_keys, "config_key_intersection", "config_key")
       \o FlattenSeq([n \in DOMAIN i.component_ids |->
            LET comp == i.component_ids[n]
            IN  Matched(<< comp >>, l.features, "component_to_feature", "feature_id")
                \o Matched(<< comp >>, {f \in l.features : Bucket[f] # "none"},
                           "component_to_plugin_skill_mcp_hook", Bucket[comp])])
       \o Matched(i.artifact_aliases, l.aliases, "artifact_alias_intersection", "artifact_alias")
       \o Matched(i.surfaces, {l.surface}, "surface_runtime_intersection", "runtime_surface")

\* Mutant: whatever else meets it, the surface decides.
Wrong_Surface(i, l) ==
  i.mapper /\ (Elsewhere(i, l) \/ (i.surfaces # << >> /\ \A n \in DOMAIN i.surfaces : i.surfaces[n] # l.surface))

Wrong(i, l) ==
  /\ i.mapper
  /\ \/ Elsewhere(i, l)
     \/ /\ i.surfaces # << >> /\ \A n \in DOMAIN i.surfaces : i.surfaces[n] # l.surface
        /\ i.config_keys = << >> /\ i.component_ids = << >>

Hit(i, l) == [wrong |-> Wrong(i, l), edges |-> Intersections(i, l)]

\* Mutant: the hits are kept by kind.
HitOf_ByKind(items, l, id) ==
  LET kind == items[SelectInSeq(items, LAMBDA i : i.id = id)].kind
  IN  Hit(items[SelectLastInSeq(items, LAMBDA i : i.kind = kind)], l)

\* The hits are kept by the name of the evidence: the last of a name stays.
HitOf(items, l, id) == Hit(items[SelectLastInSeq(items, LAMBDA i : i.id = id)], l)

-----------------------------------------------------------------------------
(***************************************************************************)
(* buildChangeToLocalGraph                                                 *)
(***************************************************************************)
\* Mutant: what is rejected keeps its edges.
EdgesOf_Rejected(i, l) ==
  LET hits == Intersections(i, l) IN [n \in DOMAIN hits |-> << i.id, hits[n] >>]

EdgesOf(i, l) ==
  LET hits == IF Wrong(i, l) THEN << >> ELSE Intersections(i, l)
  IN  [n \in DOMAIN hits |-> << i.id, hits[n] >>]

Unmapped(items) == {items[n].id : n \in {m \in DOMAIN items : ~items[m].mapper}}

Graph(items, l) ==
  LET edges == FlattenSeq([n \in DOMAIN items |-> EdgesOf(items[n], l)])
  IN  [edges |-> SubSeq(edges, 1, IF Len(edges) < MaxEdges THEN Len(edges) ELSE MaxEdges),
       unmapped |-> Unmapped(items)]

NoGraph == [edges |-> << >>, unmapped |-> {}]

-----------------------------------------------------------------------------
(***************************************************************************)
(* buildImpactCard.  What meets nothing is told apart, never called        *)
(* unsupported; the rows it adds at the end for unmapped changes without a *)
(* row never are: each has had its row.                                    *)
(***************************************************************************)
Status(items, l, id) ==
  LET hit == HitOf(items, l, id)
  IN  CASE hit.wrong -> "REJECTED_WRONG_INTERSECTION"
        [] ~hit.wrong /\ id \in Unmapped(items) -> "UNMAPPED_CHANGE"
        [] ~hit.wrong /\ id \notin Unmapped(items) /\ hit.edges = << >> -> "no_local_intersection"
        [] OTHER -> "INTERSECTING"

RowOf(items, l, i) ==
  [id |-> i.id, kind |-> i.kind, status |-> Status(items, l, i.id),
   intersections |-> IF Status(items, l, i.id) = "INTERSECTING" THEN HitOf(items, l, i.id).edges ELSE << >>]

Shown(rows) == SelectSeq(rows, LAMBDA r : r.status # "no_local_intersection")

Told(rows) ==
  {rows[n].id : n \in {m \in DOMAIN rows : rows[m].status = "no_local_intersection"}}

Card(r) ==
  IF r.local = None \/ r.items = None
  THEN [ok |-> FALSE, rows |-> << >>, told |-> {}, graph |-> NoGraph,
        error |-> IF r.local = None THEN "LOCAL_SURFACE_ERROR" ELSE "NO_SNAPSHOT"]
  ELSE \* one evaluation of the rows
       LET Of(rows) == [ok |-> TRUE, rows |-> Shown(rows), told |-> Told(rows),
                        graph |-> Graph(r.items, r.local), error |-> None]
       IN  Of([n \in DOMAIN r.items |-> RowOf(r.items, r.local, r.items[n])])

(***************************************************************************)
(* assessImpact: the transport is handed on only when the disclosure was   *)
(* approved and the local surface observed.  What a model says of the      *)
(* graph is refused, whatever it is, and the graph stays.                  *)
(***************************************************************************)
Assessed(r) ==
  [card |-> Card(r), transport |-> r.transport /\ r.disclosure = "approved" /\ r.local # None,
   refused |-> r.local # None /\ r.payload # {}]

Init == request \in Requests /\ result = None

Assess ==
  /\ result = None
  /\ result' = Assessed(request)
  /\ UNCHANGED request

Next == Assess

-----------------------------------------------------------------------------
Rows == {result.card.rows[n] : n \in DOMAIN result.card.rows}

Answered == result # None /\ result.card.ok

\* What is known here with one thing less.
Lesser(l) ==
  {[l EXCEPT !.version = None]} \cup {[l EXCEPT !.config_keys = @ \ {k}] : k \in l.config_keys}
  \cup {[l EXCEPT !.features = @ \ {f}] : f \in l.features}
  \cup {[l EXCEPT !.aliases = @ \ {a}] : a \in l.aliases}

(***************************************************************************)
(* Knowing more of what is installed hides nothing: every change the card  *)
(* shows without it, it shows with it, as intersecting if it was so.       *)
(***************************************************************************)
KnowingMoreNeverHides ==
  Answered =>
    \A l \in Lesser(request.local) :
      LET less == Card([request EXCEPT !.local = l])
      IN  \A n \in DOMAIN less.rows :
            \E r \in Rows : /\ r.id = less.rows[n].id
                            /\ less.rows[n].status = "INTERSECTING" => r.status = "INTERSECTING"

(***************************************************************************)
(* Where evidence has names of its own every change is accounted for once, *)
(* as a row or as one that meets nothing, and its row shows what meets it, *)
(* unless it is rejected, and nothing of another change.                   *)
(***************************************************************************)
EachChangeIsItsOwn ==
  (Answered /\ \A n, m \in DOMAIN request.items : request.items[n].id = request.items[m].id => n = m) =>
    /\ Len(result.card.rows) + Len(SetToSeq(result.card.told)) = Len(request.items)
    /\ \A r \in Rows : \E n \in DOMAIN request.items :
         LET i == request.items[n]
         IN  /\ r.id = i.id /\ r.kind = i.kind
             /\ r.intersections = IF Wrong(i, request.local) THEN << >> ELSE Intersections(i, request.local)

(***************************************************************************)
(* The graph and the card tell the same: an edge belongs to a row that     *)
(* intersects, and as long as the graph is not cut every intersection of a *)
(* row is an edge.  (Of two changes of one name the card shows the last.)  *)
(***************************************************************************)
GraphAndCardAgree ==
  (Answered /\ \A n, m \in DOMAIN request.items : request.items[n].id = request.items[m].id => n = m) =>
    LET edges == {result.card.graph.edges[n] : n \in DOMAIN result.card.graph.edges}
        shown == UNION {{<< r.id, r.intersections[k] >> : k \in DOMAIN r.intersections} : r \in Rows}
    IN  /\ edges \subseteq shown
        /\ Len(result.card.graph.edges) < MaxEdges => shown \subseteq edges

(***************************************************************************)
(* What a rejection loses: a change for another platform met nothing here; *)
(* one for other surfaces met no setting, component or surface, yet it may *)
(* have met the version installed here, its platform or an alias.  There   *)
(* the code disagrees with its comment, which would have a wrong surface   *)
(* decide only where there is `no other positive intersection'.  A change  *)
(* that no matcher knows is never rejected.                                *)
(***************************************************************************)
LostByRejection == {"version_tag_to_installed", "platform_intersection", "artifact_alias_intersection"}

RejectionLosesNoSetting ==
  (Answered /\ \A n, m \in DOMAIN request.items : request.items[n].id = request.items[m].id => n = m) =>
    \A n \in DOMAIN request.items :
      LET i    == request.items[n]
          hits == Intersections(i, request.local)
      IN  (\E r \in Rows : r.id = i.id /\ r.status = "REJECTED_WRONG_INTERSECTION") =>
            /\ i.mapper /\ (Elsewhere(i, request.local) => hits = << >>)
            /\ \A k \in DOMAIN hits : hits[k][1] \in LostByRejection
=============================================================================
