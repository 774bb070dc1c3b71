------------------------------ MODULE MCStartup ------------------------------
(* Instances of Startup for TLC: one side varies while the other is plain.    *)
EXTENDS Startup

Side(kind, url, index, keys) ==
  [repo |-> TRUE, kind |-> kind, url |-> url, index |-> index, keys |-> keys]

PlainSource == Side("HELM", "absolute", "default", {})
IndexedSource == Side("OCI", "absolute", "own", {})
PlainTarget == Side("OCI", "absolute", "default", {})

\* Every kind, URL and index; every combination of settings, and an empty section for the
\* credentials of container registries; no repository.
Repositories ==
  {Side(k, u, i, {}) :
     k \in Kinds, u \in {"absolute", "relative", "malformed"},
     i \in {"default", "own", "disabled"}}
Settings(side) ==
  {[side EXCEPT !.keys = ks] :
     ks \in SUBSET (Keys \ {"containers.auth"}) \cup {{"containers.auth"}}}
Missing(side) == {[side EXCEPT !.repo = FALSE]}

Plain ==
  [readable |-> TRUE, wellFormed |-> TRUE, charts |-> TRUE, skip |-> FALSE,
   source |-> PlainSource, target |-> PlainTarget]

MCFiles ==
  {[Plain EXCEPT !.source = s, !.charts = c] :
     s \in Repositories \cup Missing(PlainSource), c \in BOOLEAN}
  \cup {[Plain EXCEPT !.target = t] : t \in Repositories \cup Missing(PlainTarget)}
  \cup {[Plain EXCEPT !.source = s] : s \in Settings(PlainSource) \cup Settings(IndexedSource)}
  \cup {[Plain EXCEPT !.target = t] : t \in Settings(PlainTarget)}
  \cup {[Plain EXCEPT !.readable = FALSE], [Plain EXCEPT !.wellFormed = FALSE],
        [Plain EXCEPT !.skip = TRUE]}

\* The same variables are set on both sides.
MCEnvironments ==
  {[env |-> [s \in Sides |-> e], legacy |-> [s \in Sides |-> l]] :
     e \in SUBSET (BoundKeys \ {"containers.auth.registry"}), l \in SUBSET RepoKeys}
==============================================================================
