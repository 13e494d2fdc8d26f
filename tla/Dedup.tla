-------------------------------- MODULE Dedup --------------------------------
(***************************************************************************)
(* deduplication.Dedupe (internal/deduplication) over the fetched messages *)
(* of one source.  A batch is a sequence of records with the fields        *)
(* `parses', `key' and `origin'; a result names messages by position.      *)
(***************************************************************************)
EXTENDS Naturals, Sequences, FiniteSets

Parsed(b) == {i \in DOMAIN b : b[i].parses}

\* Mutation: the last posting of a key replaces the ones before it.
DedupeLast(b) == {i \in Parsed(b) : \A j \in Parsed(b) : j > i => b[j].key # b[i].key}

\* The messages of a batch whose content is saved: the first of each key.
Dedupe(b) == {i \in Parsed(b) : \A j \in Parsed(b) : j < i => b[j].key # b[i].key}

\* Mutation: the sources of a merged posting are forgotten.
FirstSource(b, i) == {b[i].origin}

\* The introductions a deduplicated posting carries: those of its whole group.
MergedSources(b, i) == {b[j].origin : j \in {n \in Parsed(b) : b[n].key = b[i].key}}
=============================================================================
