-------------------------- MODULE PublishedConfig --------------------------
(***************************************************************************)
(* What Push Config promises, without locks, sockets or handlers: versions *)
(* are published one after the other, each holding registry data no older  *)
(* than the one before, and a site only ever installs a published version, *)
(* with exactly the content it was published with. What is installed may   *)
(* be changed at the site.                                                 *)
(***************************************************************************)
EXTENDS Naturals

CONSTANTS
  Revisions,  \* revisions of the registry data a version may hold
  Local       \* content changed at the site

VARIABLES
  latest,     \* the last published version; 0 before the first
  published,  \* version -> revision it holds
  installed   \* the version last installed at the site, and what it holds now

vars == <<latest, published, installed>>

Init ==
  /\ latest = 0
  /\ published = [v \in {} |-> 0]
  /\ installed = [version |-> 0, content |-> 0]

Publish(content) ==
  /\ \A v \in 1..latest : published[v] <= content
  /\ latest' = latest + 1
  /\ published' = [v \in 1..(latest + 1) |->
                     IF v = latest + 1 THEN content ELSE published[v]]
  /\ UNCHANGED installed

Install(v) ==
  /\ installed' = [version |-> v, content |-> published[v]]
  /\ UNCHANGED <<latest, published>>

EditLocally ==
  /\ installed' = [installed EXCEPT !.content = Local]
  /\ UNCHANGED <<latest, published>>

Next ==
  \/ \E content \in Revisions : Publish(content)
  \/ \E v \in 1..latest : Install(v)
  \/ EditLocally

Spec == Init /\ [][Next]_vars
=============================================================================
