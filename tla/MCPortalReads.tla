---------------------------- MODULE MCPortalReads ----------------------------
(* The values of MCCollectionPortal, for the portal with its readers. *)
EXTENDS PortalReads, MCCollectionPortal

\* The run has the types of doc_types only, whose URLs arrive as they are.
MCFollowed == [key \in Keys |-> key]
=============================================================================
