---------------------------- MODULE MCSiteCliHarvest ----------------------------
(***************************************************************************)
(* The Site CLI harvest alone: one menu shorter than two pages, one longer.  *)
(***************************************************************************)
EXTENDS SiteCliHarvest

MCMenuSize == [m \in Menus |-> IF m = "execcli" THEN 5 ELSE 3]
=============================================================================
