----------------------------- MODULE SiteCliHarvest -----------------------------
(***************************************************************************)
(* scripts/sitecli_ssh_harvest.py against the Site CLI at the other end of   *)
(* its pty: the program opens two completion menus, scrolls each until       *)
(* patience scrolls brought nothing new, leaves it, ends the session and     *)
(* writes the catalog.  A page may arrive after the short read that should   *)
(* have found it; the session may die.                                     *)
(***************************************************************************)
EXTENDS Naturals, Sequences

CONSTANTS
  MenuSize,    \* menu -> number of commands in it
  PageRows,    \* rows of a page, 6
  Patience,    \* barren scrolls that end a menu, 20
  MaxScrolls,  \* scrolls after which it gives up, 200
  Late         \* bound: pages a short read may leave unread

Menus == {"top_level", "execcli"}

ASSUME HarvestAssumption ==
  /\ MenuSize \in [Menus -> Nat \ {0}] /\ PageRows \in Nat \ {0}
  /\ Patience \in Nat /\ MaxScrolls \in Nat /\ Late \in Nat

VARIABLES
  menu,      \* the menu being harvested
  step,      \* the program's next step
  selected, firstRow, \* CLI: the selected row, 0 for none, and the first visible
  unread,    \* pty: pages painted and not read yet
  found,     \* MenuAccumulator: commands of the menu being harvested
  barren, scrolls,    \* counters of scroll_menu
  ceiling,   \* menus reported as maybe truncated
  catalog,   \* menu -> commands
  child,     \* the ssh process
  written,   \* the catalog file was written and 0 returned
  dropped,   \* history: the session died before the last menu was left
  lag        \* history: the most pages a read left unread

harvestVars == <<menu, step, selected, firstRow, unread, found, barren, scrolls, ceiling,
                 catalog, child, written, dropped, lag>>

MenuRows(m) == {<<m, i>> : i \in 1..MenuSize[m]}

(* What the pty echoes of the keys once nobody is at its other end, unless    *)
(* ssh left it raw: parse_menu takes it for commands.                       *)
Echoes == {<<"echo", i>> : i \in 1..2}
Commands == (Menus \cup {"echo"}) \X Nat
Echoed == IF child = "alive" THEN {{}} ELSE SUBSET Echoes

HarvestTypeOK ==
  /\ menu \in Menus
  /\ step \in {"prompt", "open", "scroll", "leave", "close", "kill", "reap", "write", "end"}
  /\ selected \in Nat /\ firstRow \in Nat \ {0} /\ barren \in 0..Patience
  /\ scrolls \in 0..MaxScrolls
  /\ unread \in Seq(SUBSET Commands) /\ found \subseteq Commands
  /\ ceiling \subseteq Menus /\ catalog \in [Menus -> SUBSET Commands]
  /\ child \in {"alive", "dead"} /\ written \in BOOLEAN /\ dropped \in BOOLEAN
  /\ lag \in Nat

HarvestInit ==
  /\ menu = "top_level" /\ step = "prompt" /\ selected = 0 /\ firstRow = 1
  /\ unread = <<>> /\ found = {} /\ barren = 0 /\ scrolls = 0 /\ ceiling = {}
  /\ catalog = [m \in Menus |-> {}] /\ child = "alive" /\ written = FALSE /\ dropped = FALSE
  /\ lag = 0

------------------------------------------------------------------------------
(* The Site CLI paints a page per key; Down after the last row selects none  *)
(* and shows the first page again.                                         *)
Page(m, first) == {<<m, i>> : i \in first..(first + PageRows - 1)} \cap MenuRows(m)
NextSelected == IF selected = MenuSize[menu] THEN 0 ELSE selected + 1
NextFirst ==
  IF NextSelected = 0 THEN 1
  ELSE IF NextSelected = firstRow + PageRows THEN firstRow + 1 ELSE firstRow

(* What a read that finds the n oldest pages returns.                       *)
ReadPages(pages, n) == UNION {pages[i] : i \in 1..n}

------------------------------------------------------------------------------
(* The program *)

(* The prompt appears, or a minute passes and main closes the session.      *)
WaitForPrompt ==
  /\ step = "prompt"
  /\ step' = "close" \/ (child = "alive" /\ step' = "open")
  /\ UNCHANGED <<menu, selected, firstRow, unread, found, barren, scrolls, ceiling,
                 catalog, child, written, dropped, lag>>

(* The opener, TAB and the first page, read with seconds of patience.  What  *)
(* a dead session is sent is lost without an error, and a read of it returns *)
(* nothing or an echo.                                                     *)
OpenMenu ==
  /\ step = "open" /\ step' = "scroll"
  /\ selected' = 0 /\ firstRow' = 1 /\ barren' = 0 /\ scrolls' = 0
  /\ \E echo \in Echoed : found' = IF child = "alive" THEN Page(menu, 1) ELSE echo
  /\ unread' = <<>>
  /\ UNCHANGED <<menu, ceiling, catalog, child, written, dropped, lag>>

(* Mutant: one scroll too many.                                            *)
ScrollDownFarMutant ==
  /\ step = "scroll" /\ barren < Patience /\ scrolls <= MaxScrolls
  /\ scrolls' = scrolls + 1
  /\ IF child = "alive" THEN selected' = NextSelected /\ firstRow' = NextFirst
     ELSE UNCHANGED <<selected, firstRow>>
  /\ LET pages == IF child = "alive" THEN Append(unread, Page(menu, firstRow')) ELSE unread
     IN \E n \in 0..Len(pages), echo \in Echoed :
          /\ IF child = "alive" THEN Len(pages) - n <= Late ELSE n = Len(pages)
          /\ unread' = SubSeq(pages, n + 1, Len(pages))
          /\ lag' = IF Len(pages) - n > lag THEN Len(pages) - n ELSE lag
          /\ found' = found \cup ReadPages(pages, n) \cup echo
          /\ barren' = IF found' = found THEN barren + 1 ELSE 0
  /\ UNCHANGED <<menu, step, ceiling, catalog, child, written, dropped>>

(* Mutant: new rows do not reset the count of barren scrolls.              *)
ScrollDownMutant ==
  /\ step = "scroll" /\ barren < Patience /\ scrolls < MaxScrolls
  /\ scrolls' = scrolls + 1
  /\ IF child = "alive" THEN selected' = NextSelected /\ firstRow' = NextFirst
     ELSE UNCHANGED <<selected, firstRow>>
  /\ LET pages == IF child = "alive" THEN Append(unread, Page(menu, firstRow')) ELSE unread
     IN \E n \in 0..Len(pages), echo \in Echoed :
          /\ IF child = "alive" THEN Len(pages) - n <= Late ELSE n = Len(pages)
          /\ unread' = SubSeq(pages, n + 1, Len(pages))
          /\ lag' = IF Len(pages) - n > lag THEN Len(pages) - n ELSE lag
          /\ found' = found \cup ReadPages(pages, n) \cup echo
          /\ barren' = IF found' = found THEN barren + 1 ELSE barren
  /\ UNCHANGED <<menu, step, ceiling, catalog, child, written, dropped>>

ScrollDown ==
  /\ step = "scroll" /\ barren < Patience /\ scrolls < MaxScrolls
  /\ scrolls' = scrolls + 1
  /\ IF child = "alive" THEN selected' = NextSelected /\ firstRow' = NextFirst
     ELSE UNCHANGED <<selected, firstRow>>
  /\ LET pages == IF child = "alive" THEN Append(unread, Page(menu, firstRow')) ELSE unread
     IN \E n \in 0..Len(pages), echo \in Echoed :
          /\ IF child = "alive" THEN Len(pages) - n <= Late ELSE n = Len(pages)
          /\ unread' = SubSeq(pages, n + 1, Len(pages))
          /\ lag' = IF Len(pages) - n > lag THEN Len(pages) - n ELSE lag
          /\ found' = found \cup ReadPages(pages, n) \cup echo
          /\ barren' = IF found' = found THEN barren + 1 ELSE 0
  /\ UNCHANGED <<menu, step, ceiling, catalog, child, written, dropped>>

ScrollsEnd ==
  /\ step = "scroll" /\ step' = "leave"
  /\ \/ barren = Patience /\ UNCHANGED ceiling
     \/ barren < Patience /\ scrolls = MaxScrolls /\ ceiling' = ceiling \cup {menu}
  /\ UNCHANGED <<menu, selected, firstRow, unread, found, barren, scrolls, catalog, child,
                 written, dropped, lag>>

(* Ctrl-C abandons the line; late pages are read and dropped.               *)
LeaveMenu ==
  /\ step = "leave"
  /\ unread' = <<>>
  /\ catalog' = [catalog EXCEPT ![menu] = found]
  /\ \/ menu = "top_level" /\ menu' = "execcli" /\ step' = "open"
     \/ menu = "execcli" /\ UNCHANGED menu /\ step' = "close"
  /\ UNCHANGED <<selected, firstRow, found, barren, scrolls, ceiling, child, written,
                 dropped, lag>>

(* PtyProcess.close: SIGTERM, five seconds, SIGKILL, and the child reaped.   *)
Terminate ==
  /\ step = "close"
  /\ \/ child' = "dead" /\ step' = "reap"
     \/ child = "alive" /\ UNCHANGED child /\ step' = "kill"
  /\ UNCHANGED <<menu, selected, firstRow, unread, found, barren, scrolls, ceiling,
                 catalog, written, dropped, lag>>

KillChild ==
  /\ step = "kill" /\ step' = "reap" /\ child' = "dead"
  /\ UNCHANGED <<menu, selected, firstRow, unread, found, barren, scrolls, ceiling,
                 catalog, written, dropped, lag>>

(* After a prompt that never came main ends with the error, otherwise it     *)
(* writes the catalog.                                                     *)
WriteCatalog ==
  /\ step = "reap" /\ step' = "end"
  /\ written' = (menu = "execcli")
  /\ UNCHANGED <<menu, selected, firstRow, unread, found, barren, scrolls, ceiling,
                 catalog, child, dropped, lag>>

SessionDies ==
  /\ child = "alive" /\ child' = "dead" /\ dropped' = TRUE
  /\ step \in {"prompt", "open", "scroll"}
  /\ UNCHANGED <<menu, step, selected, firstRow, unread, found, barren, scrolls, ceiling,
                 catalog, written, lag>>

HarvestNext ==
  \/ WaitForPrompt \/ OpenMenu \/ ScrollDown \/ ScrollsEnd \/ LeaveMenu \/ Terminate
  \/ KillChild \/ WriteCatalog \/ SessionDies

HarvestSpec == HarvestInit /\ [][HarvestNext]_harvestVars

------------------------------------------------------------------------------
(* Properties *)

(* In a session that lasted, a catalog holds nothing but rows of its menus,   *)
(* and the whole of every menu that was not reported as maybe truncated -    *)
(* unless a read once left so many pages behind that they and the first page *)
(* outlasted the patience of scroll_menu.                                   *)
HarvestComplete ==
  written /\ ~dropped =>
    \A m \in Menus :
      /\ catalog[m] \subseteq MenuRows(m)
      /\ m \notin ceiling /\ PageRows + lag < Patience => catalog[m] = MenuRows(m)

(* scroll_menu opens a completion menu and scrolls it to exhaustion          *)
(* (scripts/sitecli_ssh_harvest.py:459), and says so if it may be truncated. *)
ScrolledToExhaustion ==
  written => \A m \in Menus \ ceiling : catalog[m] = MenuRows(m)
=============================================================================
