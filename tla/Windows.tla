------------------------------ MODULE Windows ------------------------------
(***************************************************************************)
(* src/ui/app_window.c: the windows of the application, kept in a Queue    *)
(* that close_app_interface frees with everything in it.  The caller is    *)
(* any program that hands the functions windows it has not destroyed.      *)
(***************************************************************************)
EXTENDS Queue, FiniteSets

CONSTANTS
  Window,     \* addresses malloc gives to an AppWindow
  MaxCreated  \* bound: how many windows are created

ASSUME WindowsAssumption == Value = Window \cup {NULL} /\ NULL \notin Window

VARIABLES
  windows,  \* the static pointer: "NULL", "open", or "freed" after free_queue
  live,     \* the allocated AppWindows
  parent,   \* the field of each
  shown,    \* those on the screen
  process,  \* "running" or "exited"
  damage,   \* what has been done to memory that was not the program's to touch
  destroyed \* which ends of the queue have been destroyed; a history variable

vars == <<windows, live, parent, shown, process, damage, destroyed, queue_vars>>

Init ==
  /\ windows = "NULL" /\ process = "running"
  /\ live = {} /\ shown = {} /\ damage = {} /\ destroyed = {}
  /\ parent = [w \in Window |-> NULL]
  /\ QueueInit

\* Once memory is damaged nothing can be said of the program.
Running == process = "running" /\ damage = {}
Exit == process' = "exited"

InQueue == {Items[i] : i \in DOMAIN chain}
Times(w) == {i \in DOMAIN chain : Items[i] = w}

\* free_queue(windows) calls free_app_window on every element: one whose window is
\* destroyed or in the queue twice is freed twice.
FreedTwice ==
  IF InQueue \subseteq live /\ \A i, j \in DOMAIN chain : Items[i] = Items[j] => i = j
  THEN {} ELSE {"freed_twice"}

\* Variant: only the queue is freed.
CloseQueueOnly ==
  /\ shown' = {}
  /\ damage' = damage \cup (IF windows = "freed" THEN {"freed_twice"} ELSE FreedTwice)
  /\ windows' = "freed"
  /\ free_queue
  /\ UNCHANGED live

\* free_queue(windows) and SDL_Quit().
Close ==
  /\ live' = live \ InQueue
  /\ shown' = {}
  /\ damage' = damage \cup (IF windows = "freed" THEN {"freed_twice"} ELSE FreedTwice)
  /\ windows' = "freed"
  /\ free_queue

\* raise_app_interface_error: the interface is closed, then the process exits.
Raise == Close /\ Exit

-----------------------------------------------------------------------------
(* The interface.                                                          *)

start_app_interface ==
  /\ Running
  /\ IF windows = "NULL"
     THEN /\ windows' = "open"
          /\ create_queue
          /\ UNCHANGED <<live, shown, process, damage>>
     ELSE Raise
  /\ UNCHANGED <<parent, destroyed>>

\* windows keeps its address: the next call does not find it NULL.
close_app_interface ==
  /\ Running
  /\ IF windows = "NULL"
     THEN Exit /\ UNCHANGED <<windows, live, shown, damage, queue_vars>>
     ELSE Close /\ UNCHANGED process
  /\ UNCHANGED <<parent, destroyed>>

-----------------------------------------------------------------------------
(* Windows.                                                                *)

\* A push follows end: into the queue, into an element that remove_queue_element has
\* freed, or, after close_app_interface, into a queue that is freed itself.
PushDamage ==
  IF windows = "freed" THEN {"pushed_on_freed_queue"}
  ELSE IF end \notin DOMAIN cells \cup {NULL} THEN {"pushed_on_freed_element"} ELSE {}

create_app_window(p) ==
  /\ Running /\ windows # "NULL" /\ size < MaxCreated
  /\ \E w \in Window \ live :
       /\ live' = live \cup {w}
       /\ parent' = [parent EXCEPT ![w] = p]
       /\ damage' = damage \cup PushDamage
       /\ IF PushDamage = {} THEN push_queue_element(w) ELSE UNCHANGED queue_vars
  /\ UNCHANGED <<windows, shown, process, destroyed>>

\* Before start_app_interface the process exits; later SDL_CreateWindow may fail, or
\* SDL_CreateRenderer, where free gets a pointer that SDL_CreateWindow has made.
CreateFails ==
  /\ Running
  /\ \/ windows = "NULL" /\ Exit /\ UNCHANGED <<windows, live, shown, damage, queue_vars>>
     \/ windows # "NULL" /\ Raise
     \/ /\ windows # "NULL"
        /\ Exit /\ windows' = "freed" /\ live' = live \ InQueue /\ shown' = {} /\ free_queue
        /\ damage' = damage \cup FreedTwice \cup {"freed_memory_of_SDL"}
  /\ UNCHANGED <<parent, destroyed>>

\* show_app_window, and show_dialog_app_window with or without hide_parent; drawing may
\* fail, as in set_app_window_background_color, and close everything.
show_app_window(w) ==
  /\ Running
  /\ \/ /\ shown' = shown \cup {w}
        /\ UNCHANGED <<windows, live, process, damage, queue_vars>>
     \/ Raise
  /\ UNCHANGED <<parent, destroyed>>

show_dialog_app_window(w) ==
  /\ Running /\ parent[w] # NULL
  /\ shown' = (shown \ {parent[w]}) \cup {w}
  /\ damage' = IF parent[w] \in live THEN damage ELSE damage \cup {"freed_parent"}
  /\ UNCHANGED <<windows, live, parent, process, destroyed, queue_vars>>

hide_app_window(w) ==
  /\ Running
  /\ shown' = shown \ {w}
  /\ UNCHANGED <<windows, live, parent, process, damage, destroyed, queue_vars>>

\* Whether w is the first entry of the queue, or the last one of several.
Ends(w) ==
  (IF 1 \in Times(w) THEN {"first"} ELSE {}) \cup
  (IF Len(chain) \in Times(w) \ {1} THEN {"last"} ELSE {})

\* Variant: the window is freed and stays in the queue.
DestroyListed(w) ==
  /\ Running
  /\ live' = live \ {w}
  /\ shown' = shown \ {w}
  /\ parent' = [parent EXCEPT ![w] = NULL]
  /\ destroyed' = destroyed \cup Ends(w)
  /\ UNCHANGED <<windows, process, damage, queue_vars>>

\* The first window stays in the queue; the last one leaves end behind.
destory_app_window(w) ==
  /\ Running
  /\ remove_queue_element(w)
  /\ live' = live \ {w}
  /\ shown' = shown \ {w}
  /\ parent' = [parent EXCEPT ![w] = NULL]
  /\ destroyed' = destroyed \cup Ends(w)
  /\ UNCHANGED <<windows, process, damage>>

Next ==
  \/ start_app_interface
  \/ close_app_interface
  \/ \E p \in live \cup {NULL} : create_app_window(p)
  \/ CreateFails
  \/ \E w \in live : show_app_window(w) \/ show_dialog_app_window(w) \/ hide_app_window(w)
                       \/ destory_app_window(w)

Spec == Init /\ [][Next]_vars

-----------------------------------------------------------------------------
(* Properties.                                                             *)

TypeOK ==
  /\ QueueTypeOK
  /\ windows \in {"NULL", "open", "freed"} /\ process \in {"running", "exited"}
  /\ live \subseteq Window /\ shown \subseteq Window
  /\ parent \in [Window -> Window \cup {NULL}]
  /\ damage \subseteq {"freed_twice", "pushed_on_freed_queue", "pushed_on_freed_element",
                       "freed_memory_of_SDL", "freed_parent"}
  /\ destroyed \subseteq {"first", "last"}

\* Whatever is destroyed, all windows there are can be found in the queue, and behind its
\* first entry no other ones and none twice.  The same goes for the first entry until the
\* window there is destroyed, which leaves the entry behind; and end is the last element
\* until the last of several windows is destroyed.
ListsTheWindows ==
  windows = "open" /\ damage = {} =>
    /\ PathSound
    /\ live \subseteq InQueue
    /\ \A i, j \in DOMAIN chain \ {1} : Items[i] \in live /\ (Items[i] = Items[j] => i = j)
    /\ "first" \notin destroyed => InQueue = live /\ \A w \in live : Cardinality(Times(w)) = 1
    /\ "last" \notin destroyed => end = IF chain = <<>> THEN NULL ELSE chain[Len(chain)]

\* The first close, whether it is asked for or an error brings it about, frees every window,
\* and one twice only after the window of the first entry has been destroyed.  No creation
\* before it writes in a freed element unless the last of several windows has been destroyed.
CloseFreesEachOnce ==
  [][windows = "open" =>
       /\ windows' = "freed" => /\ live' = {}
                                /\ "first" \notin destroyed => "freed_twice" \notin damage'
       /\ "last" \notin destroyed => "pushed_on_freed_element" \notin damage']_vars
=============================================================================
