------------------------------ MODULE Subjects ------------------------------
(***************************************************************************)
(* How the gRPC service turns the subject of a request into the arguments   *)
(* of a watcher.  The event names whose inotify events the model does not   *)
(* have (access, attrib, close, open) ask for nothing here.                 *)
(***************************************************************************)

\* The bits each event name stands for.
EventBits == [all |-> {"CREATE", "DELETE", "MODIFY", "MOVED_FROM", "MOVED_TO",
                       "DELETE_SELF", "MOVE_SELF"},
              create |-> {"CREATE"},
              delete |-> {"DELETE"},
              deleteself |-> {"DELETE_SELF"},
              modify |-> {"MODIFY"},
              moveself |-> {"MOVE_SELF"},
              movedfrom |-> {"MOVED_FROM"},
              movedto |-> {"MOVED_TO"},
              move |-> {"MOVED_FROM", "MOVED_TO"}]

\* getEventMaskFromSubject: a name it does not know adds nothing.
EventMaskFromSubject(events) == UNION {EventBits[e] : e \in events \cap DOMAIN EventBits}
=============================================================================
