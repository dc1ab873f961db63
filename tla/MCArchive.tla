----------------------------- MODULE MCArchive -----------------------------
(* The instances of Archive that TLC checks. *)
EXTENDS Archive

Budget(turns, paths, leaves, drops, deletes, edits, skills, crashes, titles, reflects,
       projs) ==
  [turns |-> turns, paths |-> paths, leaves |-> leaves, drops |-> drops, deletes |-> deletes,
   edits |-> edits, skills |-> skills, crashes |-> crashes, titles |-> titles,
   counts |-> reflects, projects |-> projs]

\* Three turns with one mishap of each kind that touches transcripts, over the
\* relay and the streams; two turns of the other paths; three exchanges that are
\* titled; edits of the memory around one turn and its reflection; a skill that is
\* rewritten while two turns use it; projects that come and go around two turns.
Scenarios ==
  { Budget(3, {"json", "openai"}, 1, 1, 1, 0, 0, 0, 0, 0, 0),
    Budget(4, {"json", "external_stream"}, 1, 0, 1, 0, 0, 1, 0, 0, 0),
    Budget(3, {"tools", "rich", "proxy", "external", "internal"}, 1, 0, 1, 0, 0, 0, 0, 0, 0),
    Budget(3, {"json", "rich"}, 0, 0, 1, 0, 1, 0, 3, 0, 0),
    Budget(4, {"json"}, 0, 0, 1, 1, 0, 0, 0, 4, 0),
    Budget(1, {"json"}, 0, 0, 1, 3, 0, 1, 0, 1, 0),
    Budget(2, {"json"}, 0, 0, 0, 0, 2, 0, 0, 0, 0),
    Budget(2, {"json", "openai", "internal"}, 1, 0, 1, 0, 0, 1, 0, 0, 4) }

=============================================================================
