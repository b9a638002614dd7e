------------------------------ MODULE Discovery ------------------------------
(***************************************************************************)
(* Discovery of one printer on the LAN (bambulab/discovery.go              *)
(* DiscoverPrinter): a listener for announcements, open for a window of    *)
(* its own within the caller's context, until the printer announces itself.*)
(* An announcement is what parseAnnouncement looks at.                     *)
(***************************************************************************)
VARIABLES
    ctx,       \* the caller's context: "live", "expired" or "cancelled"
    listener,  \* "closed"; "open"; "over", its window having ended; or "done"
    announcer  \* history: whom the announcement taken for the printer's named

Announcement == [nt : BOOLEAN, ipv4 : BOOLEAN, usn : {"serial", "other", "blank"}]

parseAnnouncement(packet) == packet.nt /\ packet.ipv4 /\ packet.usn # "blank"

Listen ==
    /\ listener' = "open"
    /\ announcer' = "nobody"

\* The visitor stops the listener at the first announcement of the serial; packets
\* it does not understand, and other printers, are passed over.
Announced ==
    /\ listener = "open"
    /\ \E packet \in Announcement :
           /\ parseAnnouncement(packet) /\ packet.usn = "serial"
           /\ announcer' = packet.usn
    /\ listener' = "done"

WindowEnds ==
    /\ listener = "open"
    /\ listener' = "over"
    /\ UNCHANGED announcer

\* Mutant of ListenEnds: every deadline is taken for the window's.
ListenEndsEmpty(e) ==
    /\ \/ listener = "over" /\ e = "undiscovered"
       \/ listener = "open" /\ e = "context" /\ ctx # "live"
       \/ listener = "open" /\ e = "listen"
    /\ listener' = "done"
    /\ UNCHANGED announcer

\* The listener ends with e: without an announcement when its window is over and
\* the caller's context is not; else with the context's error or, at any time,
\* with the socket's.
ListenEnds(e) ==
    /\ \/ listener = "over" /\ e = (IF ctx = "live" THEN "undiscovered" ELSE "context")
       \/ listener = "open" /\ e = "context" /\ ctx # "live"
       \/ listener = "open" /\ e = "listen"
    /\ listener' = "done"
    /\ UNCHANGED announcer
=============================================================================
