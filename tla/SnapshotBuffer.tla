---------------------------- MODULE SnapshotBuffer -----------------------------
(* The snapshots a client holds: one delta per tick, and the state that left    *)
(* the window last.  The state at a tick is the state before it with its delta  *)
(* applied; the code caches every state and derives the later ones again when a *)
(* late snapshot is put before them, which is this definition.                  *)
EXTENDS SnapshotCodec

NoState == [i \in {} |-> i]
NoEntries == [entries |-> NoState, base |-> NoState]

newest(buffer) ==
  IF DOMAIN buffer.entries = {} THEN 0
  ELSE CHOOSE t \in DOMAIN buffer.entries : \A u \in DOMAIN buffer.entries : u <= t

StateAt(buffer, tick) ==
  LET state[n \in 0 .. tick] ==
        IF n = 0 THEN buffer.base
        ELSE IF n \in DOMAIN buffer.entries THEN Apply(state[n - 1], buffer.entries[n])
        ELSE state[n - 1]
  IN state[tick]

outside_window(tick, latest) == latest >= Window /\ tick <= latest - Window

\* Whether insert takes the delta of this tick.
Accepts(buffer, tick, delta) ==
  /\ tick \notin DOMAIN buffer.entries
  /\ ~outside_window(tick, IF newest(buffer) > tick THEN newest(buffer) ELSE tick)
  /\ Fits(StateAt(buffer, tick), delta)

\* The buffer after it took it: what left the window lives on in the base.
insert(buffer, tick, delta) ==
  LET all == [t \in DOMAIN buffer.entries \cup {tick} |->
                IF t = tick THEN delta ELSE buffer.entries[t]]
      full == [entries |-> all, base |-> buffer.base]
      old == {t \in DOMAIN all : outside_window(t, newest(full))}
  IN [entries |-> [t \in DOMAIN all \ old |-> all[t]],
      base |-> IF old = {} THEN buffer.base
               ELSE StateAt(full, CHOOSE t \in old : \A u \in old : u <= t)]
================================================================================
