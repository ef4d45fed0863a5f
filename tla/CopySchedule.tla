---------------------------- MODULE CopySchedule ----------------------------
(***************************************************************************)
(* The order in which the phi copies of one edge are written                *)
(* (ra_emit_scheduled_phi_copies).  The copies happen at once, the          *)
(* instructions one after the other.  holds[v] names the register whose     *)
(* value, as it was before the edge, v has after the instructions written.  *)
(* Registers are numbers; those from first_phi_temp_pos on are temporaries  *)
(* made to break cycles.                                                    *)
(***************************************************************************)
EXTENDS Naturals, Sequences

VARIABLES copies, \* the copies array: dest_vreg, src_vreg and emitted
          asked,  \* the copies as they were collected
          holds,
          next,   \* next_temporary_variable
          first_phi_temp_pos

scheduleVars == <<copies, asked, holds, next, first_phi_temp_pos>>

Identity == [v \in 0 .. next - 1 |-> v]

\* What ra_collect_phi_copies_for_pred may return: every phi has a destination
\* of its own.
CopyLists ==
    {list \in Seq([dest : 0 .. first_phi_temp_pos - 1, src : 0 .. first_phi_temp_pos - 1]) :
        \A i, j \in DOMAIN list : i # j => list[i].dest # list[j].dest}

Pending == {i \in DOMAIN copies : ~copies[i].emitted}

(* Mutant: only the copies behind this one are looked at. *)
ClobbersLater(ci) == \E i \in Pending : i > ci /\ copies[i].src = copies[ci].dest

(* Mutant: a source that was saved in a temporary still counts. *)
ClobbersAsked(ci) == \E i \in Pending \ {ci} : asked[i].src = copies[ci].dest

\* ra_phi_copy_dest_clobbers_pending_source, before register allocation
Clobbers(ci) == \E i \in Pending \ {ci} : copies[i].src = copies[ci].dest

Ready == {ci \in Pending : ~Clobbers(ci)}

ScheduleInit ==
    /\ copies = <<>>
    /\ asked = <<>>
    /\ first_phi_temp_pos \in Nat
    /\ next = first_phi_temp_pos
    /\ holds = Identity

Begin(list) ==
    /\ Pending = {}
    /\ copies' = [i \in DOMAIN list |->
                     [dest |-> list[i].dest, src |-> list[i].src, emitted |-> FALSE]]
    /\ asked' = list
    /\ holds' = Identity
    /\ UNCHANGED <<next, first_phi_temp_pos>>

\* The first copy that overwrites no register another copy still has to read.
EmitReady(ci) ==
    /\ ci \in Ready
    /\ \A j \in Ready : ci <= j
    /\ copies' = [copies EXCEPT ![ci].emitted = TRUE]
    /\ holds' = [holds EXCEPT ![copies[ci].dest] = holds[copies[ci].src]]
    /\ UNCHANGED <<asked, next, first_phi_temp_pos>>

\* Every copy is in a cycle: the source of the first is saved in a new
\* temporary, and the copy reads that instead.
BreakCycle(ci) ==
    /\ Ready = {}
    /\ ci \in Pending
    /\ \A j \in Pending : ci <= j
    /\ copies' = [copies EXCEPT ![ci].src = next]
    /\ holds' = [v \in 0 .. next |-> holds[IF v = next THEN copies[ci].src ELSE v]]
    /\ next' = next + 1
    /\ UNCHANGED <<asked, first_phi_temp_pos>>

ScheduleNext ==
    \/ \E list \in CopyLists : Begin(list)
    \/ \E ci \in DOMAIN copies : EmitReady(ci) \/ BreakCycle(ci)

ScheduleSpec == ScheduleInit /\ [][ScheduleNext]_scheduleVars

\* When the loop of ra_emit_scheduled_phi_copies is over, every destination has
\* the value its source had before the first instruction, and no other register
\* of the program has changed.
EdgeCopied ==
    Pending = {} =>
        /\ \A i \in DOMAIN asked : holds[asked[i].dest] = asked[i].src
        /\ \A v \in 0 .. first_phi_temp_pos - 1 :
              (\A i \in DOMAIN asked : asked[i].dest # v) => holds[v] = v

\* A copy whose source ra_create_phi_temp has saved is not saved again, so the
\* loop makes at most one temporary for a copy and cannot go on for ever.
SavedOnce ==
    [][\A ci \in DOMAIN copies : BreakCycle(ci) => copies[ci].src < first_phi_temp_pos]_scheduleVars
=============================================================================
