----------------------------- MODULE ReloadInv -----------------------------
(***************************************************************************)
(* The inductive strengthening of the invariants of Reload.  It says what  *)
(* the builder's partial walk knows about the generation it started from,  *)
(* which is what makes carrying a value forward, and cleaning only the old *)
(* values of dirty nodes, correct.                                         *)
(***************************************************************************)
EXTENDS Reload

InReload == phase \in {"walking", "swapped"}

\* A reload's locals exist only between Accept and the return; the current
\* generation is the nil pointer or holds a document and registered nodes.
Framed ==
    /\ ~InReload => /\ builder = NewBuilder(NoDoc)
                    /\ pos = 0
                    /\ oldGen = NilGen
    /\ InReload => builder.config \in Doc /\ pos <= registered
    /\ phase = "walking" => oldGen = current
    /\ current.version >= -1
    /\ current.version = -1 => current = NilGen
    /\ current.version # -1 => current.config \in Doc
    /\ \A n \in Nodes : Present(current.values, n) => n < registered
    /\ phase # "idle" => attempt > 0

\* A value is computed by some attempt or is absent, and only the walk in
\* progress has values of the present attempt.
Dated ==
    /\ \A n \in Nodes : Present(current.values, n) => current.values[n].at >= 1
    /\ \A n \in Nodes : ~Present(current.values, n) => current.values[n] = Absent
    /\ \A n \in Nodes : Present(oldGen.values, n) => oldGen.values[n].at >= 1
    /\ \A n \in Nodes : Present(builder.values, n) => builder.values[n].at >= 1
    /\ \A n \in Nodes : current.values[n].at <= attempt
    /\ \A n \in Nodes : builder.values[n].at <= attempt
    /\ phase \in {"fetching", "walking"} =>
          \A n \in Nodes : current.values[n].at < attempt

\* What the walk has established for the nodes below pos.
Walked ==
    InReload =>
      /\ ConsistentOn(builder.config, builder.values)
      /\ \A n \in Nodes : n >= pos => builder.values[n] = Absent /\ ~builder.dirty[n]
      /\ \A n \in Nodes : n < pos => Present(builder.values, n)
      \* A clean node has its old data, a clean resource its old instance.
      /\ \A n \in Nodes : n < pos /\ ~builder.dirty[n] =>
            /\ Present(oldGen.values, n)
            /\ oldGen.values[n].data = builder.values[n].data
            /\ Kind[n] = "resource" => oldGen.values[n] = builder.values[n]
      \* A dirty resource is a new instance, any other dirty node differs.
      /\ \A n \in Nodes : n < pos /\ builder.dirty[n] =>
            IF Kind[n] = "resource" THEN builder.values[n].at = attempt
                                    ELSE Changed(n, builder.values[n].data)
      \* A node without a dirty parent was carried forward.
      /\ \A n \in Nodes : n < pos /\ MayCarry(n) =>
            builder.values[n] = oldGen.values[n] /\ ~builder.dirty[n]

\* Where the resource instances are: the fates partition them, the instances
\* of the present attempt are those of the walk, and a batch is scheduled once.
Accounted ==
    /\ ResourcesAccounted
    /\ \A r \in built : Kind[r[1]] = "resource" /\ r[2] <= attempt
    /\ phase = "fetching" => \A r \in built : r[2] < attempt
    /\ phase = "walking" => \A r \in built : r[2] = attempt => r \in Building
    /\ \A a \in Attempts : a > attempt => cleanup[a] = {}
    /\ phase # "idle" => \A a \in Attempts : a = attempt => cleanup[a] = {}
    /\ \A a \in Attempts : \A i, j \in cleanup[a] : i.node = j.node => i = j

IInv == TypeOK /\ Framed /\ Dated /\ SnapshotConsistent /\ Walked /\ Accounted

-----------------------------------------------------------------------------
(* Under DirectKeeps: what values can reach. *)

\* The reach of a value, from its own instance and its parents' values.
HeldExact(vals, n) ==
    vals[n].held = (IF Kind[n] = "resource" THEN {<<n, vals[n].at>>} ELSE {})
        \cup (IF Keeps[n] THEN UNION {vals[p].held : p \in Parents[n]} ELSE {})

LiveIn(vals) == {<<n, vals[n].at>> : n \in {m \in Nodes : /\ Kind[m] = "resource"
                                                          /\ Present(vals, m)}}

\* Every value reaches exactly what its parents' values reach, all of it live;
\* a resource is retired together with all that it reaches.
HeldInv ==
    /\ \A n \in Nodes : Present(current.values, n) =>
          HeldExact(current.values, n) /\ current.values[n].held \subseteq Live
    /\ \A n \in Nodes : Present(builder.values, n) =>
          /\ HeldExact(builder.values, n)
          /\ builder.values[n].held \subseteq LiveIn(builder.values)
    /\ \A n \in Nodes :
          n < pos /\ Kind[n] = "resource" /\ builder.dirty[n]
            /\ Present(oldGen.values, n) =>
               \A r \in oldGen.values[n].held : \E m \in Nodes :
                  /\ m <= n /\ Kind[m] = "resource" /\ builder.dirty[m]
                  /\ Present(oldGen.values, m) /\ r = <<m, oldGen.values[m].at>>
    /\ \A a \in Attempts : \A i \in cleanup[a] : \A r \in i.held :
          r \in InstancesOf(cleanup[a]) /\ r[1] <= i.node
=============================================================================
