CONSTANT Requests = {r1, r2, r3}
SPECIFICATION ProcessSpec
INVARIANTS GoroutineJoined NilMeansComplete ErrorsReported PoolOutlivesHandlers ExitsClean
PROPERTY SignalEnds
