CONSTANTS
  ipu = ipu
  a15 = a15
  dsp = dsp
  c1 = c1
  c2 = c2
  c3 = c3
  src = src
  alg = alg
  disp = disp
  NoOne = NoOne
  CPUs = {ipu, a15, dsp}
  Controllers = {c1, c2, c3}
  Links = {src, alg, disp}
  Cpu <- OnCpu
  Prev <- PrevOf
  Chain <- Uses
  QueMax = 2
SPECIFICATION FairSpec
INVARIANTS TypeOK OneCommandPerCpu
PROPERTIES AnswerOwn IsRpc CommandReturns
