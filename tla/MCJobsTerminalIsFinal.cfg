SPECIFICATION Spec
CONSTANTS
  Job = {chatty}
  Worker = {w1, w2}
  Chatty = {chatty}
  NoWorker = NoWorker
  MaxCrashes = 1
PROPERTIES TerminalIsFinal
