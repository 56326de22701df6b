CONSTANTS
  Wrap = 11
  Second = 2
  MaxOwed = 2
  PollRequests = {0, 4}
  SendRequests = {0, 1, 4}
  LongestInterval = 4
  ConsoleCommands = {"s", "set_poll_interval", "set_send_interval"}
SPECIFICATION Spec
INVARIANT TimersBehindClock
PROPERTY TimersGoOn
