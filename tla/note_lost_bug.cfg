SPECIFICATION AlarmSpec
CONSTANTS
  MinutesOfDay = 2
  MaxAlarmDays = 2
  MaxNotes = 2
  MaxChanges = 2
  MaxAlarmCrashes = 0
INVARIANT NotesAnnounced
CHECK_DEADLOCK FALSE
